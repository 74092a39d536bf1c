--------------------------- MODULE MCDeckRegistry ---------------------------
(* Instances of DeckRegistry: the interface sends one command at a time,      *)
(* except closes; the application exits on its own account.                   *)
EXTENDS DeckRegistry, TLC

CONSTANTS ui, closer

All == Commands \ {"close", "exit"}
MayUi == [t \in Clients |-> IF t = ui THEN All ELSE {"close", "exit"}]
MayWork == [t \in Clients |-> IF t = ui THEN All \ {"clear"} ELSE {"close"}]
Same == Permutations(Ids)
=============================================================================
