--------------------------- MODULE MCDeckSession ---------------------------
(* Instances of DeckSession: one or two sources of two or three slots.       *)
EXTENDS DeckSession, TLC

CONSTANTS A, B, calm, wild

Uneven == [s \in Sources |-> IF s = A THEN 2 ELSE 3]
Straight == {[s \in Sources |-> FALSE]}
AnyLoops == [Sources -> BOOLEAN]
AnySettings == Permutations(Settings)
=============================================================================
