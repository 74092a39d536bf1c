------------------------ MODULE MCExtensionLifecycle ------------------------
(* Instances of ExtensionLifecycle for TLC.                                *)
EXTENDS ExtensionLifecycle, TLC

CONSTANTS v1, v2, x, y, deck, player

Same == Permutations({v1, v2}) \cup Permutations({deck, player})
=============================================================================
