----------------------------- MODULE BatchQueue -----------------------------
(* What RGB Ring ABI 2 promises: a bounded queue of decoded batches.  A batch  *)
(* is handed out whole and in order; a reset withdraws the queue, and nothing  *)
(* goes in or out until the reader has adopted a newer epoch.                  *)
EXTENDS Naturals, Sequences

CONSTANTS Capacity, Batches

VARIABLES
    epoch,   \* the generation the reader has adopted
    live,    \* FALSE from a reset until the next epoch is adopted
    queue,   \* batches published and not taken
    taken    \* what was handed to the reader in this epoch

vars == <<epoch, live, queue, taken>>

Init == epoch = 1 /\ live = TRUE /\ queue = <<>> /\ taken = <<>>

Put(b) ==
    /\ live /\ Len(queue) < Capacity
    /\ queue' = Append(queue, b)
    /\ UNCHANGED <<epoch, live, taken>>

Take ==
    /\ live /\ queue # <<>>
    /\ taken' = Append(taken, [meta |-> Head(queue), pixels |-> Head(queue)])
    /\ queue' = Tail(queue)
    /\ UNCHANGED <<epoch, live>>

Withdraw ==
    /\ live
    /\ live' = FALSE /\ queue' = <<>>
    /\ UNCHANGED <<epoch, taken>>

Adopt ==
    /\ ~live
    /\ epoch' > epoch /\ live' = TRUE
    /\ queue' = <<>> /\ taken' = <<>>

Next == (\E b \in Batches : Put(b)) \/ Take \/ Withdraw \/ Adopt

Spec == Init /\ [][Next]_vars
=============================================================================
