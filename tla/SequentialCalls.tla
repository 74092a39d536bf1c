-------------------------- MODULE SequentialCalls --------------------------
(* What a worker session promises its owner: calls are made one at a time,   *)
(* the worker serves each at most once and in the order of the calls, and a   *)
(* call that returns a verdict returns the verdict of that very call.  A call *)
(* may fail at any time, before it is served, after it or without being sent. *)
EXTENDS Naturals, Sequences

Verdicts == {"ack", "error"}

VARIABLES
    called,     \* number of calls sent
    waiting,    \* whether the last one has not returned
    served,     \* verdicts of the worker, by number of the call
    answer      \* what the owner was told last, and of which call

vars == <<called, waiting, served, answer>>

Init == called = 0 /\ waiting = FALSE /\ served = <<>> /\ answer = [of |-> 0, verdict |-> "failed"]

Ask ==
    /\ ~waiting
    /\ called' = called + 1 /\ waiting' = TRUE
    /\ UNCHANGED <<served, answer>>

Serve ==
    /\ Len(served) < called
    /\ \E v \in Verdicts : served' = Append(served, v)
    /\ UNCHANGED <<called, waiting, answer>>

Answer ==
    /\ waiting /\ Len(served) = called
    /\ answer' = [of |-> called, verdict |-> served[called]]
    /\ waiting' = FALSE
    /\ UNCHANGED <<called, served>>

Fail ==
    /\ answer' = [of |-> called, verdict |-> "failed"]
    /\ waiting' = FALSE
    /\ UNCHANGED <<called, served>>

Next == Ask \/ Serve \/ Answer \/ Fail

Spec == Init /\ [][Next]_vars
=============================================================================
