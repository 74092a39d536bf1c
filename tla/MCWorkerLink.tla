---------------------------- MODULE MCWorkerLink ----------------------------
(* Instances of WorkerLink: a few commands, heartbeats and deadlines, and a   *)
(* pipe that is full with one or two frames.                                  *)
EXTENDS WorkerLink
=============================================================================
