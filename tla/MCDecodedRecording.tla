------------------------- MODULE MCDecodedRecording -------------------------
(* Instances of DecodedRecording: two recordings in a row, two commands that  *)
(* stop them beside the actor, and a queue of one frame.                      *)
EXTENDS DecodedRecording
=============================================================================
