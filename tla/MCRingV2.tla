------------------------------ MODULE MCRingV2 ------------------------------
(* Instances of RingV2 for TLC: two slots, so that the ring wraps within four *)
(* batches, and as many generations as a run needs resets.                    *)
EXTENDS RingV2
=============================================================================
