--------------------------- MODULE MCUnlockQueue ---------------------------
(* Four slots and two entries: the indices wrap, the queue fills up. *)
EXTENDS UnlockQueue
=============================================================================
