----------------------------- MODULE MCLogRing -----------------------------
(* A ring of 8 bytes that holds one to two logs of 3 to 5 bytes.  Five *)
(* logs take the pointers round the ring twice.                        *)
EXTENDS LogRing
=============================================================================
