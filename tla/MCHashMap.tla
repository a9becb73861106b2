----------------------------- MODULE MCHashMap -----------------------------
(* An instance of HashMap with keys that collide in tables of 2 slots, of 4 *)
(* and of 8.                                                                *)
EXTENDS HashMap

SomeHash == [k \in Keys |-> CASE k = "a" -> 0 [] k = "b" -> 8 [] k = "c" -> 4
                              [] k = "d" -> 2 [] OTHER -> 1]
=============================================================================
