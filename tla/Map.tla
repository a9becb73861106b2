-------------------------------- MODULE Map --------------------------------
(* What users of mid_hashmap.c rely on: a finite map. *)
CONSTANTS Keys, Values, NULL

VARIABLE map

Init == map = [k \in Keys |-> NULL]

Put(k, v) == map' = [map EXCEPT ![k] = v]
Remove(k) == map' = [map EXCEPT ![k] = NULL]

Next == \E k \in Keys : Remove(k) \/ \E v \in Values : Put(k, v)

Spec == Init /\ [][Next]_map
=============================================================================
