---------------------------- MODULE MCLogBuffer ----------------------------
(* Instances of LogBuffer: what the writer thread is given to send. *)
EXTENDS LogBuffer

Log(k, kl, vl) == [key |-> k, klen |-> kl, vlen |-> vl]

(* Logs of one length, like NAME_LISTS: distinct keys; keys that reach the *)
(* end of the ring; values that do; a key that is written twice in a row.  *)
(* Then logs of several lengths.  In all of them the byte that becomes a   *)
(* tag was last a byte of a string, or none: HalfRing is what happens      *)
(* otherwise.  And no log ends on the last byte of the ring: the write     *)
(* pointer would rest on its end, and the next write have no bytes.        *)
Harmless ==
  {<<Log("a", 1, 2), Log("b", 1, 2), Log("c", 1, 2), Log("d", 1, 2),
     Log("e", 1, 2)>>,
   <<Log("a", 3, 2), Log("b", 3, 2), Log("c", 3, 2), Log("d", 3, 2),
     Log("e", 3, 2)>>,
   <<Log("a", 1, 4), Log("b", 1, 4), Log("c", 1, 4), Log("d", 1, 4),
     Log("e", 1, 4)>>,
   <<Log("a", 1, 2), Log("a", 1, 2), Log("b", 1, 2)>>,
   <<Log("a", 1, 2), Log("b", 1, 3), Log("c", 2, 4), Log("d", 1, 4),
     Log("e", 3, 3)>>}

(* Logs of half the length of the ring: every other log ends where an *)
(* earlier one ended.                                                 *)
HalfRing == {<<Log("a", 2, 4), Log("b", 2, 4), Log("c", 2, 4)>>}

(* One key, written again and again. *)
OneKey == {<<Log("a", 3, 2), Log("a", 3, 2), Log("a", 3, 2)>>}
=============================================================================
