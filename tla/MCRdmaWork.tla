---------------------------- MODULE MCRdmaWork ----------------------------
(* Instances of RdmaWork: which threads make which calls. *)
EXTENDS RdmaWork

Do(op, addr, val) == [op |-> op, addr |-> addr, val |-> val]
Buff == Do("buff", "buff", None)

(* buff_init asks for the ring; the writer and the NIC thread then use it, *)
(* like check_remote_size, rb_write_mate and rb_write_data do, and every   *)
(* other kind of call is made once.                                        *)
Mixed ==
  [init |-> <<Buff, Do("malloc", "heap", None), Do("read", "heap", None)>>,
   writer |-> <<Do("read", "buff", None), Do("write", "buff", "v1"), Do("sendr", "buff", None)>>,
   nic |-> <<Do("write", "buff", "v2"), Do("sendw", "buff", "v3")>>]

MallocAndUse == [init |-> <<Do("malloc", "heap", None), Do("write", "heap", "v1")>>]

SendTwice ==
  [init |-> <<Buff, Do("sendw", "buff", "v1"), Do("sendw", "buff", "v2")>>]
=============================================================================
