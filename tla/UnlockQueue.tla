---------------------------- MODULE UnlockQueue ----------------------------
(***************************************************************************)
(* The lock-free single-producer single-consumer queue of unlock_queue.c,  *)
(* one action per memory access that the other thread can see.  On the     *)
(* link it is sending_queue: the producer is the thread that calls         *)
(* head_node_write_log, the consumer is NIC_thread.                        *)
(***************************************************************************)
EXTENDS Integers, Sequences

CONSTANTS
  Entries,  \* logEntry pointers
  NoEntry,  \* content of a slot never written, and of out before a pop
  LEN       \* q->len, the number of slots used

ASSUME LenAssumption == LEN \in Nat \ {0}

Slots == 0 .. LEN - 1

VARIABLES
  wid, rid,  \* q->wid (written by the producer), q->rid (by the consumer)
  data,      \* q->data
  ppc, pval, \* where the producer stands in putQueue, and its argument
  cpc, cval, \* where the consumer stands, and the buffer topQueue fills
  out        \* the entry the consumer took last

vars == <<wid, rid, data, ppc, pval, cpc, cval, out>>
producer == <<wid, data, ppc, pval>>
consumer == <<rid, cpc, cval, out>>

(* Variant: the index is not reduced modulo len. *)
SuccNoModulo(i) == i + 1

Succ(i) == (i + 1) % LEN

(* initQueue *)
Init ==
  /\ wid = 0
  /\ rid = 0
  /\ data = [i \in Slots |-> NoEntry]
  /\ ppc = "idle"
  /\ pval = NoEntry
  /\ cpc = "idle"
  /\ cval = NoEntry
  /\ out = NoEntry

----------------------------------------------------------------------------
(* putQueue: test for full, copy the entry, publish the new wid. *)

PutFull(e) ==
  /\ ppc = "idle"
  /\ Succ(wid) = rid
  /\ pval' = e
  /\ UNCHANGED <<wid, data, ppc>>
  /\ UNCHANGED consumer

(* Variant: no test for a full queue. *)
PutBeginNoTest(e) ==
  /\ ppc = "idle"
  /\ pval' = e
  /\ ppc' = "copy"
  /\ UNCHANGED <<wid, data>>
  /\ UNCHANGED consumer

PutBegin(e) ==
  /\ ppc = "idle"
  /\ Succ(wid) # rid
  /\ pval' = e
  /\ ppc' = "copy"
  /\ UNCHANGED <<wid, data>>
  /\ UNCHANGED consumer

PutCopy ==
  /\ ppc = "copy"
  /\ data' = [data EXCEPT ![wid] = pval]
  /\ ppc' = "publish"
  /\ UNCHANGED <<wid, pval>>
  /\ UNCHANGED consumer

PutPublish ==
  /\ ppc = "publish"
  /\ wid' = Succ(wid)
  /\ ppc' = "idle"
  /\ UNCHANGED <<data, pval>>
  /\ UNCHANGED consumer

----------------------------------------------------------------------------
(* The consumer's loop: emptyQueue, topQueue, popQueue. *)

(* Variant: emptyQueue compares the indices by order. *)
NotEmptyByOrder ==
  /\ cpc = "idle"
  /\ wid > rid
  /\ cpc' = "top"
  /\ UNCHANGED <<rid, cval, out>>
  /\ UNCHANGED producer

NotEmpty ==
  /\ cpc = "idle"
  /\ wid # rid
  /\ cpc' = "top"
  /\ UNCHANGED <<rid, cval, out>>
  /\ UNCHANGED producer

Top ==
  /\ cpc = "top"
  /\ cval' = data[rid]
  /\ cpc' = "pop"
  /\ UNCHANGED <<rid, out>>
  /\ UNCHANGED producer

Pop ==
  /\ cpc = "pop"
  /\ rid' = IF wid = rid THEN rid ELSE Succ(rid)
  /\ out' = cval
  /\ cpc' = "idle"
  /\ UNCHANGED cval
  /\ UNCHANGED producer

Produce == PutCopy \/ PutPublish \/ \E e \in Entries : PutFull(e) \/ PutBegin(e)
Consume == NotEmpty \/ Top \/ Pop

Next == Produce \/ Consume

Spec == Init /\ [][Next]_vars

(* Both threads busy-wait, so a step that stays possible is taken. *)
FairSpec ==
  /\ Spec
  /\ WF_vars(PutCopy \/ PutPublish)
  /\ WF_vars(Consume)

----------------------------------------------------------------------------
(* The indices name slots, at every point of putQueue and popQueue *)
(* (unlock_queue.c:24-45).                                         *)
TypeOK ==
  /\ wid \in Slots
  /\ rid \in Slots
  /\ data \in [Slots -> Entries \cup {NoEntry}]
  /\ ppc \in {"idle", "copy", "publish"}
  /\ pval \in Entries \cup {NoEntry}
  /\ cpc \in {"idle", "top", "pop"}
  /\ cval \in Entries \cup {NoEntry}
  /\ out \in Entries \cup {NoEntry}

(***************************************************************************)
(* The two threads never meet in a slot: between the test for full and the *)
(* publication the producer's slot stays outside the queue, and between    *)
(* emptyQueue and popQueue the consumer's slot stays inside it and keeps   *)
(* the entry topQueue copied (unlock_queue.c:24-56).                       *)
(***************************************************************************)
SlotsExclusive ==
  /\ ppc # "idle" => Succ(wid) # rid /\ pval \in Entries
  /\ ppc = "publish" => data[wid] = pval
  /\ cpc # "idle" => wid # rid
  /\ cpc = "pop" => cval = data[rid]

Count == (wid - rid) % LEN

(* The published entries, oldest first. *)
Content == [i \in 1 .. Count |-> data[(rid + i - 1) % LEN]]

FIFO == INSTANCE BoundedFIFO WITH items <- Content, Capacity <- LEN - 1

(***************************************************************************)
(* putQueue/topQueue/popQueue run concurrently by one producer and one     *)
(* consumer behave as a FIFO list of LEN - 1 entries: nothing is lost,     *)
(* duplicated, reordered, overwritten before it is popped, or handed out   *)
(* before it was completely copied in (unlock_queue.c:24-56).              *)
(***************************************************************************)
ImplementsFIFO == FIFO!Spec

(***************************************************************************)
(* A queue that is not empty moves on: whatever slot rid stands at, the    *)
(* consumer's busy loop pops it, at the wrap-around of the indices too     *)
(* (unlock_queue.c:39-51, log_buffer.c:363-377).                           *)
(***************************************************************************)
Drains == \A i \in Slots : (rid = i /\ wid # rid) ~> (rid # i)

=============================================================================
