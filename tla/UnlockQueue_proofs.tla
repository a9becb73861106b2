------------------------ MODULE UnlockQueue_proofs ------------------------
(***************************************************************************)
(* Proofs about UnlockQueue for every length and every set of entries:     *)
(* the type invariant, the exclusive use of slots (an inductive            *)
(* invariant), and that the queue implements a bounded FIFO list.          *)
(***************************************************************************)
EXTENDS UnlockQueue, RingArithmetic, SequenceTheorems

(* The next index, by cases. *)
LEMMA SuccCases ==
  ASSUME NEW i \in Slots
  PROVE  /\ Succ(i) \in Slots
         /\ i # LEN - 1 => Succ(i) = i + 1
         /\ i = LEN - 1 => Succ(i) = 0
  <1>1. LEN \in Int /\ LEN > 0 /\ i \in 0 .. LEN - 1
    BY LenAssumption DEF Slots
  <1>2. CASE i # LEN - 1
    <2>1. i + 1 \in 0 .. LEN - 1
      BY <1>1, <1>2
    <2>2. (i + 1) % LEN = i + 1
      BY <1>1, <2>1, ModInRing
    <2> QED
      BY <1>2, <2>1, <2>2 DEF Succ, Slots
  <1>3. CASE i = LEN - 1
    <2>1. (0 + LEN) % LEN = 0 % LEN
      BY <1>1, ModLap
    <2>2. 0 % LEN = 0
      BY <1>1, ModInRing
    <2>3. i + 1 = 0 + LEN
      BY <1>1, <1>3
    <2> QED
      BY <1>1, <1>3, <2>1, <2>2, <2>3 DEF Succ, Slots
  <1> QED
    BY <1>2, <1>3

(* Every variable keeps its type: the indices stay inside the slots. *)
LEMMA TypeInvariance == TypeOK /\ [Next]_vars => TypeOK'
  <1> SUFFICES ASSUME TypeOK, [Next]_vars
               PROVE  TypeOK'
    OBVIOUS
  <1> USE DEF TypeOK
  <1>1. ASSUME NEW e \in Entries, PutFull(e) \/ PutBegin(e)
        PROVE  TypeOK'
    BY <1>1 DEF PutFull, PutBegin, consumer
  <1>2. CASE PutCopy
    BY <1>2 DEF PutCopy, consumer
  <1>3. CASE PutPublish
    BY <1>3, SuccCases DEF PutPublish, consumer
  <1>4. CASE NotEmpty
    BY <1>4 DEF NotEmpty, producer
  <1>5. CASE Top
    BY <1>5 DEF Top, producer
  <1>6. CASE Pop
    BY <1>6, SuccCases DEF Pop, producer
  <1>7. CASE UNCHANGED vars
    BY <1>7 DEF vars
  <1> QED
    BY <1>1, <1>2, <1>3, <1>4, <1>5, <1>6, <1>7 DEF Next, Produce, Consume

LEMMA InitType == Init => TypeOK
  BY LenAssumption DEF Init, TypeOK, Slots

(* Every reachable state is well typed. *)
THEOREM TypeCorrect == Spec => []TypeOK
  BY InitType, TypeInvariance, PTL DEF Spec

(* A step of either thread leaves the slot of the other one alone. *)
LEMMA ExclusiveInvariance ==
  TypeOK /\ SlotsExclusive /\ [Next]_vars => SlotsExclusive'
  <1> SUFFICES ASSUME TypeOK, SlotsExclusive, [Next]_vars
               PROVE  SlotsExclusive'
    OBVIOUS
  <1> USE DEF TypeOK, SlotsExclusive
  <1>1. ASSUME NEW e \in Entries, PutFull(e) \/ PutBegin(e)
        PROVE  SlotsExclusive'
    BY <1>1 DEF PutFull, PutBegin, consumer, Succ
  <1>2. CASE PutCopy
    BY <1>2 DEF PutCopy, consumer, Succ
  <1>3. CASE PutPublish
    BY <1>3, SuccCases DEF PutPublish, consumer
  <1>4. CASE NotEmpty
    BY <1>4 DEF NotEmpty, producer, Succ
  <1>5. CASE Top
    BY <1>5 DEF Top, producer, Succ
  <1>6. CASE Pop
    <2>1. rid' = Succ(rid) /\ wid' = wid /\ cpc' = "idle"
      BY <1>6 DEF Pop, producer
    <2>2. wid # rid => Succ(wid) # Succ(rid)
      BY SuccCases DEF Slots
    <2> QED
      BY <1>6, <2>1, <2>2 DEF Pop, producer, Succ
  <1>7. CASE UNCHANGED vars
    BY <1>7 DEF vars, Succ
  <1> QED
    BY <1>1, <1>2, <1>3, <1>4, <1>5, <1>6, <1>7 DEF Next, Produce, Consume

LEMMA InitExclusive == Init => SlotsExclusive
  BY DEF Init, SlotsExclusive

(* The producer and the consumer never meet in a slot. *)
THEOREM ExclusiveSlots == Spec => []SlotsExclusive
  <1>1. Init => TypeOK /\ SlotsExclusive
    BY InitType, InitExclusive
  <1>2. TypeOK /\ SlotsExclusive /\ [Next]_vars => TypeOK' /\ SlotsExclusive'
    BY TypeInvariance, ExclusiveInvariance
  <1> QED
    BY <1>1, <1>2, PTL DEF Spec
----------------------------------------------------------------------------
(* The refinement mapping, as operators of the two indices and the slots. *)

Dist(w, r) == (w - r) % LEN
Slot(r, i) == (r + i - 1) % LEN
Listed(w, r, d) == [i \in 1 .. Dist(w, r) |-> d[Slot(r, i)]]
Stored == Entries \cup {NoEntry}

LEMMA ContentIsListed ==
  /\ Count = Dist(wid, rid)
  /\ Content = Listed(wid, rid, data)
  /\ Content' = Listed(wid', rid', data')
  BY DEF Count, Content, Dist, Listed, Slot

(* How many entries lie between the indices, by cases. *)
LEMMA DistCases ==
  ASSUME NEW w \in Slots, NEW r \in Slots
  PROVE  /\ Dist(w, r) \in 0 .. LEN - 1
         /\ w >= r => Dist(w, r) = w - r
         /\ w < r => Dist(w, r) = w - r + LEN
  <1>1. LEN \in Int /\ LEN > 0 /\ w \in 0 .. LEN - 1 /\ r \in 0 .. LEN - 1
    BY LenAssumption DEF Slots
  <1>2. CASE w >= r
    <2>1. w - r \in 0 .. LEN - 1
      BY <1>1, <1>2
    <2>2. (w - r) % LEN = w - r
      BY <1>1, <2>1, ModInRing
    <2> QED
      BY <1>1, <1>2, <2>1, <2>2 DEF Dist
  <1>3. CASE w < r
    <2>1. w - r + LEN \in 0 .. LEN - 1 /\ w - r \in Int
      BY <1>1, <1>3
    <2>2. (w - r + LEN) % LEN = w - r + LEN
      BY <1>1, <2>1, ModInRing
    <2>3. (w - r + LEN) % LEN = (w - r) % LEN
      BY <1>1, <2>1, ModLap
    <2> QED
      BY <1>1, <1>3, <2>1, <2>2, <2>3 DEF Dist
  <1> QED
    BY <1>1, <1>2, <1>3

(* The slot of an entry, by cases. *)
LEMMA SlotCases ==
  ASSUME NEW r \in Slots, NEW i \in 1 .. LEN
  PROVE  /\ Slot(r, i) \in Slots
         /\ r + i - 1 < LEN => Slot(r, i) = r + i - 1
         /\ r + i - 1 >= LEN => Slot(r, i) = r + i - 1 - LEN
  <1>1. LEN \in Int /\ LEN > 0 /\ r \in 0 .. LEN - 1
    BY LenAssumption DEF Slots
  <1>2. CASE r + i - 1 < LEN
    <2>1. r + i - 1 \in 0 .. LEN - 1
      BY <1>1, <1>2
    <2>2. (r + i - 1) % LEN = r + i - 1
      BY <1>1, <2>1, ModInRing
    <2> QED
      BY <1>1, <1>2, <2>1, <2>2 DEF Slot, Slots
  <1>3. CASE r + i - 1 >= LEN
    <2> DEFINE x == r + i - 1 - LEN
    <2>1. x \in 0 .. LEN - 1 /\ x \in Int /\ x + LEN = r + i - 1
      BY <1>1, <1>3
    <2> HIDE DEF x
    <2>2. x % LEN = x
      BY <1>1, <2>1, ModInRing
    <2>3. (x + LEN) % LEN = x % LEN
      BY <1>1, <2>1, ModLap
    <2>4. Slot(r, i) = x /\ x \in Slots
      BY <2>1, <2>2, <2>3 DEF Slot, Slots
    <2> QED
      BY <1>3, <1>1, <2>4 DEF x
  <1> QED
    BY <1>1, <1>2, <1>3

(* The listed entries are a sequence. *)
LEMMA ListedIsSeq ==
  ASSUME NEW w \in Slots, NEW r \in Slots, NEW d \in [Slots -> Stored]
  PROVE  /\ Listed(w, r, d) \in Seq(Stored)
         /\ Len(Listed(w, r, d)) = Dist(w, r)
         /\ \A i \in 1 .. Dist(w, r) : Listed(w, r, d)[i] = d[Slot(r, i)]
  <1> DEFINE n == Dist(w, r)
  <1>1. n \in Nat /\ \A i \in 1 .. n : i \in 1 .. LEN
    BY DistCases, LenAssumption
  <1>2. \A i \in 1 .. n : d[Slot(r, i)] \in Stored
    BY <1>1, SlotCases
  <1>3. Listed(w, r, d) \in [1 .. n -> Stored]
    BY <1>2 DEF Listed
  <1>4. Listed(w, r, d) \in Seq(Stored)
    BY <1>1, <1>3, SeqDef
  <1>5. Len(Listed(w, r, d)) = n
    BY <1>1, <1>3, <1>4, LenProperties
  <1> QED
    BY <1>4, <1>5 DEF Listed

(* No listed slot is the one the producer fills. *)
LEMMA ProducerSlotOutside ==
  ASSUME NEW w \in Slots, NEW r \in Slots, NEW i \in 1 .. Dist(w, r)
  PROVE  Slot(r, i) \in Slots /\ Slot(r, i) # w
  <1>1. w \in 0 .. LEN - 1 /\ r \in 0 .. LEN - 1 /\ LEN \in Nat \ {0}
    BY LenAssumption DEF Slots
  <1>2. /\ Dist(w, r) \in 0 .. LEN - 1
        /\ w >= r => Dist(w, r) = w - r
        /\ w < r => Dist(w, r) = w - r + LEN
    BY DistCases
  <1>3. i \in 1 .. LEN
    BY <1>1, <1>2
  <1>4. /\ Slot(r, i) \in Slots
        /\ r + i - 1 < LEN => Slot(r, i) = r + i - 1
        /\ r + i - 1 >= LEN => Slot(r, i) = r + i - 1 - LEN
    BY <1>3, SlotCases
  <1> QED
    BY <1>1, <1>2, <1>3, <1>4

(* Steps that neither publish nor pop do not show in the mapping. *)
LEMMA QuietStep ==
  ASSUME TypeOK, wid' = wid, rid' = rid,
         \A j \in Slots : j # wid => data'[j] = data[j]
  PROVE  Content' = Content
  <1>1. wid \in Slots /\ rid \in Slots
    BY DEF TypeOK
  <1>2. \A i \in 1 .. Dist(wid, rid) : data'[Slot(rid, i)] = data[Slot(rid, i)]
    BY <1>1, ProducerSlotOutside
  <1>3. Listed(wid, rid, data') = Listed(wid, rid, data)
    BY <1>2 DEF Listed
  <1> QED
    BY <1>3, ContentIsListed

(* Moving the write index on appends the entry of the slot it leaves. *)
LEMMA ListedAppend ==
  ASSUME NEW w \in Slots, NEW r \in Slots, NEW d \in [Slots -> Stored],
         Succ(w) # r
  PROVE  /\ Len(Listed(w, r, d)) < LEN - 1
         /\ Listed(Succ(w), r, d) = Append(Listed(w, r, d), d[w])
  <1> DEFINE n == Dist(w, r)
             s == Listed(w, r, d)
             t == Listed(Succ(w), r, d)
             u == Append(s, d[w])
  <1>1. w \in 0 .. LEN - 1 /\ r \in 0 .. LEN - 1 /\ LEN \in Nat \ {0}
    BY LenAssumption DEF Slots
  <1>2. /\ Succ(w) \in Slots
        /\ w # LEN - 1 => Succ(w) = w + 1
        /\ w = LEN - 1 => Succ(w) = 0
    BY SuccCases
  <1>3. /\ n \in 0 .. LEN - 1
        /\ w >= r => n = w - r
        /\ w < r => n = w - r + LEN
    BY DistCases
  <1>4. /\ Succ(w) >= r => Dist(Succ(w), r) = Succ(w) - r
        /\ Succ(w) < r => Dist(Succ(w), r) = Succ(w) - r + LEN
    BY <1>2, DistCases
  <1> HIDE DEF n
  <1>5. n < LEN - 1 /\ Dist(Succ(w), r) = n + 1
    BY <1>1, <1>2, <1>3, <1>4
  <1>6. Slot(r, n + 1) = w
    <2>1. n + 1 \in 1 .. LEN
      BY <1>1, <1>5, <1>3
    <2>2. /\ r + (n + 1) - 1 < LEN => Slot(r, n + 1) = r + (n + 1) - 1
          /\ r + (n + 1) - 1 >= LEN => Slot(r, n + 1) = r + (n + 1) - 1 - LEN
      BY <2>1, SlotCases
    <2> QED
      BY <1>1, <1>3, <2>2
  <1>7. /\ s \in Seq(Stored) /\ Len(s) = n
        /\ \A i \in 1 .. n : s[i] = d[Slot(r, i)]
    BY ListedIsSeq DEF n
  <1>8. /\ t \in Seq(Stored) /\ Len(t) = n + 1
        /\ \A i \in 1 .. n + 1 : t[i] = d[Slot(r, i)]
    <2>1. /\ t \in Seq(Stored) /\ Len(t) = Dist(Succ(w), r)
          /\ \A i \in 1 .. Dist(Succ(w), r) : t[i] = d[Slot(r, i)]
      BY <1>2, ListedIsSeq
    <2> QED
      BY <2>1, <1>5
  <1> HIDE DEF s, t
  <1>9. d[w] \in Stored
    OBVIOUS
  <1>10. u \in Seq(Stored) /\ Len(u) = n + 1
    BY <1>7, <1>9
  <1>11. \A i \in 1 .. n + 1 : u[i] = t[i]
    <2> SUFFICES ASSUME NEW i \in 1 .. n + 1
                 PROVE  u[i] = t[i]
      OBVIOUS
    <2>1. CASE i = n + 1
      BY <2>1, <1>3, <1>6, <1>7, <1>8
    <2>2. CASE i # n + 1
      <3>1. i \in 1 .. n
        BY <2>2, <1>3
      <3>2. u[i] = s[i]
        BY <3>1, <1>7, <1>9
      <3> QED
        BY <3>1, <3>2, <1>7, <1>8
    <2> QED
      BY <2>1, <2>2
  <1> HIDE DEF u
  <1>12. u = t
    BY <1>8, <1>10, <1>11, SeqEqual
  <1> QED
    BY <1>5, <1>7, <1>12 DEF s, t, u

(* Moving the read index on removes the entry of the slot it leaves. *)
LEMMA ListedTake ==
  ASSUME NEW w \in Slots, NEW r \in Slots, NEW d \in [Slots -> Stored],
         w # r
  PROVE  /\ Listed(w, r, d) # << >>
         /\ Head(Listed(w, r, d)) = d[r]
         /\ Listed(w, Succ(r), d) = Tail(Listed(w, r, d))
  <1> DEFINE n == Dist(w, r)
             s == Listed(w, r, d)
             t == Listed(w, Succ(r), d)
  <1>1. w \in 0 .. LEN - 1 /\ r \in 0 .. LEN - 1 /\ LEN \in Nat \ {0}
    BY LenAssumption DEF Slots
  <1>2. /\ Succ(r) \in Slots
        /\ r # LEN - 1 => Succ(r) = r + 1
        /\ r = LEN - 1 => Succ(r) = 0
    BY SuccCases
  <1>3. /\ n \in 0 .. LEN - 1
        /\ w >= r => n = w - r
        /\ w < r => n = w - r + LEN
    BY DistCases
  <1>4. /\ w >= Succ(r) => Dist(w, Succ(r)) = w - Succ(r)
        /\ w < Succ(r) => Dist(w, Succ(r)) = w - Succ(r) + LEN
    BY <1>2, DistCases
  <1> HIDE DEF n
  <1>5. n > 0 /\ Dist(w, Succ(r)) = n - 1
    BY <1>1, <1>2, <1>3, <1>4
  <1>6. Slot(r, 1) = r
    <2>1. 1 \in 1 .. LEN
      BY <1>1
    <2>2. r + 1 - 1 < LEN => Slot(r, 1) = r + 1 - 1
      BY <2>1, SlotCases
    <2> QED
      BY <1>1, <2>2
  <1>7. \A i \in 1 .. n - 1 : Slot(Succ(r), i) = Slot(r, i + 1)
    <2> SUFFICES ASSUME NEW i \in 1 .. n - 1
                 PROVE  Slot(Succ(r), i) = Slot(r, i + 1)
      OBVIOUS
    <2>1. i \in 1 .. LEN /\ i + 1 \in 1 .. LEN
      BY <1>1, <1>3
    <2>2. /\ Succ(r) + i - 1 < LEN => Slot(Succ(r), i) = Succ(r) + i - 1
          /\ Succ(r) + i - 1 >= LEN => Slot(Succ(r), i) = Succ(r) + i - 1 - LEN
      BY <1>2, <2>1, SlotCases
    <2>3. /\ r + (i + 1) - 1 < LEN => Slot(r, i + 1) = r + (i + 1) - 1
          /\ r + (i + 1) - 1 >= LEN => Slot(r, i + 1) = r + (i + 1) - 1 - LEN
      BY <2>1, SlotCases
    <2> QED
      BY <1>1, <1>2, <1>3, <2>2, <2>3
  <1>8. /\ s \in Seq(Stored) /\ Len(s) = n
        /\ \A i \in 1 .. n : s[i] = d[Slot(r, i)]
    BY ListedIsSeq DEF n
  <1>9. /\ t \in Seq(Stored) /\ Len(t) = n - 1
        /\ \A i \in 1 .. n - 1 : t[i] = d[Slot(Succ(r), i)]
    <2>1. /\ t \in Seq(Stored) /\ Len(t) = Dist(w, Succ(r))
          /\ \A i \in 1 .. Dist(w, Succ(r)) : t[i] = d[Slot(Succ(r), i)]
      BY <1>2, ListedIsSeq
    <2> QED
      BY <2>1, <1>5
  <1> HIDE DEF s, t
  <1>10. s # << >>
    BY <1>5, <1>8
  <1>11. Head(s) = d[r]
    BY <1>5, <1>3, <1>6, <1>8, <1>10
  <1>12. /\ Tail(s) \in Seq(Stored) /\ Len(Tail(s)) = n - 1
         /\ \A i \in 1 .. n - 1 : Tail(s)[i] = s[i + 1]
    BY <1>8, <1>10, HeadTailProperties
  <1>13. \A i \in 1 .. n - 1 : Tail(s)[i] = t[i]
    BY <1>3, <1>7, <1>8, <1>9, <1>12
  <1>14. Tail(s) = t
    BY <1>9, <1>12, <1>13, SeqEqual
  <1> QED
    BY <1>10, <1>11, <1>14 DEF s, t

(* Every step is a step of the FIFO list or does not show in it. *)
LEMMA StepRefines ==
  TypeOK /\ SlotsExclusive /\ [Next]_vars
    => [FIFO!Next]_<<Content, out>>
  <1> SUFFICES ASSUME TypeOK, SlotsExclusive, [Next]_vars
               PROVE  [FIFO!Next]_<<Content, out>>
    OBVIOUS
  <1>1. /\ wid \in Slots /\ rid \in Slots
        /\ data \in [Slots -> Stored]
    BY DEF TypeOK, Stored
  <1>2. ASSUME NEW e \in Entries, PutFull(e) \/ PutBegin(e)
        PROVE  UNCHANGED <<Content, out>>
    BY <1>2, QuietStep DEF PutFull, PutBegin, consumer
  <1>3. CASE PutCopy
    <2>1. /\ wid' = wid /\ rid' = rid /\ out' = out
          /\ \A j \in Slots : j # wid => data'[j] = data[j]
      BY <1>1, <1>3 DEF PutCopy, consumer
    <2> QED
      BY <2>1, QuietStep
  <1>4. CASE PutPublish
    <2>1. /\ wid' = Succ(wid) /\ rid' = rid /\ data' = data /\ out' = out
          /\ Succ(wid) # rid /\ data[wid] = pval /\ pval \in Entries
      BY <1>4 DEF PutPublish, consumer, SlotsExclusive
    <2>2. /\ Len(Content) < LEN - 1
          /\ Content' = Append(Content, pval)
      BY <1>1, <2>1, ListedAppend, ContentIsListed
    <2> QED
      BY <2>1, <2>2 DEF FIFO!Next, FIFO!Put
  <1>5. CASE NotEmpty
    BY <1>5, QuietStep DEF NotEmpty, producer
  <1>6. CASE Top
    BY <1>6, QuietStep DEF Top, producer
  <1>7. CASE Pop
    <2>1. /\ wid' = wid /\ rid' = Succ(rid) /\ data' = data
          /\ out' = data[rid] /\ wid # rid
      BY <1>7 DEF Pop, producer, SlotsExclusive
    <2>2. /\ Content # << >> /\ Head(Content) = data[rid]
          /\ Content' = Tail(Content)
      BY <1>1, <2>1, ListedTake, ContentIsListed
    <2> QED
      BY <2>1, <2>2 DEF FIFO!Next, FIFO!Take
  <1>8. CASE UNCHANGED vars
    BY <1>8, QuietStep DEF vars
  <1> QED
    BY <1>2, <1>3, <1>4, <1>5, <1>6, <1>7, <1>8 DEF Next, Produce, Consume

LEMMA InitRefines == Init => FIFO!Init
  <1> SUFFICES ASSUME Init
               PROVE  FIFO!Init
    OBVIOUS
  <1>1. wid = 0 /\ rid = 0 /\ 0 \in Slots /\ out = NoEntry
    BY LenAssumption DEF Init, Slots
  <1>2. Dist(wid, rid) = 0
    BY <1>1, DistCases
  <1>3. Content = << >>
    BY <1>2, ContentIsListed DEF Listed
  <1> QED
    BY <1>1, <1>3 DEF FIFO!Init

(* The queue of unlock_queue.c, used by one producer and one consumer,     *)
(* implements a FIFO list of len - 1 entries, for every len.               *)
THEOREM QueueImplementsFIFO == Spec => ImplementsFIFO
  <1>1. Init => TypeOK /\ SlotsExclusive
    BY InitType, InitExclusive
  <1>2. TypeOK /\ SlotsExclusive /\ [Next]_vars => TypeOK' /\ SlotsExclusive'
    BY TypeInvariance, ExclusiveInvariance
  <1> QED
    BY <1>1, <1>2, StepRefines, InitRefines, PTL
       DEF Spec, ImplementsFIFO, FIFO!Spec

=============================================================================
