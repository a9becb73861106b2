------------------------ MODULE LogBufferBytes_proofs ------------------------
(***************************************************************************)
(* Proofs about the bytes of one link: what lies in the ring, who may      *)
(* write it when, and what the reader makes of it, for every size of the   *)
(* ring, any logs and any interleaving of the threads; and, on top of it,  *)
(* that the threads implement the pointer protocol of LogRing.             *)
(***************************************************************************)
EXTENDS LogBuffer_proofs

(* The bytes.  A position of the ring stands for the bytes reserved before  *)
(* it, counted from the first log and reduced modulo the size.              *)

At(p, c) == p % TOTAL_SIZE = c % TOTAL_SIZE
StartOf(i) == IF i \in 1 .. Len(logs) THEN logs[i].start ELSE Reserved

(* Logs whose space was given back, logs parsed, logs NIC_thread has taken, *)
(* and of these the ones whose value is there.                              *)
Back == IF rpc \in {"clean", "abort"} THEN Len(executed) - 1 ELSE Len(executed)
Parsed == Len(executed) + Len(executing) + Len(peeding)
Taken == Queued - Len(sending)
Arrived == IF todo["nic"] = << >> THEN Taken ELSE Taken - 1

(* How far a thread that has the calls q to make is with a write that ends *)
(* before byte g of a log.                                                 *)
Progress(q, g) == IF q # << >> /\ q[1].op = "bytes" THEN q[1].from ELSE g

(* The bytes of log i, and how many were reserved before one of them. *)
Offsets(i) == 0 .. NextOffset(logs[i]) - 1
Off(i, o) == logs[i].start + o

(* Byte o of log k has been written. *)
Written(k, o) ==
  IF o < ValueOffset(logs[k])
  THEN k < Len(logs) \/ o < Progress(todo["writer"], ValueOffset(logs[k]))
  ELSE k < Taken \/ (k = Taken /\ o < Progress(todo["nic"], NextOffset(logs[k])))

(* The logs lie one behind the other, none shorter than the shortest. *)
LogsAdjacent ==
  /\ StartOf(1) = 0
  /\ \A i \in 1 .. Len(logs) : /\ StartOf(i + 1) = logs[i].start + NextOffset(logs[i])
                               /\ At(logs[i].pos, logs[i].start)
  /\ \A i, j \in 1 .. Len(logs) + 1 :
       i <= j => StartOf(j) - StartOf(i) >= (SIZEOF_LOG + 3) * (j - i)

(* Every pointer is a count, and less than a lap lies between the space the *)
(* writer knows to be free and the bytes it has reserved.                   *)
PointersCount ==
  /\ At(wr, Reserved)
  /\ At(rwr, StartOf(Published + 1))
  /\ At(rdKey, StartOf(Parsed + 1))
  /\ At(rd, StartOf(Back + 1))
  /\ \E c \in 0 .. Back : /\ At(rdCache, StartOf(c + 1))
                          /\ Reserved - StartOf(c + 1) < TOTAL_SIZE

(* NIC_thread takes the logs in the order they were written. *)
SendOK ==
  /\ Taken \in 0 .. Queued /\ (todo["nic"] # << >> => Taken >= 1)
  /\ \A k \in DOMAIN sending : sending[k] = Taken + k

StagesOrdered ==
  /\ Back >= 0 /\ Back <= Len(executed)
  /\ Len(executed) + Len(executing) <= Arrived
  /\ Parsed <= Published
  /\ SendOK

(* o is a part of a write of log i, which starts after s bytes. *)
Place(p, s, f) == At(p, s + f)
Part(o, i, s) ==
  o.log = i /\ o.at + o.n <= TOTAL_SIZE /\ Place(o.at, s, o.from)

(* q makes the parts of a write of log i that ends before byte g. *)
Follows(q, i, s, g) ==
  \A k \in DOMAIN q : q[k].op = "bytes" =>
    /\ Part(q[k], i, s)
    /\ q[k].from + q[k].n <= g
    /\ q[k].from + q[k].n =
         IF k < Len(q) /\ q[k + 1].op = "bytes" THEN q[k + 1].from ELSE g

(* Between two logs the writer at most reads a pointer. *)
WriterOK ==
  IF wpc \in {"put", "crash"}
  THEN /\ Len(logs) > 0
       /\ Follows(todo["writer"], Len(logs), logs[Len(logs)].start,
                  ValueOffset(logs[Len(logs)]))
       /\ \A k \in DOMAIN todo["writer"] :
            todo["writer"][k].op = IF k < Len(todo["writer"]) THEN "bytes" ELSE "wr"
  ELSE todo["writer"] = << >> \/ todo["writer"] = Fetch

NicOK ==
  todo["nic"] # << >> =>
    /\ Follows(todo["nic"], Taken, logs[Taken].start, NextOffset(logs[Taken]))
    /\ \A k \in DOMAIN todo["nic"] : /\ todo["nic"][k].op = "bytes"
                                     /\ todo["nic"][k].from >= ValueOffset(logs[Taken])
                                     /\ todo["nic"][k].n > 0

WritesOK == WriterOK /\ NicOK

(* What a byte of the ring is, counted from the first byte reserved. *)
Count(c) == Off(c[1], c[2])

(* Each byte is one that was written there, and the last one that was. *)
MemOK ==
  /\ \A p \in 0 .. TOTAL_SIZE - 1 : mem[p] # Zero =>
       /\ mem[p][1] \in 1 .. Len(logs)
       /\ mem[p][2] \in Offsets(mem[p][1])
       /\ At(p, Count(mem[p]))
       /\ Written(mem[p][1], mem[p][2])
  /\ \A k \in 1 .. Len(logs) : \A o \in Offsets(k) : \A p \in 0 .. TOTAL_SIZE - 1 :
       Written(k, o) /\ At(p, Off(k, o)) => mem[p] # Zero /\ Count(mem[p]) >= Off(k, o)

ValueOf(i) == [o \in 1 .. logs[i].vlen |-> <<i, ValueOffset(logs[i]) + o - 1>>]

(* e is the entry read_log_key makes of log i. *)
EntryOK(e, i) ==
  /\ e.log = i /\ e.klen = logs[i].klen /\ e.vlen = logs[i].vlen /\ e.key = logs[i].key
  /\ At(e.pos, logs[i].start)

EntriesOK ==
  /\ \A k \in DOMAIN peeding : EntryOK(peeding[k], Len(executed) + Len(executing) + k)
  /\ \A k \in DOMAIN executing :
       /\ EntryOK(executing[k], Len(executed) + k)
       /\ executing[k].value \in {<< >>, ValueOf(Len(executed) + k)}
  /\ rpc # "abort" => \A k \in DOMAIN dirtyQueue : EntryOK(dirtyQueue[k], Back + k)

BytesInv ==
  /\ LinkInv
  /\ LogsAdjacent
  /\ PointersCount
  /\ StagesOrdered
  /\ WritesOK
  /\ MemOK
  /\ EntriesOK
  /\ ValuesDelivered

----------------------------------------------------------------------------
(* Positions and counts. *)

(* The code's data size of two pointers, from the counts they stand for. *)
LEMMA DataSizeIs ==
  ASSUME NEW x \in Int, NEW y \in Int, NEW a \in Int, NEW b \in Int,
         At(x, a), At(y, b), 0 <= a - b, a - b < TOTAL_SIZE
  PROVE  DataSize(x, y) = a - b
  <1>1. SamePos(TOTAL_SIZE, x, a) /\ SamePos(TOTAL_SIZE, y, b)
    BY DEF At, SamePos
  <1>2. Ahead(TOTAL_SIZE, x, y) = a - b
    BY <1>1, ConstantFacts, ModDistance
  <1>3. QED
    BY <1>2 DEF DataSize, Wrap, Ahead

LEMMA AtPlus ==
  ASSUME NEW p \in Int, NEW c \in Int, NEW n \in Int, At(p, c)
  PROVE  At(p + n, c + n)
  BY ConstantFacts, ModMove DEF At

LEMMA AtWrap ==
  ASSUME NEW p \in Int, NEW c \in Int, At(p, c)
  PROVE  At(Wrap(p), c)
  <1>1. p % TOTAL_SIZE \in 0 .. TOTAL_SIZE - 1
    BY ConstantFacts, DivMod
  <1>2. (p % TOTAL_SIZE) % TOTAL_SIZE = p % TOTAL_SIZE
    BY <1>1, ConstantFacts, ModInRing
  <1>3. QED
    BY <1>2 DEF At, Wrap

(* A pointer n bytes further on, reduced, stands for n bytes more. *)
LEMMA AtMoves ==
  ASSUME NEW p \in Int, NEW c \in Int, NEW n \in Int, At(p, c)
  PROVE  At(Wrap(p + n), c + n)
  <1> DEFINE q == p + n
             d == c + n
  <1>1. q \in Int /\ d \in Int
    OBVIOUS
  <1>2. At(q, d)
    BY AtPlus
  <1> HIDE DEF q, d
  <1>3. At(Wrap(q), d)
    BY <1>1, <1>2, AtWrap
  <1>4. QED
    BY <1>3 DEF q, d

LEMMA AtLap ==
  ASSUME NEW p \in Int, NEW c \in Int, At(p, c)
  PROVE  At(p - TOTAL_SIZE, c)
  <1>1. p - TOTAL_SIZE \in Int /\ (p - TOTAL_SIZE) + TOTAL_SIZE = p
    BY ConstantFacts
  <1>2. ((p - TOTAL_SIZE) + TOTAL_SIZE) % TOTAL_SIZE = (p - TOTAL_SIZE) % TOTAL_SIZE
    BY <1>1, ConstantFacts, ModLap
  <1>3. QED
    BY <1>1, <1>2 DEF At

(* The write pointer moves as one that is reduced would. *)
LEMMA AtAdvance ==
  ASSUME NEW p \in Int, NEW c \in Int, NEW n \in Int, At(p, c)
  PROVE  At(Advance(p, n), c + n)
  <1> DEFINE q == p + n
             d == c + n
  <1>1. q \in Int /\ d \in Int
    OBVIOUS
  <1>2. At(q, d)
    BY AtPlus
  <1> HIDE DEF q, d
  <1>3. At(q - TOTAL_SIZE, d)
    BY <1>1, <1>2, AtLap
  <1>4. Advance(p, n) = IF q > TOTAL_SIZE THEN q - TOTAL_SIZE ELSE q
    BY ConstantFacts DEF Advance, q
  <1>5. At(Advance(p, n), d)
    BY <1>2, <1>3, <1>4
  <1>6. QED
    BY <1>5 DEF d

(* A count has one position, and a position one count within a lap. *)
LEMMA AtOnce ==
  ASSUME NEW p \in 0 .. TOTAL_SIZE - 1, NEW q \in 0 .. TOTAL_SIZE - 1, NEW c \in Int,
         At(p, c), At(q, c)
  PROVE  p = q
  <1>1. p % TOTAL_SIZE = p /\ q % TOTAL_SIZE = q
    BY ConstantFacts, ModInRing
  <1>2. QED
    BY <1>1 DEF At

LEMMA AtApart ==
  ASSUME NEW p \in Int, NEW a \in Int, NEW b \in Int, At(p, a), At(p, b),
         a - b < TOTAL_SIZE, b - a < TOTAL_SIZE
  PROVE  a = b
  BY ConstantFacts, ModInjective DEF At

----------------------------------------------------------------------------
(* What the invariant says about the logs and how far each thread is. *)

LEMMA LogFacts ==
  ASSUME LinkInv, NEW i \in 1 .. Len(logs)
  PROVE  /\ logs[i] \in LogRec
         /\ logs[i].start \in Nat /\ logs[i].pos \in 0 .. TOTAL_SIZE
         /\ logs[i].pos \in Int
         /\ logs[i].klen \in Nat \ {0} /\ logs[i].vlen \in Nat \ {0, 1}
         /\ ValueOffset(logs[i]) \in Nat /\ NextOffset(logs[i]) \in Nat
         /\ ValueOffset(logs[i]) > SIZEOF_LOG
         /\ NextOffset(logs[i]) = ValueOffset(logs[i]) + logs[i].vlen
         /\ NextOffset(logs[i]) >= SIZEOF_LOG + 3
  <1>1. logs \in Seq(LogRec)
    BY DEF LinkInv, Types, HeadTypes
  <1>2. logs[i] \in LogRec
    BY <1>1, ElementOfSeq
  <1>3. /\ logs[i].start \in Nat /\ logs[i].pos \in 0 .. TOTAL_SIZE
        /\ logs[i].klen \in Nat \ {0} /\ logs[i].vlen \in Nat \ {0, 1}
    BY <1>2 DEF LogRec
  <1>4. logs[i].pos \in Int
    BY <1>3, ConstantFacts
  <1>5. /\ ValueOffset(logs[i]) \in Nat /\ NextOffset(logs[i]) \in Nat
        /\ ValueOffset(logs[i]) > SIZEOF_LOG
        /\ NextOffset(logs[i]) = ValueOffset(logs[i]) + logs[i].vlen
        /\ NextOffset(logs[i]) >= SIZEOF_LOG + 3
    <2>1. PICK k \in Nat, v \in Nat : k = logs[i].klen /\ v = logs[i].vlen /\ k > 0 /\ v > 1
      BY <1>3
    <2>2. ValueOffset(logs[i]) = SIZEOF_LOG + k /\ NextOffset(logs[i]) = SIZEOF_LOG + k + v
      BY <2>1 DEF ValueOffset, NextOffset
    <2>3. SIZEOF_LOG \in Nat /\ logs[i].vlen = v /\ k \in Nat /\ v \in Nat /\ k > 0 /\ v > 1
      BY <2>1, ConstantFacts
    <2>4. QED
      BY <2>2, <2>3
  <1>6. QED
    BY <1>2, <1>3, <1>4, <1>5

LEMMA LenLogs ==
  ASSUME LinkInv
  PROVE  /\ Len(logs) \in Nat /\ DOMAIN logs = 1 .. Len(logs) /\ logs \in Seq(LogRec)
         /\ Reserved \in Nat /\ StartOf(Len(logs) + 1) = Reserved
  <1>1. logs \in Seq(LogRec)
    BY DEF LinkInv, Types, HeadTypes
  <1>2. Len(logs) \in Nat /\ DOMAIN logs = 1 .. Len(logs)
    BY <1>1, LenProperties
  <1>3. Reserved \in Nat
    <2>1. CASE logs = << >>
      BY <2>1 DEF Reserved
    <2>2. CASE logs # << >>
      <3>1. Len(logs) \in 1 .. Len(logs)
        BY <1>1, <1>2, <2>2, EmptySeq
      <3>2. logs[Len(logs)].start \in Nat /\ NextOffset(logs[Len(logs)]) \in Nat
        BY <3>1, LogFacts
      <3>3. QED
        BY <2>2, <3>2 DEF Reserved
    <2>3. QED
      BY <2>1, <2>2
  <1>4. StartOf(Len(logs) + 1) = Reserved
    BY <1>2 DEF StartOf
  <1>5. QED
    BY <1>1, <1>2, <1>3, <1>4

(* n of the shortest logs take no negative space. *)
LEMMA GapNat ==
  ASSUME NEW n \in Nat
  PROVE  (SIZEOF_LOG + 3) * n \in Nat
  BY ConstantFacts, Z3

LEMMA StartFacts ==
  ASSUME LinkInv, LogsAdjacent
  PROVE  /\ \A i \in 1 .. Len(logs) + 1 : StartOf(i) \in Nat
         /\ \A i, j \in 1 .. Len(logs) + 1 : i <= j => StartOf(i) <= StartOf(j)
         /\ \A i \in 1 .. Len(logs) + 1 : StartOf(i) <= Reserved
         /\ \A i \in 1 .. Len(logs) : StartOf(i) = logs[i].start
  <1>1. Len(logs) \in Nat /\ Reserved \in Nat /\ StartOf(Len(logs) + 1) = Reserved
    BY LenLogs
  <1>2. \A i \in 1 .. Len(logs) : StartOf(i) = logs[i].start
    BY DEF StartOf
  <1>3. \A i \in 1 .. Len(logs) + 1 : StartOf(i) \in Nat
    <2> TAKE i \in 1 .. Len(logs) + 1
    <2>1. CASE i \in 1 .. Len(logs)
      BY <1>2, <2>1, LogFacts
    <2>2. CASE i = Len(logs) + 1
      BY <1>1, <2>2
    <2>3. QED
      BY <1>1, <2>1, <2>2
  <1>4. ASSUME NEW i \in 1 .. Len(logs) + 1, NEW j \in 1 .. Len(logs) + 1, i <= j
        PROVE  StartOf(i) <= StartOf(j)
    <2>1. StartOf(j) - StartOf(i) >= (SIZEOF_LOG + 3) * (j - i)
      BY <1>4 DEF LogsAdjacent
    <2>2. j - i \in Nat
      BY <1>1, <1>4
    <2>3. (SIZEOF_LOG + 3) * (j - i) \in Nat
      BY <2>2, GapNat
    <2>4. QED
      BY <1>3, <2>1, <2>3
  <1>5. Len(logs) + 1 \in 1 .. Len(logs) + 1
    BY <1>1
  <1>6. \A i \in 1 .. Len(logs) + 1 : StartOf(i) <= Reserved
    BY <1>1, <1>4, <1>5
  <1>7. QED
    BY <1>2, <1>3, <1>4, <1>6

LEMMA ChainFacts ==
  ASSUME LinkInv, LogsAdjacent, NEW i \in 1 .. Len(logs)
  PROVE  /\ StartOf(i) = logs[i].start /\ At(logs[i].pos, logs[i].start)
         /\ StartOf(i + 1) = logs[i].start + NextOffset(logs[i])
         /\ StartOf(i + 1) <= Reserved
  <1>1. i + 1 \in 1 .. Len(logs) + 1
    BY LenLogs
  <1>2. QED
    BY <1>1, StartFacts DEF LogsAdjacent

LEMMA QueuedFacts ==
  ASSUME LinkInv
  PROVE  /\ Len(sending) \in Nat /\ sending \in Seq(1 .. Len(logs))
         /\ DOMAIN sending = 1 .. Len(sending)
         /\ Queued \in Int /\ Queued <= Len(logs) /\ Taken \in Int /\ Arrived \in Int
         /\ Taken = Queued - Len(sending) /\ Arrived <= Taken
         /\ Published \in Int /\ Published <= Len(logs) /\ Published >= Len(logs) - 1
         /\ Back \in Int /\ Parsed \in Nat
         /\ Parsed = Len(executed) + Len(executing) + Len(peeding)
  <1>1. Len(logs) \in Nat
    BY LenLogs
  <1>2. sending \in Seq(1 .. Len(logs)) /\ Len(sending) \in Nat /\ DOMAIN sending = 1 .. Len(sending)
    BY DEF LinkInv, Types, HeadTypes
  <1>3. Queued \in Int /\ Queued <= Len(logs)
    BY <1>1 DEF Queued
  <1>4. Taken \in Int /\ Taken = Queued - Len(sending)
    BY <1>2, <1>3 DEF Taken
  <1>5. Arrived \in Int /\ Arrived <= Taken
    BY <1>4 DEF Arrived
  <1>6. Published \in Int /\ Published <= Len(logs) /\ Published >= Len(logs) - 1
    BY <1>1 DEF Published
  <1>7. Back \in Int /\ Parsed \in Nat
    BY QueueFacts DEF Back, Parsed
  <1>8. QED
    BY <1>2, <1>3, <1>4, <1>5, <1>6, <1>7 DEF Parsed

LEMMA StageFacts ==
  ASSUME LinkInv, StagesOrdered
  PROVE  /\ 0 <= Back /\ Back <= Len(executed) /\ Len(executed) - 1 <= Back
         /\ Len(executed) + Len(executing) <= Parsed
         /\ Len(executed) + Len(executing) <= Arrived
         /\ Parsed <= Published /\ Published <= Len(logs)
         /\ Arrived <= Taken /\ Taken <= Queued /\ Queued <= Len(logs)
         /\ Back + 1 \in 1 .. Len(logs) + 1 /\ Parsed + 1 \in 1 .. Len(logs) + 1
         /\ Published + 1 \in 1 .. Len(logs) + 1 /\ Taken + 1 \in 1 .. Len(logs) + 1
  <1>1. 0 <= Back /\ Back <= Len(executed) /\ Len(executed) - 1 <= Back
    BY QueueFacts DEF StagesOrdered, Back
  <1>2. /\ Len(executed) + Len(executing) <= Parsed
        /\ Len(executed) + Len(executing) <= Arrived
        /\ Parsed <= Published /\ Taken \in 0 .. Queued
    BY QueueFacts, QueuedFacts DEF StagesOrdered, SendOK
  <1>3. /\ Back \in Int /\ Parsed \in Int /\ Published \in Int /\ Len(logs) \in Int
        /\ Taken \in Int /\ Queued \in Int /\ Published <= Len(logs) /\ Arrived <= Taken
        /\ Queued <= Len(logs) /\ Len(executed) \in Int /\ Len(executing) \in Nat
    BY QueueFacts, QueuedFacts, LenLogs
  <1>4. Back <= Len(logs) /\ Parsed <= Len(logs) /\ Taken <= Len(logs) /\ 0 <= Taken
    BY <1>1, <1>2, <1>3
  <1>5. /\ Back + 1 \in 1 .. Len(logs) + 1 /\ Parsed + 1 \in 1 .. Len(logs) + 1
        /\ Published + 1 \in 1 .. Len(logs) + 1 /\ Taken + 1 \in 1 .. Len(logs) + 1
    BY <1>1, <1>2, <1>3, <1>4
  <1>6. QED
    BY <1>1, <1>2, <1>3, <1>5

(* Less than a lap lies between the space given back and the last byte. *)
LEMMA SpaceFacts ==
  ASSUME LinkInv, LogsAdjacent, PointersCount, StagesOrdered
  PROVE  /\ StartOf(Back + 1) \in Nat /\ StartOf(Parsed + 1) \in Nat
         /\ StartOf(Published + 1) \in Nat
         /\ StartOf(Back + 1) <= StartOf(Parsed + 1)
         /\ StartOf(Parsed + 1) <= StartOf(Published + 1)
         /\ StartOf(Published + 1) <= Reserved
         /\ Reserved - StartOf(Back + 1) < TOTAL_SIZE
  <1>1. /\ Back + 1 \in 1 .. Len(logs) + 1 /\ Parsed + 1 \in 1 .. Len(logs) + 1
        /\ Published + 1 \in 1 .. Len(logs) + 1 /\ Back <= Parsed /\ Parsed <= Published
        /\ Back \in Int /\ Parsed \in Int /\ Published \in Int /\ Len(logs) \in Nat
    <2>1. /\ Back \in Int /\ Parsed \in Int /\ Published \in Int /\ Len(logs) \in Nat
          /\ Len(executed) \in Int /\ Len(executing) \in Nat
      BY QueuedFacts, QueueFacts, LenLogs
    <2>2. QED
      BY <2>1, StageFacts
  <1>2. /\ StartOf(Back + 1) \in Nat /\ StartOf(Parsed + 1) \in Nat
        /\ StartOf(Published + 1) \in Nat /\ StartOf(Published + 1) <= Reserved
    BY <1>1, StartFacts
  <1>3. StartOf(Back + 1) <= StartOf(Parsed + 1) /\ StartOf(Parsed + 1) <= StartOf(Published + 1)
    <2>1. Back + 1 <= Parsed + 1 /\ Parsed + 1 <= Published + 1
      BY <1>1
    <2>2. QED
      BY <1>1, <2>1, StartFacts
  <1>4. PICK c \in 0 .. Back : Reserved - StartOf(c + 1) < TOTAL_SIZE
    BY DEF PointersCount
  <1>5. c + 1 \in 1 .. Len(logs) + 1 /\ c + 1 <= Back + 1
    BY <1>1
  <1>6. StartOf(c + 1) \in Nat /\ StartOf(c + 1) <= StartOf(Back + 1)
    BY <1>1, <1>5, StartFacts
  <1>7. Reserved \in Nat
    BY LenLogs
  <1>8. Reserved - StartOf(Back + 1) < TOTAL_SIZE
    BY <1>2, <1>4, <1>6, <1>7, ConstantFacts
  <1>9. QED
    BY <1>2, <1>3, <1>8

LEMMA LessTimes ==
  ASSUME NEW m \in Nat, m > 0, NEW a \in Int, NEW b \in Int, m * a < b * m
  PROVE  a < b
  <1>1. CASE a >= b
    <2>1. m * a >= m * b
      BY <1>1, Z3
    <2>2. m * b = b * m
      BY Z3
    <2>3. m * a \in Int /\ m * b \in Int
      BY Z3
    <2>4. QED
      BY <2>1, <2>2, <2>3
  <1>2. QED
    BY <1>1

(* Fewer logs are not yet given back than a queue has slots. *)
LEMMA RoomLeft ==
  ASSUME LinkInv, LogsAdjacent, PointersCount, StagesOrdered, QueuesHoldRing,
         NEW i \in Int, Back <= i, i <= Len(logs)
  PROVE  Len(logs) - i < QUEUE_SIZE
  <1>1. Len(logs) \in Nat /\ Reserved \in Nat /\ Back \in Int /\ Back >= 0
    BY LenLogs, QueuedFacts, StageFacts
  <1>2. /\ i + 1 \in 1 .. Len(logs) + 1 /\ Back + 1 \in 1 .. Len(logs) + 1
        /\ Len(logs) + 1 \in 1 .. Len(logs) + 1 /\ i + 1 <= Len(logs) + 1
        /\ Back + 1 <= i + 1
    BY <1>1
  <1>3. StartOf(Len(logs) + 1) = Reserved
    BY LenLogs
  <1>4. Reserved - StartOf(i + 1) >= (SIZEOF_LOG + 3) * ((Len(logs) + 1) - (i + 1))
    BY <1>2, <1>3 DEF LogsAdjacent
  <1>5. StartOf(i + 1) \in Nat /\ StartOf(Back + 1) \in Nat /\ StartOf(Back + 1) <= StartOf(i + 1)
    BY <1>2, StartFacts
  <1>6. Reserved - StartOf(i + 1) < TOTAL_SIZE
    <2>1. Reserved - StartOf(Back + 1) < TOTAL_SIZE /\ TOTAL_SIZE \in Int
      BY SpaceFacts, ConstantFacts
    <2>2. QED
      BY <1>1, <1>5, <2>1
  <1>7. PICK a \in Int : a = Len(logs) - i
    <2>1. Len(logs) - i \in Int
      BY <1>1
    <2>2. QED
      BY <2>1
  <1>8. (Len(logs) + 1) - (i + 1) = a
    BY <1>1, <1>7
  <1>9. PICK m \in Nat : m = SIZEOF_LOG + 3 /\ m > 0
    BY ConstantFacts
  <1>10. m * a \in Int /\ QUEUE_SIZE * m \in Int /\ QUEUE_SIZE \in Int
    BY <1>7, <1>9, ConstantFacts, Z3
  <1>11. Reserved - StartOf(i + 1) >= m * a /\ TOTAL_SIZE <= QUEUE_SIZE * m
    BY <1>4, <1>8, <1>9 DEF QueuesHoldRing
  <1>12. m * a < QUEUE_SIZE * m
    <2> DEFINE x == m * a
               y == QUEUE_SIZE * m
    <2>1. x \in Int /\ y \in Int /\ TOTAL_SIZE \in Int
      BY <1>10, ConstantFacts
    <2>2. Reserved - StartOf(i + 1) >= x /\ TOTAL_SIZE <= y
      BY <1>11
    <2> HIDE DEF x, y
    <2>3. x < y
      BY <1>1, <1>5, <1>6, <2>1, <2>2
    <2>4. QED
      BY <2>3 DEF x, y
  <1>13. a < QUEUE_SIZE
    BY <1>7, <1>9, <1>10, <1>12, LessTimes
  <1>14. QED
    BY <1>7, <1>13

(* The data sizes the code computes from pointers are the true ones. *)
LEMMA SizesAreTrue ==
  ASSUME LinkInv, LogsAdjacent, PointersCount, StagesOrdered
  PROVE  /\ DataSize(rwr, rd) = StartOf(Published + 1) - StartOf(Back + 1)
         /\ DataSize(rwr, rdKey) = StartOf(Published + 1) - StartOf(Parsed + 1)
  <1> PICK B, K, P : B = StartOf(Back + 1) /\ K = StartOf(Parsed + 1) /\ P = StartOf(Published + 1)
    OBVIOUS
  <1>1. /\ B \in Int /\ K \in Int /\ P \in Int /\ B <= K /\ K <= P
        /\ P - B < TOTAL_SIZE /\ P - K < TOTAL_SIZE /\ 0 <= P - B /\ 0 <= P - K
    <2>1. /\ B \in Nat /\ K \in Nat /\ P \in Nat /\ B <= K /\ K <= P /\ P <= Reserved
          /\ Reserved - B < TOTAL_SIZE /\ Reserved \in Nat /\ TOTAL_SIZE \in Int
      BY SpaceFacts, LenLogs, ConstantFacts
    <2>2. QED
      BY <2>1
  <1>2. rwr \in Int /\ rd \in Int /\ rdKey \in Int
    BY ConstantFacts DEF LinkInv, Types, MemTypes, TailTypes
  <1>3. At(rwr, P) /\ At(rd, B) /\ At(rdKey, K)
    BY DEF PointersCount
  <1>4. DataSize(rwr, rd) = P - B
    BY <1>1, <1>2, <1>3, DataSizeIs
  <1>5. DataSize(rwr, rdKey) = P - K
    BY <1>1, <1>2, <1>3, DataSizeIs
  <1>6. QED
    BY <1>4, <1>5

LEMMA OffFacts ==
  ASSUME LinkInv, LogsAdjacent, NEW i \in 1 .. Len(logs), NEW o \in Offsets(i)
  PROVE  /\ o \in Nat /\ o < NextOffset(logs[i]) /\ NextOffset(logs[i]) \in Nat
         /\ Off(i, o) \in Nat /\ StartOf(i) <= Off(i, o) /\ Off(i, o) < StartOf(i + 1)
         /\ Off(i, o) = StartOf(i) + o
         /\ StartOf(i) \in Nat /\ StartOf(i + 1) \in Nat /\ Off(i, o) < Reserved
  <1>1. logs[i].start \in Nat /\ NextOffset(logs[i]) \in Nat /\ Reserved \in Nat
    BY LogFacts, LenLogs
  <1>2. o \in Nat /\ o < NextOffset(logs[i])
    BY <1>1 DEF Offsets
  <1>3. /\ StartOf(i) = logs[i].start /\ StartOf(i + 1) = logs[i].start + NextOffset(logs[i])
        /\ StartOf(i + 1) <= Reserved
    BY ChainFacts
  <1>4. Off(i, o) = logs[i].start + o
    BY DEF Off
  <1>5. QED
    BY <1>1, <1>2, <1>3, <1>4, Z3

(* A byte has one place. *)
LEMMA ByteOnce ==
  ASSUME LinkInv, LogsAdjacent, NEW i \in 1 .. Len(logs), NEW j \in 1 .. Len(logs),
         NEW o \in Offsets(i), NEW b \in Offsets(j), Off(i, o) = Off(j, b)
  PROVE  i = j /\ o = b
  <1>1. /\ o \in Nat /\ Off(i, o) \in Nat /\ StartOf(i) \in Nat /\ StartOf(i + 1) \in Nat
        /\ StartOf(i) <= Off(i, o) /\ Off(i, o) < StartOf(i + 1)
        /\ Off(i, o) = StartOf(i) + o
    BY OffFacts
  <1>2. /\ b \in Nat /\ Off(j, b) \in Nat /\ StartOf(j) \in Nat /\ StartOf(j + 1) \in Nat
        /\ StartOf(j) <= Off(j, b) /\ Off(j, b) < StartOf(j + 1)
        /\ Off(j, b) = StartOf(j) + b
    BY OffFacts
  <1>3. /\ i \in 1 .. Len(logs) + 1 /\ i + 1 \in 1 .. Len(logs) + 1
        /\ j \in 1 .. Len(logs) + 1 /\ j + 1 \in 1 .. Len(logs) + 1
        /\ i \in Int /\ j \in Int
    BY LenLogs
  <1>4. CASE i < j
    <2>1. i + 1 <= j
      BY <1>3, <1>4
    <2>2. StartOf(i + 1) <= StartOf(j)
      BY <1>3, <2>1, StartFacts
    <2>3. QED
      BY <1>1, <1>2, <2>2, Z3
  <1>5. CASE j < i
    <2>1. j + 1 <= i
      BY <1>3, <1>5
    <2>2. StartOf(j + 1) <= StartOf(i)
      BY <1>3, <2>1, StartFacts
    <2>3. QED
      BY <1>1, <1>2, <2>2, Z3
  <1>6. CASE i = j
    <2>1. StartOf(i) = StartOf(j)
      BY <1>6
    <2>2. PICK x \in Int, y \in Int : x = o /\ y = b
      BY <1>1, <1>2
    <2>3. StartOf(i) + x = StartOf(i) + y
      BY <1>1, <1>2, <2>1, <2>2
    <2>4. x = y
      BY <1>1, <2>2, <2>3, Z3
    <2>5. QED
      BY <1>6, <2>2, <2>4
  <1>7. QED
    BY <1>3, <1>4, <1>5, <1>6

(* A byte of a log that was not given back lies in the last lap. *)
LEMMA LiveByte ==
  ASSUME LinkInv, LogsAdjacent, PointersCount, StagesOrdered,
         NEW i \in 1 .. Len(logs), i > Back, NEW o \in Offsets(i)
  PROVE  Reserved - Off(i, o) < TOTAL_SIZE
  <1>1. Off(i, o) \in Nat /\ StartOf(i) \in Nat /\ StartOf(i) <= Off(i, o)
    BY OffFacts
  <1>2. Back + 1 \in 1 .. Len(logs) + 1 /\ i \in 1 .. Len(logs) + 1 /\ Back + 1 <= i
    <2>1. Back \in Int /\ Back >= 0 /\ Len(logs) \in Nat
      BY LenLogs, StageFacts, QueuedFacts
    <2>2. QED
      BY <2>1
  <1>3. StartOf(Back + 1) <= StartOf(i) /\ StartOf(Back + 1) \in Nat
    BY <1>2, StartFacts
  <1>4. Reserved - StartOf(Back + 1) < TOTAL_SIZE /\ TOTAL_SIZE \in Int /\ Reserved \in Nat
    BY SpaceFacts, ConstantFacts, LenLogs
  <1>5. QED
    BY <1>1, <1>3, <1>4

(* Nothing that is written later lies where a live byte lies. *)
LEMMA LiveApart ==
  ASSUME LinkInv, LogsAdjacent, PointersCount, StagesOrdered,
         NEW i \in 1 .. Len(logs), i > Back, NEW o \in Offsets(i),
         NEW k \in 1 .. Len(logs), NEW b \in Offsets(k),
         NEW p \in 0 .. TOTAL_SIZE - 1, At(p, Off(i, o)), At(p, Off(k, b)),
         Off(k, b) >= Off(i, o)
  PROVE  k = i /\ b = o
  <1>1. PICK x \in Int, y \in Int : x = Off(k, b) /\ y = Off(i, o)
    BY OffFacts
  <1>2. x < Reserved /\ Reserved - y < TOTAL_SIZE /\ Reserved \in Int
    BY <1>1, OffFacts, LiveByte, LenLogs
  <1>3. x >= y /\ At(p, x) /\ At(p, y) /\ x \in Int /\ y \in Int
    BY <1>1
  <1>4. p \in Int /\ TOTAL_SIZE \in Int /\ TOTAL_SIZE > 0
    BY ConstantFacts
  <1>5. x - y < TOTAL_SIZE /\ y - x < TOTAL_SIZE
    BY <1>2, <1>3, <1>4
  <1>6. x = y
    BY <1>3, <1>4, <1>5, AtApart
  <1>7. Off(i, o) = Off(k, b)
    BY <1>1, <1>6
  <1>8. QED
    BY <1>7, ByteOnce

(* So a live byte is where it was written, once it was written. *)
LEMMA LiveCell ==
  ASSUME LinkInv, LogsAdjacent, PointersCount, StagesOrdered, MemOK,
         NEW i \in 1 .. Len(logs), i > Back, NEW o \in Offsets(i),
         Written(i, o), NEW p \in 0 .. TOTAL_SIZE - 1, At(p, Off(i, o))
  PROVE  mem[p] = <<i, o>>
  <1>1. mem[p] # Zero /\ Count(mem[p]) >= Off(i, o)
    BY DEF MemOK
  <1>2. /\ mem[p][1] \in 1 .. Len(logs) /\ mem[p][2] \in Offsets(mem[p][1])
        /\ At(p, Count(mem[p]))
    BY <1>1 DEF MemOK
  <1>3. PICK k \in 1 .. Len(logs) : k = mem[p][1]
    BY <1>2
  <1>4. PICK b \in Offsets(k) : b = mem[p][2]
    BY <1>2, <1>3
  <1>5. At(p, Off(k, b)) /\ Off(k, b) >= Off(i, o)
    BY <1>1, <1>2, <1>3, <1>4 DEF Count
  <1>6. k = i /\ b = o
    BY <1>5, LiveApart
  <1>7. PICK x, y \in Nat : mem[p] = <<x, y>>
    BY DEF LinkInv, Types, MemTypes, Cells
  <1>8. x = i /\ y = o
    <2>1. mem[p][1] = x /\ mem[p][2] = y
      BY <1>7
    <2>2. QED
      BY <1>3, <1>4, <1>6, <2>1
  <1>9. QED
    BY <1>7, <1>8

(* Metadata and key of what is published are written. *)
LEMMA KeyWritten ==
  ASSUME LinkInv, WritesOK, NEW i \in 1 .. Len(logs), i <= Published, NEW o \in Nat,
         o < ValueOffset(logs[i])
  PROVE  o \in Offsets(i) /\ Written(i, o)
  <1>1. o \in Offsets(i)
    <2>1. /\ ValueOffset(logs[i]) \in Nat /\ logs[i].vlen \in Nat
          /\ NextOffset(logs[i]) = ValueOffset(logs[i]) + logs[i].vlen
      BY LogFacts
    <2>2. o \in 0 .. NextOffset(logs[i]) - 1
      BY <2>1, Z3
    <2>3. QED
      BY <2>2 DEF Offsets
  <1>2. CASE i < Len(logs)
    BY <1>1, <1>2 DEF Written
  <1>3. CASE i = Len(logs)
    <2>1. \A k \in DOMAIN todo["writer"] : todo["writer"][k].op # "wr"
      <3>1. Len(logs) \in Nat /\ ~(Len(logs) <= Len(logs) - 1)
        BY LenLogs
      <3>2. ~\E x \in Range(todo["writer"]) : x.op = "wr"
        BY <1>3, <3>1 DEF Published
      <3>3. QED
        BY <3>2 DEF Range
    <2>2. todo["writer"] = << >> \/ todo["writer"] = Fetch
      <3>1. CASE wpc \in {"put", "crash"}
        <4>1. ASSUME todo["writer"] # << >> PROVE FALSE
          <5>1. PICK q \in Seq(Ops) : q = todo["writer"]
            BY OpsFacts DEF Threads
          <5>2. Len(q) \in DOMAIN q /\ ~(Len(q) < Len(q))
            BY <4>1, <5>1
          <5>3. q[Len(q)].op = "wr"
            BY <3>1, <5>1, <5>2 DEF WritesOK, WriterOK
          <5>4. QED
            BY <2>1, <5>1, <5>2, <5>3
        <4>2. QED
          BY <4>1
      <3>2. CASE wpc \notin {"put", "crash"}
        BY <3>2 DEF WritesOK, WriterOK
      <3>3. QED
        BY <3>1, <3>2
    <2>3. Fetch[1].op # "bytes"
      BY DEF Fetch
    <2>4. Progress(todo["writer"], ValueOffset(logs[i])) = ValueOffset(logs[i])
      BY <2>2, <2>3 DEF Progress
    <2>5. QED
      BY <1>1, <2>4 DEF Written
  <1>4. i < Len(logs) \/ i = Len(logs)
    <2>1. Len(logs) \in Nat
      BY LenLogs
    <2>2. QED
      BY <2>1
  <1>5. QED
    BY <1>1, <1>2, <1>3, <1>4

(* So is the value of what has arrived. *)
LEMMA ValueWritten ==
  ASSUME LinkInv, NEW i \in 1 .. Len(logs), i <= Arrived, NEW o \in Offsets(i),
         o >= ValueOffset(logs[i])
  PROVE  Written(i, o)
  <1>1. /\ NextOffset(logs[i]) \in Nat /\ ValueOffset(logs[i]) \in Nat
        /\ o \in Nat /\ o < NextOffset(logs[i])
    BY LogFacts DEF Offsets
  <1>2. ~(o < ValueOffset(logs[i]))
    BY <1>1
  <1>3. Taken \in Int /\ Arrived \in Int
    BY QueuedFacts
  <1>4. CASE todo["nic"] = << >>
    <2>1. i < Taken \/ i = Taken
      BY <1>3, <1>4 DEF Arrived
    <2>2. Progress(todo["nic"], NextOffset(logs[i])) = NextOffset(logs[i])
      BY <1>4 DEF Progress
    <2>3. QED
      BY <1>1, <1>2, <2>1, <2>2 DEF Written
  <1>5. CASE todo["nic"] # << >>
    <2>1. i < Taken
      BY <1>3, <1>5 DEF Arrived
    <2>2. QED
      BY <1>2, <2>1 DEF Written
  <1>6. QED
    BY <1>4, <1>5

LEMMA InvKeysIntact == BytesInv => KeysIntact
  <1> SUFFICES ASSUME BytesInv,
                      NEW i \in Freed + 1 .. Published,
                      NEW o \in 0 .. ValueOffset(logs[i]) - 1
               PROVE  mem[Wrap(logs[i].pos + o)] = <<i, o>>
    BY DEF KeysIntact
  <1> USE DEF BytesInv
  <1>1. i \in 1 .. Len(logs) /\ i > Back /\ i <= Published
    <2>1. /\ Len(logs) \in Nat /\ Back \in Int /\ Back >= 0 /\ Published \in Int
          /\ Published <= Len(logs) /\ Len(executed) \in Nat
      BY LenLogs, QueuedFacts, StageFacts, QueueFacts
    <2>2. Freed \in Int /\ Back <= Freed
      BY <2>1 DEF Freed, Back
    <2>3. QED
      BY <2>1, <2>2
  <1>2. o \in Nat /\ o < ValueOffset(logs[i])
    <2>1. ValueOffset(logs[i]) \in Nat
      BY <1>1, LogFacts
    <2>2. QED
      BY <2>1
  <1>3. o \in Offsets(i) /\ Written(i, o)
    BY <1>1, <1>2, KeyWritten
  <1>4. PICK p : p = Wrap(logs[i].pos + o)
    OBVIOUS
  <1>5. p \in 0 .. TOTAL_SIZE - 1 /\ At(p, Off(i, o))
    <2>1. /\ logs[i].pos \in Int /\ logs[i].start \in Int
          /\ At(logs[i].pos, logs[i].start) /\ o \in Int /\ logs[i].pos + o \in Int
      BY <1>1, <1>2, LogFacts, ChainFacts
    <2>2. p \in 0 .. TOTAL_SIZE - 1
      BY <1>4, <2>1, WrapInRing
    <2>3. At(p, logs[i].start + o)
      BY <1>4, <2>1, AtMoves
    <2>4. QED
      BY <2>2, <2>3 DEF Off
  <1>6. mem[p] = <<i, o>>
    BY <1>1, <1>3, <1>5, LiveCell
  <1>7. QED
    BY <1>4, <1>6

LEMMA SendingHasRoom ==
  ASSUME LinkInv, LogsAdjacent, PointersCount, StagesOrdered, QueuesHoldRing,
         wpc = "put"
  PROVE  ~Full(sending)
  <1>1. /\ Len(logs) \in Nat /\ Len(sending) \in Nat /\ Back \in Int /\ Taken \in Int
        /\ Taken = Queued - Len(sending) /\ QUEUE_SIZE \in Int
    BY LenLogs, QueuedFacts, ConstantFacts
  <1>2. Queued = Len(logs) - 1
    BY DEF Queued
  <1>3. Back <= Taken /\ Taken <= Len(logs)
    <2>1. /\ Back <= Len(executed) /\ Len(executed) + Len(executing) <= Arrived
          /\ Arrived <= Taken /\ Taken <= Queued /\ Queued <= Len(logs)
          /\ Len(executed) \in Nat /\ Len(executing) \in Nat /\ Arrived \in Int
          /\ Queued \in Int
      BY StageFacts, QueueFacts, QueuedFacts
    <2>2. QED
      BY <1>1, <2>1
  <1>4. Len(logs) - Taken < QUEUE_SIZE
    BY <1>1, <1>3, RoomLeft
  <1>5. QED
    BY <1>1, <1>2, <1>4 DEF Full

LEMMA InvSendingNeverFull ==
  ASSUME QueuesHoldRing, BytesInv
  PROVE  SendingNeverFull
  BY SendingHasRoom DEF BytesInv, SendingNeverFull, WriterReady

----------------------------------------------------------------------------
(* The invariant holds at first, and steps keep it. *)

LEMMA InitBytes == Init => BytesInv
  <1> SUFFICES ASSUME Init PROVE BytesInv
    OBVIOUS
  <1>1. LinkInv
    BY InitTypes
  <1>2. /\ logs = << >> /\ Len(logs) = 0 /\ DOMAIN logs = {} /\ Reserved = 0
        /\ \A i \in 1 .. Len(logs) : FALSE
    BY EmptySeq DEF Init, Reserved
  <1>3. \A i : StartOf(i) = 0
    BY <1>2 DEF StartOf
  <1>4. todo["writer"] = << >> /\ todo["nic"] = << >>
    BY DEF Init, Threads
  <1>5. /\ Len(executed) = 0 /\ Len(executing) = 0 /\ Len(peeding) = 0 /\ Len(sending) = 0
        /\ DOMAIN executed = {} /\ DOMAIN executing = {} /\ DOMAIN peeding = {}
        /\ DOMAIN sending = {} /\ DOMAIN dirtyQueue = {}
    BY EmptySeq DEF Init
  <1>6. /\ Back = 0 /\ Parsed = 0 /\ Queued = 0 /\ Taken = 0 /\ Arrived = 0
    BY <1>2, <1>4, <1>5 DEF Init, Back, Parsed, Queued, Taken, Arrived
  <1>7. Published = 0
    BY <1>2, <1>4 DEF Published, Range
  <1>8. LogsAdjacent
    <2>1. \A i, j \in 1 .. Len(logs) + 1 : i = 1 /\ j = 1
      BY <1>2
    <2>2. 0 - 0 >= (SIZEOF_LOG + 3) * (1 - 1)
      BY ConstantFacts, Z3
    <2>3. QED
      BY <1>2, <1>3, <2>1, <2>2 DEF LogsAdjacent
  <1>9. PointersCount
    <2>1. /\ wr = 0 /\ rwr = 0 /\ rdKey = 0 /\ rd = 0 /\ rdCache = 0
          /\ 0 - 0 < TOTAL_SIZE /\ 0 \in 0 .. 0
      BY ConstantFacts DEF Init
    <2>2. QED
      BY <1>2, <1>3, <1>6, <2>1 DEF PointersCount, At
  <1>10. StagesOrdered
    BY <1>4, <1>5, <1>6, <1>7 DEF StagesOrdered, SendOK
  <1>11. WritesOK
    BY <1>4 DEF WritesOK, WriterOK, NicOK, Init
  <1>12. MemOK
    BY <1>2 DEF MemOK, Init
  <1>13. EntriesOK /\ ValuesDelivered
    BY <1>5 DEF EntriesOK, ValuesDelivered
  <1>14. QED
    BY <1>1, <1>8, <1>9, <1>10, <1>11, <1>12, <1>13 DEF BytesInv

LEMMA SameLogs ==
  ASSUME LogsAdjacent, logs' = logs
  PROVE  /\ LogsAdjacent' /\ Reserved' = Reserved
         /\ \A i : StartOf(i)' = StartOf(i)
         /\ \A i : Offsets(i)' = Offsets(i)
         /\ \A i, o : Off(i, o)' = Off(i, o)
  <1>1. Reserved' = Reserved
    BY DEF Reserved, NextOffset
  <1>2. \A i : StartOf(i)' = StartOf(i)
    BY <1>1 DEF StartOf
  <1>3. \A i : Offsets(i)' = Offsets(i)
    BY DEF Offsets, NextOffset
  <1>4. \A i, o : Off(i, o)' = Off(i, o)
    BY DEF Off
  <1>5. LogsAdjacent'
    BY <1>2 DEF LogsAdjacent, At, NextOffset
  <1>6. QED
    BY <1>1, <1>2, <1>3, <1>4, <1>5

(* The ring stays as it is when no byte is written. *)
LEMMA MemStays ==
  ASSUME LogsAdjacent, MemOK, logs' = logs, mem' = mem,
         \A k \in 1 .. Len(logs) : \A o \in Offsets(k) : Written(k, o)' <=> Written(k, o)
  PROVE  MemOK'
  <1>1. /\ \A i : Offsets(i)' = Offsets(i)
        /\ \A i, o : Off(i, o)' = Off(i, o)
    BY SameLogs
  <1>2. \A c : Count(c)' = Count(c)
    BY <1>1 DEF Count
  <1>3. \A p, c : At(p, c)' <=> At(p, c)
    BY DEF At
  <1>4. ASSUME NEW p \in 0 .. TOTAL_SIZE - 1, mem[p] # Zero
        PROVE  /\ mem[p][1] \in 1 .. Len(logs) /\ mem[p][2] \in Offsets(mem[p][1])
               /\ At(p, Count(mem[p])) /\ Written(mem[p][1], mem[p][2])'
    BY <1>4 DEF MemOK
  <1>5. ASSUME NEW k \in 1 .. Len(logs), NEW o \in Offsets(k), NEW p \in 0 .. TOTAL_SIZE - 1,
               Written(k, o)', At(p, Off(k, o))
        PROVE  mem[p] # Zero /\ Count(mem[p]) >= Off(k, o)
    BY <1>5 DEF MemOK
  <1>6. ASSUME NEW p \in 0 .. TOTAL_SIZE - 1, mem'[p] # Zero
        PROVE  (/\ mem[p][1] \in 1 .. Len(logs) /\ mem[p][2] \in Offsets(mem[p][1])
                /\ At(p, Count(mem[p])) /\ Written(mem[p][1], mem[p][2]))'
    <2>1. /\ mem[p][1] \in 1 .. Len(logs) /\ mem[p][2] \in Offsets(mem[p][1])
          /\ At(p, Count(mem[p])) /\ Written(mem[p][1], mem[p][2])'
      BY <1>4, <1>6
    <2>2. QED
      BY <1>1, <1>2, <1>3, <2>1
  <1>7. QED
    BY <1>1, <1>2, <1>3, <1>5, <1>6 DEF MemOK

LEMMA WrittenStays ==
  ASSUME logs' = logs, Taken' = Taken,
         \A g : Progress(todo'["writer"], g) = Progress(todo["writer"], g),
         \A g : Progress(todo'["nic"], g) = Progress(todo["nic"], g)
  PROVE  \A k, o : Written(k, o)' <=> Written(k, o)
  BY DEF Written, ValueOffset, NextOffset

(* A step of the head node does not change what the reader holds. *)
LEMMA EntriesStay ==
  ASSUME LinkInv, StagesOrdered, EntriesOK, ValuesDelivered, UNCHANGED tail,
         Len(logs') \in Nat, Len(logs') >= Len(logs), \A i \in 1 .. Len(logs) : logs'[i] = logs[i]
  PROVE  EntriesOK' /\ ValuesDelivered' /\ Back' = Back /\ Parsed' = Parsed
  <1>1. Back' = Back /\ Parsed' = Parsed
    BY DEF tail, Back, Parsed
  <1>2. /\ Len(executed) \in Nat /\ Len(executing) \in Nat /\ Len(peeding) \in Nat
        /\ Len(dirtyQueue) \in Nat /\ DOMAIN executed = 1 .. Len(executed)
        /\ DOMAIN executing = 1 .. Len(executing) /\ DOMAIN peeding = 1 .. Len(peeding)
        /\ DOMAIN dirtyQueue = 1 .. Len(dirtyQueue)
    BY QueueFacts
  <1>3. /\ Len(executed) + Len(executing) + Len(peeding) <= Len(logs) /\ Len(logs) \in Nat
        /\ Back \in Nat
    <2>1. /\ Parsed = Len(executed) + Len(executing) + Len(peeding)
          /\ Parsed <= Published /\ Published <= Len(logs) /\ Published \in Int
          /\ Parsed \in Int /\ Back \in Int /\ 0 <= Back /\ Len(logs) \in Nat
      BY QueuedFacts, StageFacts, LenLogs
    <2>2. QED
      BY <2>1
  <1>4. \A e, i : i \in 1 .. Len(logs) /\ EntryOK(e, i) => EntryOK(e, i)'
    BY DEF EntryOK, At
  <1>5. \A i \in 1 .. Len(logs) : ValueOf(i)' = ValueOf(i)
    BY DEF ValueOf, ValueOffset
  <1>6. \A k \in DOMAIN peeding : EntryOK(peeding[k], Len(executed) + Len(executing) + k)'
    <2> TAKE k \in DOMAIN peeding
    <2>1. Len(executed) + Len(executing) + k \in 1 .. Len(logs)
      BY <1>2, <1>3
    <2>2. EntryOK(peeding[k], Len(executed) + Len(executing) + k)
      BY DEF EntriesOK
    <2>3. QED
      BY <1>4, <2>1, <2>2 DEF tail
  <1>7. \A k \in DOMAIN executing :
          /\ EntryOK(executing[k], Len(executed) + k)'
          /\ executing[k].value \in {<< >>, ValueOf(Len(executed) + k)'}
    <2> TAKE k \in DOMAIN executing
    <2>1. Len(executed) + k \in 1 .. Len(logs)
      BY <1>2, <1>3
    <2>2. EntryOK(executing[k], Len(executed) + k) /\ executing[k].value \in {<< >>, ValueOf(Len(executed) + k)}
      BY DEF EntriesOK
    <2>3. EntryOK(executing[k], Len(executed) + k)'
      BY <1>4, <2>1, <2>2 DEF tail
    <2>4. ValueOf(Len(executed) + k)' = ValueOf(Len(executed) + k)
      BY <1>5, <2>1 DEF tail
    <2>5. QED
      BY <2>2, <2>3, <2>4
  <1>8. rpc # "abort" => \A k \in DOMAIN dirtyQueue : EntryOK(dirtyQueue[k], Back + k)'
    <2> SUFFICES ASSUME rpc # "abort", NEW k \in DOMAIN dirtyQueue
                 PROVE  EntryOK(dirtyQueue[k], Back + k)'
      OBVIOUS
    <2>1. Back + Len(dirtyQueue) = Len(executed) + Len(executing) + Len(peeding)
      BY <1>2 DEF LinkInv, PipeOK, Back
    <2>2. Back + k \in 1 .. Len(logs)
      BY <1>2, <1>3, <2>1
    <2>3. EntryOK(dirtyQueue[k], Back + k)
      BY DEF EntriesOK
    <2>4. QED
      BY <1>1, <1>4, <2>2, <2>3 DEF tail
  <1>9. EntriesOK'
    BY <1>1, <1>6, <1>7, <1>8 DEF EntriesOK, tail
  <1>10. ValuesDelivered'
    <2>1. \A k \in DOMAIN executed : k \in 1 .. Len(logs)
      BY <1>2, <1>3
    <2>2. QED
      BY <2>1 DEF ValuesDelivered, ValueOffset, tail
  <1>11. QED
    BY <1>1, <1>9, <1>10

(* The writer between two logs. *)
LEMMA WriterIdle ==
  ASSUME NEW q, q = << >> \/ q = Fetch
  PROVE  /\ ~\E o \in Range(q) : o.op = "wr"
         /\ \A g : Progress(q, g) = g
         /\ q \in {<< >>, Fetch}
  <1>1. CASE q = << >>
    BY <1>1 DEF Range, Progress
  <1>2. CASE q = Fetch
    <2>1. q[1].op = "rd" /\ \A k \in DOMAIN q : q[k].op = "rd"
      BY <1>2 DEF Fetch
    <2>2. QED
      BY <1>2, <2>1 DEF Range, Progress
  <1>3. QED
    BY <1>1, <1>2

(* Steps of the head node that write no byte. *)
LEMMA HeadStep ==
  ASSUME BytesInv, UNCHANGED <<logs, mem, tail>>,
         LinkInv', WritesOK', PointersCount', SendOK', Taken' = Taken, Published <= Published',
         todo'["nic"] = todo["nic"],
         \A g : Progress(todo'["writer"], g) = Progress(todo["writer"], g)
  PROVE  BytesInv'
  <1> USE DEF BytesInv
  <1>1. LogsAdjacent'
    BY SameLogs
  <1>2. EntriesOK' /\ ValuesDelivered' /\ Back' = Back /\ Parsed' = Parsed
    <2>1. Len(logs') \in Nat /\ Len(logs') >= Len(logs) /\ \A i \in 1 .. Len(logs) : logs'[i] = logs[i]
      BY LenLogs
    <2>2. QED
      BY <2>1, EntriesStay
  <1>3. Arrived' = Arrived
    BY DEF Arrived
  <1>4. MemOK'
    <2>1. \A k, o : Written(k, o)' <=> Written(k, o)
      BY WrittenStays
    <2>2. QED
      BY <2>1, MemStays
  <1>5. StagesOrdered'
    <2>1. Parsed' <= Published'
      <3>1. Published' \in Int
        BY LenLogs DEF Published
      <3>2. Parsed \in Int /\ Published \in Int /\ Parsed <= Published
        BY QueuedFacts, StageFacts
      <3>3. QED
        BY <1>2, <3>1, <3>2
    <2>2. QED
      BY <1>2, <1>3, <2>1 DEF StagesOrdered, tail
  <1>6. QED
    BY <1>1, <1>2, <1>4, <1>5

LEMMA SendStays ==
  ASSUME StagesOrdered, sending' = sending, Queued' = Queued, todo'["nic"] = todo["nic"]
  PROVE  SendOK' /\ Taken' = Taken
  BY DEF StagesOrdered, SendOK, Taken

LEMMA HeadQuiet ==
  ASSUME BytesInv, UNCHANGED <<wr, rdCache, logs, sending, mem, rwr, tail>>,
         LinkInv', WritesOK', Queued' = Queued, Published' = Published,
         todo'["nic"] = todo["nic"],
         \A g : Progress(todo'["writer"], g) = Progress(todo["writer"], g)
  PROVE  BytesInv'
  <1>1. Reserved' = Reserved /\ \A i : StartOf(i)' = StartOf(i)
    BY SameLogs DEF BytesInv
  <1>2. Back' = Back /\ Parsed' = Parsed
    BY DEF Back, Parsed, tail
  <1>3. PointersCount'
    BY <1>1, <1>2 DEF BytesInv, PointersCount, At, tail
  <1>4. Published <= Published'
    BY QueuedFacts DEF BytesInv
  <1>5. SendOK' /\ Taken' = Taken
    BY SendStays DEF BytesInv
  <1>6. QED
    BY <1>3, <1>4, <1>5, HeadStep

LEMMA NicStays ==
  ASSUME NicOK, todo'["nic"] = todo["nic"], Taken' = Taken, logs'[Taken] = logs[Taken]
  PROVE  NicOK'
  BY DEF NicOK, Follows, Part, Place, At, Off, NextOffset, ValueOffset

(* The writer goes from one call to the next between two logs. *)
LEMMA IdleStep ==
  ASSUME BytesInv, LinkInv', wpc \notin {"put", "crash"}, wpc' \notin {"put", "crash"},
         NEW q, todo'["writer"] = q, q = << >> \/ q = Fetch, todo'["nic"] = todo["nic"],
         UNCHANGED <<wr, rdCache, logs, sending, mem, rwr, tail>>
  PROVE  BytesInv'
  <1>1. todo["writer"] = << >> \/ todo["writer"] = Fetch
    BY DEF BytesInv, WritesOK, WriterOK
  <1>2. /\ ~\E o \in Range(todo["writer"]) : o.op = "wr"
        /\ \A g : Progress(todo["writer"], g) = g
    BY <1>1, WriterIdle
  <1>3. /\ ~\E o \in Range(q) : o.op = "wr"
        /\ \A g : Progress(q, g) = g
    BY WriterIdle
  <1>4. Queued' = Queued /\ Published' = Published
    BY <1>2, <1>3 DEF Queued, Published
  <1>5. Taken' = Taken
    BY <1>4 DEF Taken
  <1>6. NicOK'
    BY <1>5, NicStays DEF BytesInv, WritesOK
  <1>7. WritesOK'
    BY <1>6 DEF WritesOK, WriterOK
  <1>8. QED
    BY <1>2, <1>3, <1>4, <1>7, HeadQuiet

LEMMA TodoIs ==
  ASSUME LinkInv, NEW q, todo' = [todo EXCEPT !["writer"] = q]
  PROVE  todo'["writer"] = q /\ todo'["nic"] = todo["nic"]
  BY DEF LinkInv, Types, WorkTypes, Threads

LEMMA CheckSizeBytes ==
  ASSUME BytesInv, LinkInv', CheckSize
  PROVE  BytesInv'
  <1>1. todo'["writer"] = Fetch /\ todo'["nic"] = todo["nic"]
    BY TodoIs DEF CheckSize, BytesInv
  <1>2. QED
    BY <1>1, IdleStep DEF CheckSize, WriterReady

LEMMA CheckAgainBytes ==
  ASSUME BytesInv, LinkInv', CheckAgain
  PROVE  BytesInv'
  <1>1. /\ todo["writer"] = << >> /\ wpc = "checked" /\ wpc' \in {"mate", "idle"}
        /\ UNCHANGED <<wr, rdCache, logs, sending, mem, rwr, tail>>
    BY DEF CheckAgain, WriterReady
  <1>2. PICK q : (q = << >> \/ q = Fetch) /\ todo'["writer"] = q /\ todo'["nic"] = todo["nic"]
    <2>1. CASE Fits
      BY <2>1, TodoIs DEF CheckAgain, BytesInv
    <2>2. CASE ~Fits
      BY <1>1, <2>2 DEF CheckAgain
    <2>3. QED
      BY <2>1, <2>2
  <1>3. QED
    BY <1>1, <1>2, IdleStep

LEMMA NoRoomBytes ==
  ASSUME BytesInv, LinkInv', WriteMate, ~Fits
  PROVE  BytesInv'
  <1>1. /\ todo["writer"] = << >> /\ wpc = "mate" /\ wpc' = "idle" /\ todo' = todo
        /\ UNCHANGED <<wr, rdCache, logs, sending, mem, rwr, tail>>
    BY DEF WriteMate, WriterReady
  <1>2. QED
    BY <1>1, IdleStep

LEMMA IssueBytes ==
  ASSUME BytesInv, LinkInv', NEW t \in Threads, Issue(t)
  PROVE  BytesInv'
  <1>1. UNCHANGED <<wpc, todo, wr, rdCache, logs, sending, mem, rwr, tail>>
    BY DEF Issue
  <1>2. Queued' = Queued /\ Published' = Published
    BY <1>1 DEF Queued, Published
  <1>3. Taken' = Taken
    BY <1>1, <1>2 DEF Taken
  <1>4. NicOK'
    BY <1>1, <1>3, NicStays DEF BytesInv, WritesOK
  <1>5. WriterOK'
    BY <1>1 DEF BytesInv, WritesOK, WriterOK, Follows, Part, Place, At, Off, ValueOffset
  <1>6. WritesOK'
    BY <1>4, <1>5 DEF WritesOK
  <1>7. QED
    BY <1>1, <1>2, <1>6, HeadQuiet

(* Only the writer reads and writes pointers. *)
LEMMA WriterCalls ==
  ASSUME BytesInv, work # << >>, Head(todo[Head(work)]).op # "bytes", Done(Head(work))
  PROVE  /\ todo["writer"] # << >> /\ todo["writer"] \in Seq(Ops)
         /\ Head(todo[Head(work)]) = todo["writer"][1]
         /\ todo'["writer"] = Tail(todo["writer"]) /\ todo'["nic"] = todo["nic"]
  <1>1. PICK t \in Threads : t = Head(work)
    BY WorkHead DEF BytesInv
  <1>2. 1 \in DOMAIN todo[t] /\ Head(todo[t]) = todo[t][1] /\ todo[t] # << >>
    BY <1>1, WorkHead DEF BytesInv
  <1>3. t = "writer"
    <2>1. CASE t = "nic"
      BY <1>1, <1>2, <2>1 DEF BytesInv, WritesOK, NicOK
    <2>2. QED
      BY <2>1 DEF Threads
  <1>4. todo' = [todo EXCEPT !["writer"] = Tail(todo["writer"])]
    BY <1>1, <1>3 DEF Done
  <1>5. todo'["writer"] = Tail(todo["writer"]) /\ todo'["nic"] = todo["nic"]
    BY <1>4, TodoIs DEF BytesInv
  <1>6. todo["writer"] \in Seq(Ops)
    BY <1>3, OpsFacts DEF BytesInv
  <1>7. QED
    BY <1>1, <1>2, <1>3, <1>5, <1>6

LEMMA FetchRdBytes ==
  ASSUME BytesInv, LinkInv', FetchRd
  PROVE  BytesInv'
  <1>1. /\ work # << >> /\ Head(todo[Head(work)]).op = "rd" /\ Done(Head(work))
        /\ rdCache' = rd /\ UNCHANGED <<wpc, wr, logs, sending, mem, rwr, tail>>
    BY DEF FetchRd
  <1>2. /\ todo["writer"] # << >> /\ todo["writer"] \in Seq(Ops)
        /\ todo["writer"][1].op = "rd"
        /\ todo'["writer"] = Tail(todo["writer"]) /\ todo'["nic"] = todo["nic"]
    BY <1>1, WriterCalls
  <1>3. wpc \notin {"put", "crash"} /\ todo["writer"] = Fetch
    <2>1. 1 \in DOMAIN todo["writer"]
      BY <1>2
    <2>2. QED
      BY <1>2, <2>1 DEF BytesInv, WritesOK, WriterOK
  <1>4. todo'["writer"] = << >>
    BY <1>2, <1>3 DEF Fetch
  <1>5. /\ ~\E o \in Range(todo["writer"]) : o.op = "wr"
        /\ \A g : Progress(todo["writer"], g) = g
    BY <1>3, WriterIdle
  <1>6. PICK q : q = todo'["writer"]
    OBVIOUS
  <1>7. /\ ~\E o \in Range(q) : o.op = "wr"
        /\ \A g : Progress(q, g) = g
    BY <1>4, <1>6, WriterIdle
  <1>8. Queued' = Queued /\ Published' = Published
    BY <1>1, <1>5, <1>6, <1>7 DEF Queued, Published
  <1>9. WritesOK'
    <2>1. Taken' = Taken
      BY <1>1, <1>8 DEF Taken
    <2>2. NicOK'
      BY <1>1, <1>2, <2>1, NicStays DEF BytesInv, WritesOK
    <2>3. QED
      BY <1>1, <1>3, <1>4, <2>2 DEF WritesOK, WriterOK
  <1>10. PointersCount'
    <2>1. Reserved' = Reserved /\ \A i : StartOf(i)' = StartOf(i)
      BY <1>1, SameLogs DEF BytesInv
    <2>2. Back' = Back /\ Parsed' = Parsed
      BY <1>1 DEF Back, Parsed, tail
    <2>3. Back \in 0 .. Back /\ At(rd, StartOf(Back + 1)) /\ Reserved - StartOf(Back + 1) < TOTAL_SIZE
      <3>1. Back \in Int /\ 0 <= Back
        BY QueuedFacts, StageFacts DEF BytesInv
      <3>2. QED
        BY <3>1, SpaceFacts DEF BytesInv, PointersCount
    <2>4. QED
      BY <1>1, <1>8, <2>1, <2>2, <2>3 DEF BytesInv, PointersCount, At, tail
  <1>11. Published <= Published'
    BY <1>8, QueuedFacts DEF BytesInv
  <1>12. SendOK' /\ Taken' = Taken
    BY <1>1, <1>2, <1>8, SendStays DEF BytesInv
  <1>13. QED
    BY <1>1, <1>2, <1>5, <1>6, <1>7, <1>8, <1>9, <1>10, <1>11, <1>12, HeadStep

LEMMA PushWrBytes ==
  ASSUME BytesInv, LinkInv', PushWr
  PROVE  BytesInv'
  <1>1. /\ work # << >> /\ Head(todo[Head(work)]).op = "wr" /\ Done(Head(work))
        /\ rwr' = wr /\ UNCHANGED <<wpc, wr, rdCache, logs, sending, mem, tail>>
    BY DEF PushWr
  <1>2. /\ todo["writer"] # << >> /\ todo["writer"] \in Seq(Ops)
        /\ todo["writer"][1].op = "wr"
        /\ todo'["writer"] = Tail(todo["writer"]) /\ todo'["nic"] = todo["nic"]
    BY <1>1, WriterCalls
  <1>3. 1 \in DOMAIN todo["writer"] /\ Len(todo["writer"]) \in Nat
    BY <1>2
  <1>4. wpc \in {"put", "crash"} /\ ~(1 < Len(todo["writer"]))
    <2>1. Fetch[1].op = "rd"
      BY DEF Fetch
    <2>2. wpc \in {"put", "crash"}
      BY <1>2, <2>1 DEF BytesInv, WritesOK, WriterOK
    <2>3. QED
      BY <1>2, <1>3, <2>2 DEF BytesInv, WritesOK, WriterOK
  <1>5. todo'["writer"] = << >>
    <2>1. Len(todo["writer"]) = 1
      <3>1. Len(todo["writer"]) # 0
        BY <1>2, EmptySeq
      <3>2. \A m \in Nat : m # 0 /\ ~(1 < m) => m = 1
        OBVIOUS
      <3>3. QED
        BY <1>3, <1>4, <3>1, <3>2, Zenon
    <2>2. Tail(todo["writer"]) \in Seq(Ops) /\ Len(Tail(todo["writer"])) = 0
      BY <1>2, <2>1, HeadTailProperties
    <2>3. QED
      BY <1>2, <2>2, EmptySeq
  <1>6. PICK q : q = todo'["writer"]
    OBVIOUS
  <1>7. /\ ~\E o \in Range(q) : o.op = "wr"
        /\ \A g : Progress(q, g) = g
    BY <1>5, <1>6, WriterIdle
  <1>8. \A g : Progress(todo["writer"], g) = g
    BY <1>2 DEF Progress
  <1>9. Queued' = Queued /\ Published' = Len(logs)
    BY <1>1, <1>6, <1>7 DEF Queued, Published
  <1>10. WritesOK'
    <2>1. Taken' = Taken
      BY <1>1, <1>9 DEF Taken
    <2>2. NicOK'
      BY <1>1, <1>2, <2>1, NicStays DEF BytesInv, WritesOK
    <2>3. DOMAIN todo'["writer"] = {} /\ Len(logs) > 0
      BY <1>4, <1>5 DEF BytesInv, WritesOK, WriterOK
    <2>4. QED
      BY <1>1, <1>4, <2>2, <2>3 DEF WritesOK, WriterOK, Follows
  <1>11. PointersCount'
    <2>1. Reserved' = Reserved /\ \A i : StartOf(i)' = StartOf(i)
      BY <1>1, SameLogs DEF BytesInv
    <2>2. Back' = Back /\ Parsed' = Parsed
      BY <1>1 DEF Back, Parsed, tail
    <2>3. At(wr, Reserved) /\ StartOf(Len(logs) + 1) = Reserved
      BY LenLogs DEF BytesInv, PointersCount
    <2>4. QED
      BY <1>1, <1>9, <2>1, <2>2, <2>3 DEF BytesInv, PointersCount, At, tail
  <1>12. Published <= Published'
    BY <1>9, QueuedFacts DEF BytesInv
  <1>13. SendOK' /\ Taken' = Taken
    BY <1>1, <1>2, <1>9, SendStays DEF BytesInv
  <1>14. QED
    BY <1>1, <1>2, <1>6, <1>7, <1>8, <1>9, <1>10, <1>11, <1>12, <1>13, HeadStep

LEMMA PutSendingBytes ==
  ASSUME BytesInv, LinkInv', QueuesHoldRing, PutSending
  PROVE  BytesInv'
  <1>1. wpc = "put" /\ todo["writer"] = << >>
    BY DEF PutSending, WriterReady
  <1>2. ~Full(sending)
    BY <1>1, SendingHasRoom DEF BytesInv
  <1>3. /\ sending' = Append(sending, Len(logs)) /\ wpc' = "idle" /\ todo' = todo
        /\ UNCHANGED <<wr, rdCache, logs, mem, rwr, tail>>
    BY <1>2 DEF PutSending
  <1>4. /\ sending \in Seq(1 .. Len(logs)) /\ Len(sending) \in Nat /\ Len(logs) \in Nat
        /\ Queued = Len(logs) - 1 /\ Queued' = Len(logs) /\ Taken \in Int
        /\ Taken = Queued - Len(sending) /\ Len(logs) > 0
    BY <1>1, <1>3, QueuedFacts, LenLogs DEF Queued, BytesInv, WritesOK, WriterOK
  <1>5. /\ Len(sending') = Len(sending) + 1 /\ DOMAIN sending' = 1 .. Len(sending) + 1
        /\ \A k \in 1 .. Len(sending) : sending'[k] = sending[k]
        /\ sending'[Len(sending) + 1] = Len(logs)
    <2>1. Len(logs) \in 1 .. Len(logs)
      BY <1>4
    <2>2. QED
      BY <1>3, <1>4, <2>1, AppendProperties
  <1>6. Taken' = Taken
    <2>1. Taken' = Len(logs) - (Len(sending) + 1)
      BY <1>4, <1>5 DEF Taken
    <2>2. QED
      BY <1>4, <2>1
  <1>7. SendOK'
    <2>1. Taken \in 0 .. Queued /\ (todo["nic"] # << >> => Taken >= 1)
          /\ \A k \in 1 .. Len(sending) : sending[k] = Taken + k
      BY QueuedFacts DEF BytesInv, StagesOrdered, SendOK
    <2>2. Taken' \in 0 .. Queued'
      BY <1>4, <1>6, <2>1
    <2>3. Taken + (Len(sending) + 1) = Len(logs)
      BY <1>4
    <2>4. ASSUME NEW k \in 1 .. Len(sending) + 1 PROVE sending'[k] = Taken + k
      <3>1. CASE k \in 1 .. Len(sending)
        BY <1>5, <2>1, <3>1
      <3>2. CASE k = Len(sending) + 1
        BY <1>5, <2>3, <3>2
      <3>3. QED
        BY <1>4, <3>1, <3>2
    <2>5. QED
      BY <1>3, <1>5, <1>6, <2>1, <2>2, <2>4 DEF SendOK
  <1>8. NicOK'
    BY <1>3, <1>6, NicStays DEF BytesInv, WritesOK
  <1>9. WritesOK'
    BY <1>1, <1>3, <1>8 DEF WritesOK, WriterOK
  <1>10. Published' = Published
    BY <1>3 DEF Published
  <1>11. Published <= Published'
    BY <1>10, QueuedFacts DEF BytesInv
  <1>12. PointersCount'
    <2>1. Reserved' = Reserved /\ \A i : StartOf(i)' = StartOf(i)
      BY <1>3, SameLogs DEF BytesInv
    <2>2. Back' = Back /\ Parsed' = Parsed
      BY <1>3 DEF Back, Parsed, tail
    <2>3. QED
      BY <1>3, <1>10, <2>1, <2>2 DEF BytesInv, PointersCount, At, tail
  <1>13. QED
    BY <1>3, <1>6, <1>7, <1>9, <1>11, <1>12, HeadStep

(* q writes log i from byte f to before byte g and moves the pointer, or it *)
(* writes the value.                                                        *)
MateParts(q, i, s, f, g) ==
  /\ q # << >> /\ Follows(q, i, s, g)
  /\ \A k \in DOMAIN q : q[k].op = IF k < Len(q) THEN "bytes" ELSE "wr"
  /\ q[1].op = "bytes" /\ q[1].from = f
  /\ \E o \in Range(q) : o.op = "wr"
ValueParts(q, i, s, f, g) ==
  /\ q # << >> /\ Follows(q, i, s, g)
  /\ \A k \in DOMAIN q : q[k].op = "bytes" /\ q[k].from >= f /\ q[k].n > 0
  /\ q[1].from = f

(* The two parts of a write that is split, and the part of one that is not. *)
Split(i, f, n, at, s) ==
  \E a, b \in ByteOps :
    /\ Bytes(i, f, n, at) = <<a, b>>
    /\ a.op = "bytes" /\ b.op = "bytes" /\ Part(a, i, s) /\ Part(b, i, s)
    /\ a.from = f /\ a.from + a.n = b.from /\ b.from + b.n = f + n
    /\ a.n = TOTAL_SIZE - at /\ b.n > 0
Whole(i, f, n, at, s) ==
  \E a \in ByteOps :
    /\ Bytes(i, f, n, at) = <<a>> /\ a.op = "bytes" /\ Part(a, i, s)
    /\ a.from = f /\ a.n = n

LEMMA SplitParts ==
  ASSUME NEW i \in Nat, NEW f \in Nat, NEW n \in Nat, NEW at \in 0 .. TOTAL_SIZE,
         NEW s \in Nat, Place(at, s, f), n <= TOTAL_SIZE, at + n > TOTAL_SIZE
  PROVE  Split(i, f, n, at, s)
  <1>1. PICK a, b \in ByteOps :
               /\ Bytes(i, f, n, at) = <<a, b>>
               /\ a.log = i /\ a.from = f /\ a.n = TOTAL_SIZE - at /\ a.at = at
               /\ b.log = i /\ b.from = f + (TOTAL_SIZE - at)
               /\ b.n = n - (TOTAL_SIZE - at) /\ b.at = 0
    BY TwoParts, Z3
  <1>2. a.op = "bytes" /\ b.op = "bytes"
    BY <1>1 DEF ByteOps
  <1>3. Part(a, i, s)
    BY <1>1, ConstantFacts DEF Part
  <1>4. Part(b, i, s)
    <2>1. PICK p \in Int, c \in Int, d \in Int : p = at /\ c = s + f /\ d = TOTAL_SIZE - at
      BY ConstantFacts
    <2>2. At(p + d, c + d)
      BY <2>1, AtPlus DEF Place
    <2>3. PICK e \in Int : e = c + d
      BY <2>1
    <2>4. p + d = TOTAL_SIZE /\ TOTAL_SIZE \in Int /\ TOTAL_SIZE - TOTAL_SIZE = 0
      BY <2>1, ConstantFacts
    <2>5. At(TOTAL_SIZE, e)
      BY <2>2, <2>3, <2>4
    <2>6. At(0, e)
      BY <2>3, <2>4, <2>5, AtLap
    <2>7. s + b.from = e
      BY <1>1, <2>1, <2>3, ConstantFacts
    <2>8. b.at + b.n <= TOTAL_SIZE
      BY <1>1, ConstantFacts
    <2>9. QED
      BY <1>1, <2>6, <2>7, <2>8 DEF Part, Place
  <1>5. a.from + a.n = b.from /\ b.from + b.n = f + n /\ b.n > 0
    BY <1>1, ConstantFacts
  <1>6. QED
    BY <1>1, <1>2, <1>3, <1>4, <1>5 DEF Split

LEMMA WholePart ==
  ASSUME NEW i \in Nat, NEW f \in Nat, NEW n \in Nat, NEW at \in 0 .. TOTAL_SIZE,
         NEW s \in Nat, Place(at, s, f), at + n <= TOTAL_SIZE
  PROVE  Whole(i, f, n, at, s)
  <1>1. PICK a \in ByteOps : /\ Bytes(i, f, n, at) = <<a>>
                             /\ a.log = i /\ a.from = f /\ a.n = n /\ a.at = at
    BY OnePart
  <1>2. a.op = "bytes"
    BY <1>1 DEF ByteOps
  <1>3. Part(a, i, s)
    BY <1>1 DEF Part
  <1>4. QED
    BY <1>1, <1>2, <1>3 DEF Whole

LEMMA TwoFollow ==
  ASSUME NEW a \in ByteOps, NEW b \in ByteOps, NEW i, NEW s, NEW g \in Nat,
         a.op = "bytes", b.op = "bytes", Part(a, i, s), Part(b, i, s),
         a.from + a.n = b.from, b.from + b.n = g
  PROVE  /\ Follows(<<a, b>>, i, s, g)
         /\ MateParts(<<a, b, [op |-> "wr"]>>, i, s, a.from, g)
         /\ a.n > 0 /\ b.n > 0 => ValueParts(<<a, b>>, i, s, a.from, g)
  <1>1. /\ a.from \in Nat /\ a.n \in Nat /\ b.from \in Nat /\ b.n \in Nat
        /\ a.from + a.n <= g /\ b.from + b.n <= g /\ b.from >= a.from
    <2>1. a.from \in Nat /\ a.n \in Nat /\ b.from \in Nat /\ b.n \in Nat
      BY DEF ByteOps
    <2>2. QED
      BY <2>1, Z3
  <1>2. Follows(<<a, b>>, i, s, g)
    <2> PICK q : q = <<a, b>>
      OBVIOUS
    <2>1. DOMAIN q = {1, 2} /\ Len(q) = 2 /\ q[1] = a /\ q[2] = b
      OBVIOUS
    <2>2. ASSUME NEW k \in DOMAIN q
          PROVE  /\ Part(q[k], i, s)
                 /\ q[k].from + q[k].n <= g
                 /\ q[k].from + q[k].n =
                      IF k < Len(q) /\ q[k + 1].op = "bytes" THEN q[k + 1].from ELSE g
      <3>1. CASE k = 1
        BY <1>1, <2>1, <3>1
      <3>2. CASE k = 2
        BY <1>1, <2>1, <3>2
      <3>3. QED
        BY <2>1, <3>1, <3>2
    <2>3. QED
      BY <2>2 DEF Follows
  <1>3. MateParts(<<a, b, [op |-> "wr"]>>, i, s, a.from, g)
    <2> PICK c : c = [op |-> "wr"]
      OBVIOUS
    <2> PICK q : q = <<a, b, c>>
      OBVIOUS
    <2>1. /\ DOMAIN q = {1, 2, 3} /\ Len(q) = 3 /\ q[1] = a /\ q[2] = b /\ q[3] = c
          /\ c.op = "wr" /\ q # << >>
      OBVIOUS
    <2>2. ASSUME NEW k \in DOMAIN q, q[k].op = "bytes"
          PROVE  /\ Part(q[k], i, s)
                 /\ q[k].from + q[k].n <= g
                 /\ q[k].from + q[k].n =
                      IF k < Len(q) /\ q[k + 1].op = "bytes" THEN q[k + 1].from ELSE g
      <3>1. CASE k = 1
        BY <1>1, <2>1, <3>1
      <3>2. CASE k = 2
        BY <1>1, <2>1, <3>2
      <3>3. CASE k = 3
        BY <2>1, <2>2, <3>3
      <3>4. QED
        BY <2>1, <3>1, <3>2, <3>3
    <2>3. Follows(q, i, s, g)
      BY <2>2 DEF Follows
    <2>4. \A k \in DOMAIN q : q[k].op = IF k < Len(q) THEN "bytes" ELSE "wr"
      BY <2>1
    <2>5. \E o \in Range(q) : o.op = "wr"
      BY <2>1 DEF Range
    <2>6. QED
      BY <2>1, <2>3, <2>4, <2>5 DEF MateParts
  <1>4. ASSUME a.n > 0, b.n > 0 PROVE ValueParts(<<a, b>>, i, s, a.from, g)
    <2> PICK q : q = <<a, b>>
      OBVIOUS
    <2>1. DOMAIN q = {1, 2} /\ q[1] = a /\ q[2] = b /\ q # << >>
      OBVIOUS
    <2>2. \A k \in DOMAIN q : q[k].op = "bytes" /\ q[k].from >= a.from /\ q[k].n > 0
      BY <1>1, <1>4, <2>1
    <2>3. QED
      BY <1>2, <2>1, <2>2 DEF ValueParts
  <1>5. QED
    BY <1>2, <1>3, <1>4

LEMMA OneFollows ==
  ASSUME NEW a \in ByteOps, NEW i, NEW s, NEW g \in Nat,
         a.op = "bytes", Part(a, i, s), a.from + a.n = g
  PROVE  /\ MateParts(<<a, [op |-> "wr"]>>, i, s, a.from, g)
         /\ a.n > 0 => ValueParts(<<a>>, i, s, a.from, g)
  <1>1. a.from \in Nat /\ a.n \in Nat /\ a.from + a.n <= g /\ a.from >= a.from
    <2>1. a.from \in Nat /\ a.n \in Nat
      BY DEF ByteOps
    <2>2. QED
      BY <2>1, Z3
  <1>2. MateParts(<<a, [op |-> "wr"]>>, i, s, a.from, g)
    <2> PICK c : c = [op |-> "wr"]
      OBVIOUS
    <2> PICK q : q = <<a, c>>
      OBVIOUS
    <2>1. /\ DOMAIN q = {1, 2} /\ Len(q) = 2 /\ q[1] = a /\ q[2] = c
          /\ c.op = "wr" /\ q # << >>
      OBVIOUS
    <2>2. ASSUME NEW k \in DOMAIN q, q[k].op = "bytes"
          PROVE  /\ Part(q[k], i, s)
                 /\ q[k].from + q[k].n <= g
                 /\ q[k].from + q[k].n =
                      IF k < Len(q) /\ q[k + 1].op = "bytes" THEN q[k + 1].from ELSE g
      <3>1. CASE k = 1
        BY <1>1, <2>1, <3>1
      <3>2. CASE k = 2
        BY <2>1, <2>2, <3>2
      <3>3. QED
        BY <2>1, <3>1, <3>2
    <2>3. Follows(q, i, s, g)
      BY <2>2 DEF Follows
    <2>4. \A k \in DOMAIN q : q[k].op = IF k < Len(q) THEN "bytes" ELSE "wr"
      BY <2>1
    <2>5. \E o \in Range(q) : o.op = "wr"
      BY <2>1 DEF Range
    <2>6. QED
      BY <2>1, <2>3, <2>4, <2>5 DEF MateParts
  <1>3. ASSUME a.n > 0 PROVE ValueParts(<<a>>, i, s, a.from, g)
    <2> PICK q : q = <<a>>
      OBVIOUS
    <2>1. DOMAIN q = {1} /\ Len(q) = 1 /\ q[1] = a /\ q # << >>
      OBVIOUS
    <2>2. \A k \in DOMAIN q : q[k].op = "bytes" /\ q[k].from >= a.from /\ q[k].n > 0
      BY <1>1, <1>3, <2>1
    <2>3. Follows(q, i, s, g)
      BY <1>1, <2>1 DEF Follows
    <2>4. QED
      BY <2>1, <2>2, <2>3 DEF ValueParts
  <1>4. QED
    BY <1>2, <1>3

LEMMA ConcatOne ==
  ASSUME NEW a, NEW c
  PROVE  <<a>> \o <<c>> = <<a, c>>
  <1>1. PICK S : S = {a, c}
    BY Zenon
  <1>2. <<a>> \in Seq(S) /\ <<c>> \in Seq(S) /\ <<a, c>> \in Seq(S)
    BY <1>1
  <1>3. PICK p \in Seq(S), q \in Seq(S) : p = <<a>> /\ q = <<c>>
    BY <1>2
  <1>4. Len(p) = 1 /\ Len(q) = 1 /\ p[1] = a /\ q[1] = c
    BY <1>3
  <1>5. /\ p \o q \in Seq(S) /\ Len(p \o q) = 2
        /\ (p \o q)[1] = a /\ (p \o q)[2] = c
    BY <1>3, <1>4, ConcatProperties
  <1>6. PICK r \in Seq(S) : r = <<a, c>>
    BY <1>2
  <1>7. Len(r) = 2 /\ r[1] = a /\ r[2] = c
    BY <1>6
  <1>8. p \o q = r
    <2>1. \A k \in 1 .. Len(r) : r[k] = (p \o q)[k]
      BY <1>5, <1>7
    <2>2. QED
      BY <1>5, <1>7, <2>1, SeqEqual
  <1>9. QED
    BY <1>3, <1>6, <1>8

LEMMA ConcatTwo ==
  ASSUME NEW a, NEW b, NEW c
  PROVE  <<a, b>> \o <<c>> = <<a, b, c>>
  <1>1. PICK S : S = {a, b, c}
    OBVIOUS
  <1>2. <<a, b>> \in Seq(S) /\ <<c>> \in Seq(S) /\ <<a, b, c>> \in Seq(S)
    BY <1>1
  <1>3. PICK p \in Seq(S), q \in Seq(S) : p = <<a, b>> /\ q = <<c>>
    BY <1>2
  <1>4. Len(p) = 2 /\ Len(q) = 1 /\ p[1] = a /\ p[2] = b /\ q[1] = c
    BY <1>3
  <1>5. /\ p \o q \in Seq(S) /\ Len(p \o q) = 3
        /\ (p \o q)[1] = a /\ (p \o q)[2] = b /\ (p \o q)[3] = c
    BY <1>3, <1>4, ConcatProperties
  <1>6. PICK r \in Seq(S) : r = <<a, b, c>>
    BY <1>2
  <1>7. Len(r) = 3 /\ r[1] = a /\ r[2] = b /\ r[3] = c
    BY <1>6
  <1>8. p \o q = r
    <2>1. \A k \in 1 .. Len(r) : r[k] = (p \o q)[k]
      BY <1>5, <1>7
    <2>2. QED
      BY <1>5, <1>7, <2>1, SeqEqual
  <1>9. QED
    BY <1>3, <1>6, <1>8

LEMMA MatePartsOf ==
  ASSUME NEW i \in Nat, NEW n \in Nat, NEW at \in 0 .. TOTAL_SIZE,
         NEW s \in Nat, Place(at, s, 0), n <= TOTAL_SIZE
  PROVE  MateParts(Bytes(i, 0, n, at) \o Push, i, s, 0, n)
  <1>1. CASE at + n > TOTAL_SIZE
    <2>0. Split(i, 0, n, at, s)
      BY <1>1, SplitParts
    <2>1. PICK a, b \in ByteOps :
           /\ Bytes(i, 0, n, at) = <<a, b>>
           /\ a.op = "bytes" /\ b.op = "bytes" /\ Part(a, i, s) /\ Part(b, i, s)
           /\ a.from = 0 /\ a.from + a.n = b.from /\ b.from + b.n = 0 + n
      BY <2>0 DEF Split
    <2>2. <<a, b>> \o <<[op |-> "wr"]>> = <<a, b, [op |-> "wr"]>>
      BY ConcatTwo
    <2>3. b.from + b.n = n
      BY <2>1
    <2>4. MateParts(<<a, b, [op |-> "wr"]>>, i, s, a.from, n)
      BY <2>1, <2>3, TwoFollow
    <2>5. QED
      BY <2>1, <2>2, <2>4 DEF Push
  <1>2. CASE at + n <= TOTAL_SIZE
    <2>0. Whole(i, 0, n, at, s)
      BY <1>2, WholePart
    <2>1. PICK a \in ByteOps :
           /\ Bytes(i, 0, n, at) = <<a>> /\ a.op = "bytes" /\ Part(a, i, s)
           /\ a.from = 0 /\ a.n = n
      BY <2>0 DEF Whole
    <2>2. <<a>> \o <<[op |-> "wr"]>> = <<a, [op |-> "wr"]>>
      BY ConcatOne
    <2>3. a.from + a.n = n
      BY <2>1
    <2>4. MateParts(<<a, [op |-> "wr"]>>, i, s, a.from, n)
      BY <2>1, <2>3, OneFollows
    <2>5. QED
      BY <2>1, <2>2, <2>4 DEF Push
  <1>3. QED
    BY <1>1, <1>2, ConstantFacts

LEMMA ValuePartsOf ==
  ASSUME NEW i \in Nat, NEW f \in Nat, NEW n \in Nat, NEW at \in 0 .. TOTAL_SIZE,
         NEW s \in Nat, Place(at, s, f), n <= TOTAL_SIZE
  PROVE  n > 0 /\ at < TOTAL_SIZE => ValueParts(Bytes(i, f, n, at), i, s, f, f + n)
  <1>0. f + n \in Nat
    BY ConstantFacts
  <1>1. CASE at + n > TOTAL_SIZE
    <2>0. Split(i, f, n, at, s)
      BY <1>1, SplitParts
    <2>1. PICK a, b \in ByteOps :
           /\ Bytes(i, f, n, at) = <<a, b>>
           /\ a.op = "bytes" /\ b.op = "bytes" /\ Part(a, i, s) /\ Part(b, i, s)
           /\ a.from = f /\ a.from + a.n = b.from /\ b.from + b.n = f + n
           /\ a.n = TOTAL_SIZE - at /\ b.n > 0
      BY <2>0 DEF Split
    <2>2. at < TOTAL_SIZE => a.n > 0
      BY <2>1, ConstantFacts
    <2>3. at < TOTAL_SIZE => ValueParts(<<a, b>>, i, s, a.from, f + n)
      BY <1>0, <2>1, <2>2, TwoFollow
    <2>4. QED
      BY <2>1, <2>3
  <1>2. CASE at + n <= TOTAL_SIZE
    <2>0. Whole(i, f, n, at, s)
      BY <1>2, WholePart
    <2>1. PICK a \in ByteOps :
           /\ Bytes(i, f, n, at) = <<a>> /\ a.op = "bytes" /\ Part(a, i, s)
           /\ a.from = f /\ a.n = n
      BY <2>0 DEF Whole
    <2>2. a.from + a.n = f + n
      BY <2>1
    <2>3. n > 0 => ValueParts(<<a>>, i, s, a.from, f + n)
      BY <1>0, <2>1, <2>2, OneFollows
    <2>4. QED
      BY <2>1, <2>3
  <1>3. QED
    BY <1>1, <1>2, ConstantFacts

(* NIC_thread takes the next log. *)
LEMMA NicWriteStep ==
  ASSUME BytesInv, NicWrite
  PROVE  \E i \in 1 .. Len(logs) : \E q :
           /\ i = Taken + 1 /\ i <= Queued /\ Taken' = i /\ Queued' = Queued
           /\ todo'["nic"] = q /\ todo'["writer"] = todo["writer"]
           /\ ValueParts(q, i, logs[i].start, ValueOffset(logs[i]), NextOffset(logs[i]))
           /\ \A k \in DOMAIN sending' : sending'[k] = i + k
  <1> USE DEF BytesInv
  <1>1. /\ todo["nic"] = << >> /\ sending # << >> /\ sending' = Tail(sending)
        /\ UNCHANGED <<wpc, logs>>
    BY DEF NicWrite
  <1>2. /\ sending \in Seq(1 .. Len(logs)) /\ Len(sending) \in Nat /\ Queued \in Int
        /\ Taken \in Int /\ Taken = Queued - Len(sending) /\ Len(logs) \in Nat
        /\ Queued <= Len(logs) /\ Taken >= 0
    BY QueuedFacts, LenLogs DEF StagesOrdered, SendOK
  <1>3. /\ Head(sending) = sending[1] /\ 1 \in DOMAIN sending
        /\ sending' \in Seq(1 .. Len(logs)) /\ Len(sending') = Len(sending) - 1
        /\ \A k \in 1 .. Len(sending') : sending'[k] = sending[k + 1]
        /\ DOMAIN sending' = 1 .. Len(sending') /\ Len(sending) > 0
    BY <1>1, <1>2, HeadTailProperties, EmptySeq
  <1>4. \A k \in 1 .. Len(sending) : sending[k] = Taken + k
    BY QueuedFacts DEF StagesOrdered, SendOK
  <1>5. PICK i \in 1 .. Len(logs) : i = Taken + 1 /\ i = Head(sending) /\ i <= Queued
    <2>1. Taken + 1 \in 1 .. Len(logs) /\ Taken + 1 <= Queued
      BY <1>2, <1>3
    <2>2. Head(sending) = Taken + 1
      BY <1>2, <1>3, <1>4
    <2>3. QED
      BY <2>1, <2>2
  <1>6. Queued' = Queued
    BY <1>1 DEF Queued
  <1>7. Taken' = i
    <2>1. Taken' = Queued - (Len(sending) - 1)
      BY <1>3, <1>6 DEF Taken
    <2>2. QED
      BY <1>2, <1>5, <2>1
  <1>8. \A k \in DOMAIN sending' : sending'[k] = i + k
    <2> TAKE k \in DOMAIN sending'
    <2>1. k \in 1 .. Len(sending') /\ k + 1 \in 1 .. Len(sending) /\ k \in Int
      <3>1. k \in 1 .. Len(sending') /\ Len(sending') = Len(sending) - 1 /\ Len(sending) \in Nat
        BY <1>2, <1>3
      <3>2. QED
        BY <3>1
    <2>2. sending'[k] = Taken + (k + 1)
      BY <1>3, <1>4, <2>1
    <2>3. Taken + (k + 1) = (Taken + 1) + k
      BY <1>2, <2>1
    <2>4. QED
      BY <1>5, <2>2, <2>3
  <1>9. /\ logs[i].start \in Nat /\ logs[i].pos \in Int /\ ValueOffset(logs[i]) \in Nat
        /\ logs[i].vlen \in Nat /\ logs[i].vlen > 0
        /\ NextOffset(logs[i]) = ValueOffset(logs[i]) + logs[i].vlen
        /\ At(logs[i].pos, logs[i].start)
    <2>1. logs[i].vlen \in Nat \ {0, 1}
      BY LogFacts
    <2>2. QED
      BY <2>1, LogFacts, ChainFacts
  <1>10. PICK f, n, s \in Nat :
           /\ f = ValueOffset(logs[i]) /\ n = logs[i].vlen /\ s = logs[i].start /\ n > 0
           /\ f + n = NextOffset(logs[i])
    BY <1>9
  <1> PICK a : a = Wrap(logs[i].pos + f)
    BY Zenon
  <1>11. a \in 0 .. TOTAL_SIZE - 1 /\ Place(a, s, f)
    <2>1. logs[i].pos + f \in Int /\ s \in Int /\ f \in Int
      <3>1. logs[i].pos \in Int /\ f \in Int /\ s \in Int
        BY <1>9, <1>10
      <3>2. QED
        BY <3>1
    <2>2. a \in 0 .. TOTAL_SIZE - 1
      BY <1>10, <2>1, WrapInRing
    <2>3. At(a, s + f)
      BY <1>9, <1>10, <2>1, AtMoves
    <2>4. QED
      BY <2>2, <2>3 DEF Place
  <1>12. n <= TOTAL_SIZE
    <2>1. i > Back
      <3>1. /\ Back <= Len(executed) /\ Len(executed) + Len(executing) <= Arrived
            /\ Arrived <= Taken /\ Back \in Int /\ Len(executed) \in Nat
            /\ Len(executing) \in Nat /\ Arrived \in Int
        BY StageFacts, QueuedFacts, QueueFacts
      <3>2. QED
        BY <1>2, <1>5, <3>1
    <2>2. 0 \in Offsets(i)
      BY <1>9 DEF Offsets
    <2>3. Reserved - Off(i, 0) < TOTAL_SIZE
      BY <2>1, <2>2, LiveByte
    <2>4. Off(i, 0) = StartOf(i) + 0 /\ StartOf(i) \in Nat
      BY <2>2, OffFacts
    <2>5. StartOf(i) = s /\ s + (f + n) <= Reserved /\ Reserved \in Nat
      BY <1>10, ChainFacts, LenLogs
    <2>6. TOTAL_SIZE \in Int /\ f \in Nat /\ n \in Nat /\ s \in Nat
      BY <1>10, ConstantFacts
    <2>7. Reserved - s < TOTAL_SIZE
      BY <2>3, <2>4, <2>5
    <2>8. QED
      BY <2>5, <2>6, <2>7
  <1>13. PICK b \in 0 .. TOTAL_SIZE : b = a /\ b < TOTAL_SIZE
    BY <1>11, ConstantFacts
  <1>14. i \in Nat /\ Place(b, s, f)
    BY <1>11, <1>13
  <1>15. ValueParts(Bytes(i, f, n, b), i, s, f, f + n)
    BY <1>10, <1>12, <1>13, <1>14, ValuePartsOf
  <1>16. PICK q : q = Bytes(i, f, n, b)
    BY Zenon
  <1>17. todo' = [todo EXCEPT !["nic"] = q]
    BY <1>5, <1>10, <1>13, <1>16 DEF NicWrite
  <1>18. todo'["nic"] = q /\ todo'["writer"] = todo["writer"]
    BY <1>17 DEF LinkInv, Types, WorkTypes, Threads
  <1>19. ValueParts(q, i, logs[i].start, ValueOffset(logs[i]), NextOffset(logs[i]))
    BY <1>10, <1>15, <1>16
  <1>20. QED
    BY <1>5, <1>6, <1>7, <1>8, <1>18, <1>19

LEMMA NicWriteBytes ==
  ASSUME BytesInv, LinkInv', NicWrite
  PROVE  BytesInv'
  <1>1. PICK i \in 1 .. Len(logs) : \E q :
           /\ i = Taken + 1 /\ i <= Queued /\ Taken' = i /\ Queued' = Queued
           /\ todo'["nic"] = q /\ todo'["writer"] = todo["writer"]
           /\ ValueParts(q, i, logs[i].start, ValueOffset(logs[i]), NextOffset(logs[i]))
           /\ \A k \in DOMAIN sending' : sending'[k] = i + k
    BY NicWriteStep
  <1>2. PICK q :
           /\ i = Taken + 1 /\ i <= Queued /\ Taken' = i /\ Queued' = Queued
           /\ todo'["nic"] = q /\ todo'["writer"] = todo["writer"]
           /\ ValueParts(q, i, logs[i].start, ValueOffset(logs[i]), NextOffset(logs[i]))
           /\ \A k \in DOMAIN sending' : sending'[k] = i + k
    BY <1>1
  <1>3. /\ todo["nic"] = << >> /\ UNCHANGED <<wpc, wr, rdCache, logs, mem, rwr, tail>>
    BY DEF NicWrite
  <1> USE DEF BytesInv
  <1>4. /\ Taken \in Int /\ Queued \in Int /\ Arrived = Taken /\ Len(logs) \in Nat
    BY <1>3, QueuedFacts, LenLogs DEF Arrived
  <1>5. q # << >> /\ q[1].op = "bytes" /\ q[1].from = ValueOffset(logs[i])
    <2>1. q # << >> /\ q[1].from = ValueOffset(logs[i])
      BY <1>2 DEF ValueParts
    <2>2. q[1].op = "bytes"
      <3>1. todo'["nic"] \in Seq(Ops) /\ todo'["nic"] # << >>
        BY <1>2, <2>1 DEF LinkInv, Types, WorkTypes, Threads
      <3>2. 1 \in DOMAIN q
        BY <1>2, <3>1
      <3>3. QED
        BY <1>2, <3>2 DEF ValueParts
    <2>3. QED
      BY <2>1, <2>2
  <1>6. Arrived' = Taken
    BY <1>2, <1>4, <1>5 DEF Arrived
  <1>7. LogsAdjacent' /\ Reserved' = Reserved /\ \A j : StartOf(j)' = StartOf(j)
    BY <1>3, SameLogs
  <1>8. EntriesOK' /\ ValuesDelivered' /\ Back' = Back /\ Parsed' = Parsed
    <2>1. Len(logs') \in Nat /\ Len(logs') >= Len(logs) /\ \A j \in 1 .. Len(logs) : logs'[j] = logs[j]
      BY <1>3, LenLogs
    <2>2. QED
      BY <1>3, <2>1, EntriesStay
  <1>9. Published' = Published
    BY <1>2, <1>3 DEF Published
  <1>10. PointersCount'
    BY <1>3, <1>7, <1>8, <1>9 DEF PointersCount, At, tail
  <1>11. StagesOrdered'
    <2>1. SendOK'
      BY <1>2, <1>4 DEF SendOK
    <2>2. QED
      BY <1>3, <1>4, <1>6, <1>8, <1>9, <2>1 DEF StagesOrdered, tail
  <1>12. WritesOK'
    <2>1. NicOK'
      BY <1>2, <1>3 DEF NicOK, ValueParts, NextOffset, ValueOffset
    <2>2. WriterOK'
      BY <1>2, <1>3 DEF WritesOK, WriterOK, ValueOffset
    <2>3. QED
      BY <2>1, <2>2 DEF WritesOK
  <1>13. MemOK'
    <2>1. ASSUME NEW k \in 1 .. Len(logs), NEW o \in Offsets(k)
          PROVE  Written(k, o)' <=> Written(k, o)
      <3>1. CASE o < ValueOffset(logs[k])
        BY <1>2, <1>3, <3>1 DEF Written, ValueOffset
      <3>2. CASE ~(o < ValueOffset(logs[k]))
        <4>1. Written(k, o) <=> k < Taken \/ (k = Taken /\ o < NextOffset(logs[k]))
          BY <1>3, <3>2 DEF Written, Progress
        <4>2. o < NextOffset(logs[k])
          BY OffFacts
        <4>3. Written(k, o)' <=> k < i \/ (k = i /\ o < ValueOffset(logs[i]))
          BY <1>2, <1>3, <1>5, <3>2 DEF Written, Progress, ValueOffset
        <4>4. k = i => ~(o < ValueOffset(logs[i]))
          BY <3>2
        <4>5. k < i <=> k < Taken \/ k = Taken
          BY <1>2, <1>4
        <4>6. QED
          BY <4>1, <4>2, <4>3, <4>4, <4>5
      <3>3. QED
        BY <3>1, <3>2
    <2>2. QED
      BY <1>3, <2>1, MemStays
  <1>14. QED
    BY <1>7, <1>8, <1>10, <1>11, <1>12, <1>13

LEMMA TimesNext ==
  ASSUME NEW m \in Int, NEW a \in Int
  PROVE  m * (a + 1) = m * a + m
  BY Z3

(* rb_write_mate adds a log behind the others. *)
LEMMA MateLogs ==
  ASSUME BytesInv, WriteMate, Fits, NEW j \in Nat, j = Len(logs) + 1,
         NEW n \in Nat, n = NextOffset(names[count + 1])
  PROVE  /\ Len(logs') = j /\ logs' \in Seq(LogRec)
         /\ \A i \in 1 .. Len(logs) : logs'[i] = logs[i]
         /\ logs'[j].start = Reserved /\ logs'[j].pos = wr
         /\ NextOffset(logs'[j]) = n /\ n >= SIZEOF_LOG + 3 /\ n < TOTAL_SIZE
         /\ ValueOffset(logs'[j]) = ValueOffset(names[count + 1])
         /\ ValueOffset(names[count + 1]) \in Nat /\ ValueOffset(names[count + 1]) < n
         /\ ValueOffset(names[count + 1]) + names[count + 1].vlen = n
         /\ names[count + 1].vlen \in Nat /\ ValueOffset(names[count + 1]) > 0
         /\ Reserved' = Reserved + n
         /\ \A i \in 1 .. j : StartOf(i)' = StartOf(i)
         /\ StartOf(j + 1)' = Reserved + n
  <1>1. /\ count + 1 \in 1 .. REPEAT /\ Reserved \in Nat /\ Len(logs) \in Nat
        /\ Len(logs') = j /\ \A i \in 1 .. Len(logs) : logs'[i] = logs[i]
        /\ logs'[j] = [start |-> Reserved, pos |-> wr,
              key |-> names[count + 1].key,
              klen |-> names[count + 1].klen, vlen |-> names[count + 1].vlen]
        /\ logs' \in Seq(LogRec) /\ n \in 1 .. TOTAL_SIZE - 1
    BY NewLog DEF BytesInv
  <1>2. /\ logs'[j].start = Reserved /\ logs'[j].pos = wr
        /\ logs'[j].klen = names[count + 1].klen /\ logs'[j].vlen = names[count + 1].vlen
    BY <1>1
  <1>3. NextOffset(logs'[j]) = n /\ ValueOffset(logs'[j]) = ValueOffset(names[count + 1])
    BY <1>2 DEF NextOffset, ValueOffset
  <1>4. PICK k \in Nat, v \in Nat :
          k = names[count + 1].klen /\ v = names[count + 1].vlen /\ k > 0 /\ v > 1
    <2>1. names[count + 1].klen \in Nat \ {0} /\ names[count + 1].vlen \in Nat \ {0, 1}
      BY <1>1, NameFacts DEF BytesInv, LinkInv, Types
    <2>2. QED
      BY <2>1
  <1>5. /\ n >= SIZEOF_LOG + 3 /\ n < TOTAL_SIZE
        /\ ValueOffset(names[count + 1]) \in Nat /\ ValueOffset(names[count + 1]) < n
        /\ ValueOffset(names[count + 1]) + names[count + 1].vlen = n
        /\ ValueOffset(names[count + 1]) > 0
    <2>1. ValueOffset(names[count + 1]) = SIZEOF_LOG + k /\ n = SIZEOF_LOG + k + v
      BY <1>4 DEF ValueOffset, NextOffset
    <2>2. SIZEOF_LOG \in Nat /\ k \in Nat /\ v \in Nat /\ k > 0 /\ v > 1
          /\ names[count + 1].vlen = v /\ n < TOTAL_SIZE
      BY <1>1, <1>4, ConstantFacts
    <2>3. QED
      BY <2>1, <2>2
  <1>6. Reserved' = Reserved + n
    <2>1. logs' # << >>
      BY <1>1, EmptySeq
    <2>2. Reserved' = logs'[j].start + NextOffset(logs'[j])
      BY <1>1, <2>1 DEF Reserved
    <2>3. QED
      BY <1>2, <1>3, <2>2
  <1>7. \A i \in 1 .. j : StartOf(i)' = StartOf(i)
    <2> TAKE i \in 1 .. j
    <2>1. CASE i \in 1 .. Len(logs)
      BY <1>1, <2>1 DEF StartOf
    <2>2. CASE i = j
      <3>1. StartOf(j) = Reserved
        BY LenLogs DEF BytesInv
      <3>2. j \in 1 .. Len(logs')
        BY <1>1
      <3>3. StartOf(j)' = Reserved
        BY <1>2, <3>2 DEF StartOf
      <3>4. QED
        BY <2>2, <3>1, <3>3
    <2>3. QED
      BY <1>1, <2>1, <2>2
  <1>8. StartOf(j + 1)' = Reserved + n
    <2>1. j + 1 \notin 1 .. Len(logs')
      BY <1>1
    <2>2. QED
      BY <1>6, <2>1 DEF StartOf
  <1>9. names[count + 1].vlen \in Nat
    BY <1>4
  <1>10. QED
    BY <1>1, <1>2, <1>3, <1>5, <1>6, <1>7, <1>8, <1>9

LEMMA MateAdjacent ==
  ASSUME BytesInv, WriteMate, Fits
  PROVE  LogsAdjacent'
  <1> USE DEF BytesInv
  <1>1. PICK j \in Nat : j = Len(logs) + 1
    BY LenLogs
  <1>2. PICK n \in Nat : n = NextOffset(names[count + 1])
    BY NewLog
  <1>3. /\ Len(logs') = j
        /\ \A i \in 1 .. Len(logs) : logs'[i] = logs[i]
        /\ logs'[j].start = Reserved /\ logs'[j].pos = wr
        /\ NextOffset(logs'[j]) = n /\ n >= SIZEOF_LOG + 3
        /\ \A i \in 1 .. j : StartOf(i)' = StartOf(i)
        /\ StartOf(j + 1)' = Reserved + n
    BY <1>1, <1>2, MateLogs
  <1>4. /\ Len(logs) \in Nat /\ Reserved \in Nat /\ StartOf(j) = Reserved
    BY <1>1, LenLogs
  <1>5. \A i \in 1 .. j : StartOf(i) \in Nat
    BY <1>1, StartFacts
  <1>6. StartOf(1)' = 0
    BY <1>1, <1>3, <1>4 DEF LogsAdjacent
  <1>7. \A i \in 1 .. j : /\ StartOf(i + 1)' = logs'[i].start + NextOffset(logs'[i])
                          /\ At(logs'[i].pos, logs'[i].start)
    <2> TAKE i \in 1 .. j
    <2>1. CASE i \in 1 .. Len(logs)
      <3>1. i + 1 \in 1 .. j
        BY <1>1, <1>4, <2>1
      <3>2. StartOf(i + 1)' = StartOf(i + 1) /\ logs'[i] = logs[i]
        BY <1>3, <2>1, <3>1
      <3>3. QED
        BY <2>1, <3>2, ChainFacts
    <2>2. CASE i = j
      BY <1>3, <2>2 DEF PointersCount
    <2>3. QED
      BY <1>1, <1>4, <2>1, <2>2
  <1>8. ASSUME NEW i \in 1 .. j + 1, NEW k \in 1 .. j + 1, i <= k
        PROVE  StartOf(k)' - StartOf(i)' >= (SIZEOF_LOG + 3) * (k - i)
    <2>1. CASE k \in 1 .. j
      <3>1. i \in 1 .. j
        BY <1>8, <2>1
      <3>2. StartOf(k) - StartOf(i) >= (SIZEOF_LOG + 3) * (k - i)
        BY <1>1, <1>8, <2>1, <3>1 DEF LogsAdjacent
      <3>3. QED
        BY <1>3, <2>1, <3>1, <3>2
    <2>2. CASE k = j + 1 /\ i \in 1 .. j
      <3>1. StartOf(j) - StartOf(i) >= (SIZEOF_LOG + 3) * (j - i)
        <4>1. j \in 1 .. j /\ i <= j
          BY <2>2
        <4>2. QED
          BY <1>1, <2>2, <4>1 DEF LogsAdjacent
      <3>2. PICK a \in Int, m \in Int : a = j - i /\ m = SIZEOF_LOG + 3
        BY <2>2, ConstantFacts
      <3>3. m * (a + 1) = m * a + m
        BY <3>2, TimesNext
      <3>4. a + 1 = k - i
        BY <2>2, <3>2
      <3>5. PICK x \in Int, y \in Int : x = m * a /\ y = m * (a + 1)
        <4>1. m * a \in Int /\ m * (a + 1) \in Int
          BY <3>2, Z3
        <4>2. QED
          BY <4>1
      <3>6. y = x + m
        BY <3>3, <3>5
      <3>7. Reserved - StartOf(i) >= x
        BY <1>4, <3>1, <3>2, <3>5
      <3>8. StartOf(k)' = Reserved + n /\ StartOf(i)' = StartOf(i) /\ StartOf(i) \in Nat /\ n >= m
        BY <1>3, <1>5, <2>2, <3>2
      <3>9. (Reserved + n) - StartOf(i) >= y
        <4>1. PICK s, u, v, w \in Int : s = StartOf(i) /\ u = x /\ v = y /\ w = m
          BY <3>2, <3>5, <3>8
        <4>2. Reserved - s >= u /\ n >= w /\ v = u + w
          BY <3>6, <3>7, <3>8, <4>1
        <4>3. (Reserved + n) - s >= v
          BY <1>4, <4>1, <4>2
        <4>4. QED
          BY <4>1, <4>3
      <3>10. QED
        BY <3>2, <3>4, <3>5, <3>8, <3>9
    <2>3. CASE i = j + 1
      <3>1. k = i /\ k - i = 0 /\ StartOf(k)' = Reserved + n
        BY <1>3, <1>8, <2>3
      <3>2. (SIZEOF_LOG + 3) * 0 = 0
        BY ConstantFacts, Z3
      <3>3. StartOf(k)' - StartOf(i)' = 0
        BY <1>2, <1>4, <3>1
      <3>4. QED
        BY <3>1, <3>2, <3>3
    <2>4. QED
      BY <2>1, <2>2, <2>3
  <1>9. Len(logs') + 1 = j + 1
    BY <1>3
  <1>10. QED
    BY <1>3, <1>6, <1>7, <1>8, <1>9 DEF LogsAdjacent

(* The pointers after rb_write_mate: its check leaves less than a lap. *)
LEMMA MatePointers ==
  ASSUME BytesInv, WriteMate, Fits, NEW m \in Nat, m = Len(logs),
         Published' = m, Published = m
  PROVE  PointersCount'
  <1> USE DEF BytesInv
  <1>1. PICK j \in Nat : j = m + 1
    OBVIOUS
  <1>2. PICK n \in Nat : n = NextOffset(names[count + 1])
    BY NewLog
  <1>3. /\ n < TOTAL_SIZE /\ ValueOffset(names[count + 1]) \in Nat
        /\ ValueOffset(names[count + 1]) + names[count + 1].vlen = n
        /\ names[count + 1].vlen \in Nat
        /\ Reserved' = Reserved + n
        /\ \A i \in 1 .. j : StartOf(i)' = StartOf(i)
    BY <1>1, <1>2, MateLogs
  <1>4. /\ Reserved \in Nat /\ wr \in Int /\ rdCache \in Int
    BY LenLogs, ConstantFacts DEF LinkInv, Types, HeadTypes
  <1>5. UNCHANGED <<rwr, rdCache, rd, rdKey>> /\ Back' = Back /\ Parsed' = Parsed
    BY DEF WriteMate, tail, Back, Parsed
  <1>6. At(wr, Reserved)'
    <2>1. PICK f, v \in Nat : f = ValueOffset(names[count + 1]) /\ v = names[count + 1].vlen /\ f + v = n
      BY <1>3
    <2>2. wr' = Advance(Advance(wr, f), v)
      BY <2>1 DEF WriteMate, ValueOffset
    <2>3. PICK c, d \in Int : c = Reserved /\ d = c + f
      BY <1>4, <2>1
    <2>4. PICK p : p = Advance(wr, f)
      BY Zenon
    <2>5. p \in Int
      BY <1>4, <2>1, <2>4, ConstantFacts DEF Advance
    <2>6. At(wr, c)
      BY <2>3 DEF PointersCount
    <2>7. At(p, d)
      BY <1>4, <2>1, <2>3, <2>4, <2>6, AtAdvance
    <2>8. At(Advance(p, v), d + v)
      BY <2>1, <2>3, <2>5, <2>7, AtAdvance
    <2>9. d + v = Reserved'
      <3>1. Reserved' = c + n /\ c \in Int /\ n = f + v
        BY <1>3, <2>1, <2>3
      <3>2. d + v = c + n
        BY <1>2, <2>1, <2>3, Z3
      <3>3. QED
        BY <3>1, <3>2
    <2>10. QED
      BY <2>2, <2>4, <2>8, <2>9 DEF At
  <1>7. /\ Back + 1 \in 1 .. j /\ Parsed + 1 \in 1 .. j /\ m + 1 \in 1 .. j
        /\ Back \in Int /\ Back <= m
    <2>1. Back \in Int /\ Back + 1 \in 1 .. m + 1 /\ Parsed + 1 \in 1 .. m + 1
      BY StageFacts, QueuedFacts
    <2>2. QED
      BY <1>1, <2>1
  <1>8. At(rwr, StartOf(Published + 1))'
    <2>1. At(rwr, StartOf(m + 1))
      BY DEF PointersCount
    <2>2. StartOf(m + 1)' = StartOf(m + 1)
      BY <1>3, <1>7
    <2>3. QED
      BY <1>5, <2>1, <2>2 DEF At
  <1>9. At(rdKey, StartOf(Parsed + 1))' /\ At(rd, StartOf(Back + 1))'
    <2>1. PICK a \in 1 .. j, b \in 1 .. j : a = Parsed + 1 /\ b = Back + 1
      BY <1>7
    <2>2. At(rdKey, StartOf(a)) /\ At(rd, StartOf(b))
      BY <2>1 DEF PointersCount
    <2>3. StartOf(a)' = StartOf(a) /\ StartOf(b)' = StartOf(b)
      BY <1>3, <2>1
    <2>4. (Parsed + 1)' = a /\ (Back + 1)' = b
      BY <1>5, <2>1
    <2>5. QED
      BY <1>5, <2>2, <2>3, <2>4 DEF At
  <1>10. PICK c \in 0 .. Back : At(rdCache, StartOf(c + 1)) /\ Reserved - StartOf(c + 1) < TOTAL_SIZE
    BY DEF PointersCount
  <1>11. c \in Nat /\ c + 1 \in 1 .. j /\ StartOf(c + 1) \in Nat /\ StartOf(c + 1) <= Reserved
    <2>1. c \in Nat /\ c + 1 \in 1 .. m + 1 /\ c + 1 \in 1 .. j
      BY <1>1, <1>7
    <2>2. QED
      BY <2>1, StartFacts
  <1>12. DataSize(wr, rdCache) = Reserved - StartOf(c + 1)
    <2>1. PICK x, y \in Int : x = Reserved /\ y = StartOf(c + 1)
      BY <1>4, <1>11
    <2>2. At(wr, x) /\ At(rdCache, y)
      BY <1>10, <2>1 DEF PointersCount
    <2>3. y <= x /\ x - y < TOTAL_SIZE
      BY <1>10, <1>11, <2>1
    <2>4. 0 <= x - y
      BY <2>1, <2>3
    <2>5. QED
      BY <1>4, <2>1, <2>2, <2>3, <2>4, DataSizeIs
  <1>13. n <= TOTAL_SIZE - 1 - (Reserved - StartOf(c + 1))
    BY <1>2, <1>12 DEF Fits, FreeSize
  <1>14. Reserved' - StartOf(c + 1)' < TOTAL_SIZE
    <2>1. StartOf(c + 1)' = StartOf(c + 1)
      BY <1>3, <1>11
    <2>2. PICK x, y \in Int : x = Reserved /\ y = StartOf(c + 1)
      BY <1>4, <1>11
    <2>3. n <= TOTAL_SIZE - 1 - (x - y) /\ TOTAL_SIZE \in Int /\ n \in Int /\ x \in Int /\ y \in Int
      BY <1>2, <1>13, <2>2, ConstantFacts
    <2>4. (x + n) - y < TOTAL_SIZE
      BY <2>3, Z3
    <2>5. QED
      BY <1>3, <2>1, <2>2, <2>4
  <1>15. At(rdCache, StartOf(c + 1))'
    BY <1>3, <1>5, <1>10, <1>11 DEF At
  <1>16. \E d \in 0 .. Back' : /\ At(rdCache, StartOf(d + 1))'
                               /\ Reserved' - StartOf(d + 1)' < TOTAL_SIZE
    BY <1>5, <1>14, <1>15
  <1>17. QED
    BY <1>6, <1>8, <1>9, <1>16 DEF PointersCount

(* The calls rb_write_mate then makes. *)
LEMMA MateCalls ==
  ASSUME BytesInv, WriteMate, Fits, NEW j \in Nat, j = Len(logs) + 1
  PROVE  \E q : /\ todo'["writer"] = q /\ todo'["nic"] = todo["nic"]
                /\ MateParts(q, j, Reserved, 0, ValueOffset(logs'[j]))
  <1> USE DEF BytesInv
  <1>1. PICK n \in Nat : n = NextOffset(names[count + 1])
    BY NewLog
  <1>2. /\ n < TOTAL_SIZE /\ ValueOffset(names[count + 1]) \in Nat
        /\ ValueOffset(names[count + 1]) < n
        /\ ValueOffset(logs'[j]) = ValueOffset(names[count + 1])
    BY <1>1, MateLogs
  <1>3. PICK f \in Nat : f = ValueOffset(names[count + 1]) /\ f <= TOTAL_SIZE
    BY <1>1, <1>2, ConstantFacts
  <1>4. PICK s \in Nat, a \in 0 .. TOTAL_SIZE : s = Reserved /\ a = wr
    BY LenLogs DEF LinkInv, Types, HeadTypes
  <1>5. Place(a, s, 0)
    <2>1. At(a, s) /\ s + 0 = s
      BY <1>4 DEF PointersCount
    <2>2. QED
      BY <2>1 DEF Place
  <1>6. MateParts(Bytes(j, 0, f, a) \o Push, j, s, 0, f)
    BY <1>3, <1>4, <1>5, MatePartsOf
  <1>7. PICK q : q = Bytes(j, 0, f, a) \o Push
    BY Zenon
  <1>8. todo' = [todo EXCEPT !["writer"] = q]
    BY <1>3, <1>4, <1>7 DEF WriteMate, ValueOffset
  <1>9. todo'["writer"] = q /\ todo'["nic"] = todo["nic"]
    BY <1>8, TodoIs
  <1>10. MateParts(q, j, Reserved, 0, ValueOffset(logs'[j]))
    BY <1>2, <1>3, <1>4, <1>6, <1>7
  <1>11. QED
    BY <1>9, <1>10

(* The bytes of the new log are not written yet, those of the others are *)
(* as before.                                                             *)
LEMMA MateWritten ==
  ASSUME BytesInv, WriteMate, Fits, NEW m \in Nat, m = Len(logs), NEW j \in Nat, j = m + 1,
         Taken' = Taken
  PROVE  /\ \A k \in 1 .. m : \A o \in Offsets(k) : Written(k, o)' <=> Written(k, o)
         /\ \A o \in Nat : ~Written(j, o)'
  <1> USE DEF BytesInv
  <1>1. PICK n \in Nat : n = NextOffset(names[count + 1])
    BY NewLog
  <1>2. Len(logs') = j /\ \A i \in 1 .. m : logs'[i] = logs[i]
    BY <1>1, MateLogs
  <1>3. PICK q : /\ todo'["writer"] = q /\ todo'["nic"] = todo["nic"]
                 /\ MateParts(q, j, Reserved, 0, ValueOffset(logs'[j]))
    BY MateCalls
  <1>4. todo["writer"] = << >>
    BY DEF WriteMate, WriterReady
  <1>5. Taken \in Int /\ Taken <= m
    <2>1. Taken \in Int /\ Queued \in Int /\ Taken <= Queued /\ Queued <= m
      BY QueuedFacts, StageFacts
    <2>2. QED
      BY <2>1
  <1>6. ASSUME NEW k \in 1 .. m, NEW o \in Offsets(k)
        PROVE  Written(k, o)' <=> Written(k, o)
    <2>1. CASE o < ValueOffset(logs[k])
      <3>1. Written(k, o)
        BY <1>4, <2>1 DEF Written, Progress
      <3>2. k < Len(logs')
        BY <1>2
      <3>3. Written(k, o)'
        BY <1>2, <2>1, <3>2 DEF Written
      <3>4. QED
        BY <3>1, <3>3
    <2>2. CASE ~(o < ValueOffset(logs[k]))
      BY <1>2, <1>3, <2>2 DEF Written
    <2>3. QED
      BY <2>1, <2>2
  <1>7. ASSUME NEW o \in Nat PROVE ~Written(j, o)'
    <2>1. Progress(q, ValueOffset(logs'[j])) = 0
      BY <1>3 DEF MateParts, Progress
    <2>2. ~(o < 0) /\ ~(j < j) /\ ~(j < Taken) /\ j # Taken
      BY <1>5
    <2>3. QED
      BY <1>2, <1>3, <2>1, <2>2 DEF Written
  <1>8. QED
    BY <1>6, <1>7

LEMMA MateMem ==
  ASSUME BytesInv, WriteMate, Fits, NEW m \in Nat, m = Len(logs), Taken' = Taken, LinkInv'
  PROVE  MemOK'
  <1> USE DEF BytesInv
  <1>1. PICK j \in Nat : j = m + 1
    OBVIOUS
  <1>2. PICK n \in Nat : n = NextOffset(names[count + 1])
    BY NewLog
  <1>3. Len(logs') = j /\ \A i \in 1 .. m : logs'[i] = logs[i]
    BY <1>1, <1>2, MateLogs
  <1>4. /\ \A k \in 1 .. m : \A o \in Offsets(k) : Written(k, o)' <=> Written(k, o)
        /\ \A o \in Nat : ~Written(j, o)'
    BY <1>1, MateWritten
  <1>5. mem' = mem
    BY DEF WriteMate
  <1>6. /\ \A i \in 1 .. m : Offsets(i)' = Offsets(i)
        /\ \A i \in 1 .. m : \A o : Off(i, o)' = Off(i, o)
    BY <1>3 DEF Offsets, Off
  <1>7. ASSUME NEW p \in 0 .. TOTAL_SIZE - 1, mem[p] # Zero
        PROVE  /\ Count(mem[p])' = Count(mem[p])
               /\ (/\ mem[p][1] \in 1 .. Len(logs)
                   /\ mem[p][2] \in Offsets(mem[p][1])
                   /\ At(p, Count(mem[p]))
                   /\ Written(mem[p][1], mem[p][2]))'
    <2>1. PICK c : c = mem[p]
      OBVIOUS
    <2>2. c[1] \in 1 .. m /\ c[2] \in Offsets(c[1]) /\ At(p, Count(c)) /\ Written(c[1], c[2])
      BY <1>7, <2>1 DEF MemOK
    <2>3. Count(c)' = Count(c)
      BY <1>6, <2>2 DEF Count
    <2>4. At(p, Count(c))' /\ Written(c[1], c[2])' /\ c[2] \in Offsets(c[1])'
      BY <1>4, <1>6, <2>2, <2>3 DEF At
    <2>5. c[1] \in 1 .. Len(logs')
      BY <1>1, <1>3, <2>2
    <2>6. mem'[p] = c
      BY <1>5, <2>1
    <2>7. QED
      BY <2>1, <2>3, <2>4, <2>5, <2>6
  <1>8. ASSUME NEW k \in 1 .. Len(logs'), NEW o \in Offsets(k)', NEW p \in 0 .. TOTAL_SIZE - 1,
               Written(k, o)', At(p, Off(k, o))'
        PROVE  mem[p] # Zero /\ Count(mem[p])' >= Off(k, o)'
    <2>1. CASE k = j
      <3>1. NextOffset(logs'[k]) = n
        BY <1>1, <1>2, <2>1, MateLogs
      <3>2. o \in Nat
        BY <1>2, <1>8, <3>1 DEF Offsets
      <3>3. QED
        BY <1>4, <1>8, <2>1, <3>2
    <2>2. CASE k \in 1 .. m
      <3>1. o \in Offsets(k) /\ Written(k, o) /\ At(p, Off(k, o)) /\ Off(k, o)' = Off(k, o)
        BY <1>4, <1>6, <1>8, <2>2 DEF At
      <3>2. mem[p] # Zero /\ Count(mem[p]) >= Off(k, o)
        BY <2>2, <3>1 DEF MemOK
      <3>3. QED
        BY <1>5, <1>7, <3>1, <3>2
    <2>3. QED
      BY <1>1, <1>3, <2>1, <2>2
  <1>9. QED
    BY <1>5, <1>7, <1>8 DEF MemOK

LEMMA WriteMateBytes ==
  ASSUME BytesInv, LinkInv', WriteMate
  PROVE  BytesInv'
  <1> USE DEF BytesInv
  <1>1. CASE ~Fits
    BY <1>1, NoRoomBytes
  <1>2. CASE Fits
    <2>1. PICK m \in Nat, j \in Nat : m = Len(logs) /\ j = m + 1
      <3>1. Len(logs) \in Nat
        BY LenLogs
      <3>2. QED
        BY <3>1
    <2>2. PICK n \in Nat : n = NextOffset(names[count + 1])
      BY <1>2, NewLog
    <2>3. /\ Len(logs') = j /\ \A i \in 1 .. Len(logs) : logs'[i] = logs[i]
          /\ logs'[j].start = Reserved
      BY <1>2, <2>1, <2>2, MateLogs
    <2>4. PICK q : /\ todo'["writer"] = q /\ todo'["nic"] = todo["nic"]
                   /\ MateParts(q, j, Reserved, 0, ValueOffset(logs'[j]))
      BY <1>2, <2>1, MateCalls
    <2>5. /\ todo["writer"] = << >> /\ wpc = "mate" /\ wpc' = "put" /\ sending' = sending
          /\ UNCHANGED tail
      BY <1>2 DEF WriteMate, WriterReady
    <2>6. Published = m /\ Published' = m
      <3>1. \E o \in Range(q) : o.op = "wr"
        BY <2>4 DEF MateParts
      <3>2. ~\E o \in Range(todo["writer"]) : o.op = "wr"
        BY <2>5, WriterIdle
      <3>3. j - 1 = m
        BY <2>1
      <3>4. QED
        BY <2>1, <2>3, <2>4, <3>1, <3>2, <3>3 DEF Published
    <2>7. Queued = m /\ Queued' = m
      <3>1. j - 1 = m
        BY <2>1
      <3>2. QED
        BY <2>1, <2>3, <2>5, <3>1 DEF Queued
    <2>8. SendOK' /\ Taken' = Taken
      BY <2>4, <2>5, <2>7, SendStays
    <2>9. LogsAdjacent' /\ PointersCount' /\ MemOK'
      BY <1>2, <2>1, <2>6, <2>8, MateAdjacent, MatePointers, MateMem
    <2>10. EntriesOK' /\ ValuesDelivered' /\ Back' = Back /\ Parsed' = Parsed
      <3>1. Len(logs') \in Nat /\ Len(logs') >= Len(logs)
        BY <2>1, <2>3
      <3>2. QED
        BY <2>3, <2>5, <3>1, EntriesStay
    <2>11. StagesOrdered'
      <3>1. Arrived' = Arrived
        BY <2>4, <2>8 DEF Arrived
      <3>2. QED
        BY <2>5, <2>6, <2>8, <2>10, <3>1 DEF StagesOrdered, tail
    <2>12. WriterOK'
      <3>1. Len(logs') > 0
        BY <2>1, <2>3
      <3>2. Follows(q, j, logs'[j].start, ValueOffset(logs'[j]))
        BY <2>3, <2>4 DEF MateParts
      <3>3. \A k \in DOMAIN q : q[k].op = IF k < Len(q) THEN "bytes" ELSE "wr"
        BY <2>4 DEF MateParts
      <3>4. QED
        BY <2>3, <2>4, <2>5, <3>1, <3>2, <3>3 DEF WriterOK
    <2>13. NicOK'
      <3>1. CASE todo["nic"] = << >>
        BY <2>4, <3>1 DEF NicOK
      <3>2. CASE todo["nic"] # << >>
        <4>1. Taken \in 1 .. Len(logs)
          <5>1. /\ Taken \in Int /\ Queued \in Int /\ Taken <= Queued /\ Queued <= Len(logs)
                /\ Taken >= 1
            BY <3>2, QueuedFacts, StageFacts DEF StagesOrdered, SendOK
          <5>2. QED
            BY <2>1, <5>1
        <4>2. logs'[Taken] = logs[Taken]
          BY <2>3, <4>1
        <4>3. QED
          BY <2>4, <2>8, <4>2, NicStays DEF WritesOK
      <3>3. QED
        BY <3>1, <3>2
    <2>14. QED
      BY <2>9, <2>10, <2>11, <2>12, <2>13 DEF WritesOK
  <1>3. QED
    BY <1>1, <1>2

----------------------------------------------------------------------------
(* One more byte of a write. *)

(* The calls r are left when one byte of the first of the calls q is done. *)
Goes(q, r, o, i, s, g) ==
  /\ Follows(r, i, s, g)
  /\ Progress(r, g) = IF o.n = 0 THEN o.from ELSE o.from + 1
  /\ \A k \in DOMAIN r : \E l \in DOMAIN q :
       /\ r[k].op = q[l].op /\ (k < Len(r) <=> l < Len(q))
       /\ q[l].op = "bytes" /\ q[l].n > 0 => r[k].from >= q[l].from /\ r[k].n > 0
  /\ (\E l \in DOMAIN q : q[l].op = "wr") => \E k \in DOMAIN r : r[k].op = "wr"

LEMMA TailGoes ==
  ASSUME NEW q \in Seq(Ops), q # << >>, NEW o \in ByteOps, o = q[1], o.n <= 1,
         NEW i, NEW s \in Int, NEW g \in Nat, Follows(q, i, s, g)
  PROVE  Goes(q, Tail(q), o, i, s, g)
  <1>1. PICK r \in Seq(Ops) : r = Tail(q)
    BY HeadTailProperties
  <1>2. /\ Len(q) \in Nat /\ Len(r) = Len(q) - 1 /\ DOMAIN r = 1 .. Len(r)
        /\ DOMAIN q = 1 .. Len(q) /\ 1 \in DOMAIN q
        /\ \A k \in 1 .. Len(r) : k + 1 \in DOMAIN q /\ r[k] = q[k + 1] /\ k \in Nat
    BY <1>1
  <1>3. o.op = "bytes" /\ o.n \in Nat /\ o.from \in Nat
    BY DEF ByteOps
  <1>4. \A k \in DOMAIN r : (k < Len(r) <=> k + 1 < Len(q))
    BY <1>2
  <1>5. Follows(r, i, s, g)
    <2> SUFFICES ASSUME NEW k \in DOMAIN r, r[k].op = "bytes"
                 PROVE  /\ Part(r[k], i, s)
                        /\ r[k].from + r[k].n <= g
                        /\ r[k].from + r[k].n =
                             IF k < Len(r) /\ r[k + 1].op = "bytes" THEN r[k + 1].from ELSE g
      BY DEF Follows
    <2>1. PICK l \in DOMAIN q : l = k + 1 /\ r[k] = q[l] /\ q[l].op = "bytes"
      BY <1>2
    <2>2. /\ Part(q[l], i, s)
          /\ q[l].from + q[l].n <= g
          /\ q[l].from + q[l].n =
               IF l < Len(q) /\ q[l + 1].op = "bytes" THEN q[l + 1].from ELSE g
      BY <2>1 DEF Follows
    <2>3. k < Len(r) <=> l < Len(q)
      BY <1>4, <2>1
    <2>4. k < Len(r) => r[k + 1] = q[l + 1]
      BY <1>2, <2>1
    <2>5. QED
      BY <2>1, <2>2, <2>3, <2>4
  <1>6. Progress(r, g) = IF o.n = 0 THEN o.from ELSE o.from + 1
    <2>1. o.from + o.n = IF 1 < Len(q) /\ q[1 + 1].op = "bytes" THEN q[1 + 1].from ELSE g
      BY <1>2, <1>3 DEF Follows
    <2>2. r # << >> <=> 1 < Len(q)
      <3>1. r \in Seq(Ops)
        BY <1>1
      <3>2. (r = << >> <=> Len(r) = 0) /\ Len(r) \in Nat
        BY <3>1, EmptySeq
      <3>3. PICK m \in Nat, l \in Nat : m = Len(q) /\ l = Len(r)
        BY <1>2, <3>2
      <3>4. l = m - 1
        BY <1>2, <3>3
      <3>5. l # 0 <=> 1 < m
        BY <3>4
      <3>6. QED
        BY <3>2, <3>3, <3>5
    <2>3. r # << >> => r[1] = q[1 + 1]
      BY <1>1, <1>2
    <2>4. Progress(r, g) = o.from + o.n
      BY <2>1, <2>2, <2>3 DEF Progress
    <2>5. o.n = 0 \/ o.n = 1
      BY <1>3
    <2>6. o.from + 0 = o.from
      BY <1>3
    <2>7. QED
      BY <2>4, <2>5, <2>6
  <1>7. ASSUME NEW k \in DOMAIN r
        PROVE  \E l \in DOMAIN q :
                 /\ r[k].op = q[l].op /\ (k < Len(r) <=> l < Len(q))
                 /\ q[l].op = "bytes" /\ q[l].n > 0 => r[k].from >= q[l].from /\ r[k].n > 0
    <2>1. PICK l \in DOMAIN q : l = k + 1 /\ r[k] = q[l]
      BY <1>2
    <2>2. q[l].op = "bytes" => q[l].from \in Nat
      <3>1. q[l] \in Ops
        BY <2>1
      <3>2. QED
        BY <3>1 DEF Ops, ByteOps
    <2>3. q[l].op = "bytes" => q[l].from >= q[l].from
      BY <2>2
    <2>4. QED
      BY <1>4, <2>1, <2>3
  <1>8. ASSUME NEW l \in DOMAIN q, q[l].op = "wr"
        PROVE  \E k \in DOMAIN r : r[k].op = "wr"
    <2>1. l # 1 /\ l \in 1 .. Len(q)
      BY <1>2, <1>3, <1>8
    <2>2. PICK k \in Int : k + 1 = l
      BY <2>1
    <2>3. k \in DOMAIN r
      BY <1>2, <2>1, <2>2
    <2>4. r[k] = q[l]
      BY <1>2, <2>2, <2>3
    <2>5. QED
      BY <1>8, <2>3, <2>4
  <1>9. QED
    BY <1>1, <1>5, <1>6, <1>7, <1>8 DEF Goes

LEMMA FurtherGoes ==
  ASSUME NEW q \in Seq(Ops), q # << >>, NEW o \in ByteOps, o = q[1], o.n > 1,
         NEW i, NEW s \in Int, NEW g \in Nat, Follows(q, i, s, g)
  PROVE  Goes(q, [q EXCEPT ![1] = Further(o)], o, i, s, g)
  <1>1. PICK r : r = [q EXCEPT ![1] = Further(o)]
    OBVIOUS
  <1>2. PICK u \in ByteOps :
          /\ u = Further(o) /\ u.op = "bytes" /\ u.log = o.log
          /\ u.from = o.from + 1 /\ u.at = o.at + 1 /\ u.n = o.n - 1
    BY FurtherTypes
  <1>3. /\ o.op = "bytes" /\ o.n \in Nat /\ o.from \in Nat /\ o.at \in Nat
    BY DEF ByteOps
  <1>4. /\ Len(q) \in Nat /\ DOMAIN q = 1 .. Len(q) /\ 1 \in DOMAIN q
        /\ r \in Seq(Ops) /\ Len(r) = Len(q) /\ DOMAIN r = DOMAIN q /\ r[1] = u
        /\ \A k \in DOMAIN q : k # 1 => r[k] = q[k]
    <2>1. u \in Ops
      BY <1>2 DEF Ops
    <2>2. QED
      BY <1>1, <1>2, <2>1
  <1>5. /\ Part(o, i, s) /\ o.from + o.n <= g
        /\ o.from + o.n = IF 1 < Len(q) /\ q[1 + 1].op = "bytes" THEN q[1 + 1].from ELSE g
    BY <1>3, <1>4 DEF Follows
  <1>6. Part(u, i, s) /\ u.from + u.n = o.from + o.n
    <2>1. PICK a \in Int, c \in Int : a = o.at /\ c = s + o.from
      BY <1>3
    <2>2. At(a, c)
      BY <1>5, <2>1 DEF Part, Place
    <2>3. At(a + 1, c + 1)
      <3>1. a \in Int /\ c \in Int /\ 1 \in Int
        BY <2>1
      <3>2. QED
        BY <2>2, <3>1, AtPlus, Zenon
    <2>4. a + 1 = u.at /\ c + 1 = s + u.from
      BY <1>2, <1>3, <2>1
    <2>5. Place(u.at, s, u.from)
      BY <2>3, <2>4 DEF Place
    <2>6. u.at + u.n = o.at + o.n /\ u.from + u.n = o.from + o.n
      <3>1. \A x, y \in Int : (x + 1) + (y - 1) = x + y
        OBVIOUS
      <3>2. o.at \in Int /\ o.n \in Int /\ o.from \in Int
        BY <1>3
      <3>3. /\ (o.at + 1) + (o.n - 1) = o.at + o.n
            /\ (o.from + 1) + (o.n - 1) = o.from + o.n
        BY <3>1, <3>2, Zenon
      <3>4. u.at = o.at + 1 /\ u.n = o.n - 1 /\ u.from = o.from + 1
        BY <1>2
      <3>5. QED
        BY <3>3, <3>4, Zenon
    <2>7. QED
      BY <1>2, <1>5, <2>5, <2>6 DEF Part
  <1>7. Follows(r, i, s, g)
    <2> SUFFICES ASSUME NEW k \in DOMAIN r, r[k].op = "bytes"
                 PROVE  /\ Part(r[k], i, s)
                        /\ r[k].from + r[k].n <= g
                        /\ r[k].from + r[k].n =
                             IF k < Len(r) /\ r[k + 1].op = "bytes" THEN r[k + 1].from ELSE g
      BY DEF Follows
    <2>1. k < Len(r) => r[k + 1] = q[k + 1]
      BY <1>4
    <2>2. CASE k = 1
      BY <1>4, <1>5, <1>6, <2>1, <2>2
    <2>3. CASE k # 1
      <3>1. k \in DOMAIN q /\ r[k] = q[k]
        BY <1>4, <2>3
      <3>2. QED
        BY <1>4, <2>1, <3>1 DEF Follows
    <2>4. QED
      BY <2>2, <2>3
  <1>8. Progress(r, g) = IF o.n = 0 THEN o.from ELSE o.from + 1
    <2>1. r # << >> /\ o.n # 0
      BY <1>3, <1>4
    <2>2. QED
      BY <1>2, <1>4, <2>1 DEF Progress
  <1>9. ASSUME NEW k \in DOMAIN r
        PROVE  \E l \in DOMAIN q :
                 /\ r[k].op = q[l].op /\ (k < Len(r) <=> l < Len(q))
                 /\ q[l].op = "bytes" /\ q[l].n > 0 => r[k].from >= q[l].from /\ r[k].n > 0
    <2>1. CASE k = 1
      <3>1. u.from >= o.from /\ u.n > 0
        BY <1>2, <1>3
      <3>2. QED
        BY <1>2, <1>3, <1>4, <2>1, <3>1
    <2>2. CASE k # 1
      <3>1. k \in DOMAIN q /\ r[k] = q[k]
        BY <1>4, <2>2
      <3>2. q[k].op = "bytes" => q[k].from \in Nat
        <4>1. q[k] \in Ops
          BY <3>1
        <4>2. QED
          BY <4>1 DEF Ops, ByteOps
      <3>3. q[k].op = "bytes" => q[k].from >= q[k].from
        BY <3>2
      <3>4. QED
        BY <1>4, <3>1, <3>3
    <2>3. QED
      BY <2>1, <2>2
  <1>10. ASSUME NEW l \in DOMAIN q, q[l].op = "wr"
         PROVE  \E k \in DOMAIN r : r[k].op = "wr"
    <2>1. l # 1
      BY <1>3, <1>10
    <2>2. QED
      BY <1>4, <1>10, <2>1
  <1>11. Goes(q, r, o, i, s, g)
    BY <1>7, <1>8, <1>9, <1>10, Zenon DEF Goes
  <1>12. QED
    BY <1>1, <1>11, Zenon

LEMMA LandCalls ==
  ASSUME LinkInv, NEW t \in Threads, NEW o \in ByteOps, todo[t] # << >>, o = todo[t][1],
         \/ o.n <= 1 /\ Done(t)
         \/ o.n > 1 /\ todo' = [todo EXCEPT ![t] = [@ EXCEPT ![1] = Further(o)]],
         NEW i, NEW s \in Int, NEW g \in Nat, Follows(todo[t], i, s, g)
  PROVE  \E q, r : /\ q = todo[t] /\ r = todo'[t] /\ q \in Seq(Ops) /\ r \in Seq(Ops)
                   /\ Goes(q, r, o, i, s, g)
                   /\ \A u \in Threads : u # t => todo'[u] = todo[u]
  <1>1. todo \in [Threads -> Seq(Ops)]
    BY DEF LinkInv, Types, WorkTypes
  <1>2. PICK q \in Seq(Ops) : q = todo[t]
    BY <1>1
  <1>3. q # << >> /\ o = q[1] /\ Follows(q, i, s, g)
    BY <1>2
  <1>4. CASE o.n <= 1 /\ Done(t)
    <2>1. PICK r \in Seq(Ops) : r = Tail(q)
      BY <1>3, HeadTailProperties
    <2>2. Goes(q, r, o, i, s, g)
      BY <1>3, <1>4, <2>1, TailGoes
    <2>3. todo' = [todo EXCEPT ![t] = r]
      BY <1>2, <1>4, <2>1 DEF Done
    <2>4. QED
      BY <1>1, <1>2, <2>1, <2>2, <2>3
  <1>5. CASE o.n > 1 /\ todo' = [todo EXCEPT ![t] = [@ EXCEPT ![1] = Further(o)]]
    <2>1. PICK r : r = [q EXCEPT ![1] = Further(o)]
      BY Zenon
    <2>2. Goes(q, r, o, i, s, g)
      BY <1>3, <1>5, <2>1, FurtherGoes
    <2>3. r \in Seq(Ops)
      <3>1. Further(o) \in Ops
        BY <1>5, FurtherTypes DEF Ops
      <3>2. q \in Seq(Ops) /\ q # << >>
        BY <1>2, <1>3
      <3>3. QED
        BY <2>1, <3>1, <3>2
    <2>4. todo' = [todo EXCEPT ![t] = r]
      BY <1>2, <1>5, <2>1
    <2>5. QED
      BY <1>1, <1>2, <2>2, <2>3, <2>4
  <1>6. QED
    BY <1>4, <1>5

(* A byte that lands becomes the last one written to its place. *)
LEMMA MemLands ==
  ASSUME LinkInv, LogsAdjacent, PointersCount, StagesOrdered, MemOK, logs' = logs,
         NEW i \in 1 .. Len(logs), i > Back, NEW f \in Offsets(i),
         NEW a \in 0 .. TOTAL_SIZE - 1, At(a, Off(i, f)),
         mem' = [mem EXCEPT ![a] = <<i, f>>],
         \A k \in 1 .. Len(logs) : \A o \in Offsets(k) :
           Written(k, o)' <=> Written(k, o) \/ (k = i /\ o = f)
  PROVE  MemOK'
  <1>1. /\ \A k : Offsets(k)' = Offsets(k)
        /\ \A k, o : Off(k, o)' = Off(k, o)
    BY SameLogs
  <1>2. \A c : Count(c)' = Count(c)
    BY <1>1 DEF Count
  <1>3. \A p, c : At(p, c)' <=> At(p, c)
    BY DEF At
  <1>4. PICK c : c = <<i, f>>
    BY Zenon
  <1>5. c[1] = i /\ c[2] = f /\ c # Zero /\ Count(c) = Off(i, f)
    BY <1>4 DEF Count, Zero
  <1>6. \A p \in 0 .. TOTAL_SIZE - 1 : mem'[p] = IF p = a THEN c ELSE mem[p]
    BY <1>4 DEF LinkInv, Types, MemTypes
  <1>7. ASSUME NEW p \in 0 .. TOTAL_SIZE - 1, mem'[p] # Zero
        PROVE  (/\ mem[p][1] \in 1 .. Len(logs) /\ mem[p][2] \in Offsets(mem[p][1])
                /\ At(p, Count(mem[p])) /\ Written(mem[p][1], mem[p][2]))'
    <2>1. PICK d : d = mem'[p]
      BY Zenon
    <2>2. /\ d[1] \in 1 .. Len(logs) /\ d[2] \in Offsets(d[1]) /\ At(p, Count(d))
          /\ Written(d[1], d[2])'
      <3>1. CASE p = a
        <4>1. d = c
          BY <1>6, <2>1, <3>1
        <4>2. QED
          BY <1>5, <3>1, <4>1
      <3>2. CASE p # a
        <4>1. d = mem[p] /\ d # Zero
          BY <1>6, <1>7, <2>1, <3>2
        <4>2. /\ d[1] \in 1 .. Len(logs) /\ d[2] \in Offsets(d[1]) /\ At(p, Count(d))
              /\ Written(d[1], d[2])
          BY <4>1 DEF MemOK
        <4>3. QED
          BY <4>2
      <3>3. QED
        BY <3>1, <3>2
    <2>3. QED
      BY <1>1, <1>2, <1>3, <2>1, <2>2
  <1>8. ASSUME NEW k \in 1 .. Len(logs), NEW o \in Offsets(k), NEW p \in 0 .. TOTAL_SIZE - 1,
               Written(k, o)', At(p, Off(k, o))
        PROVE  mem'[p] # Zero /\ Count(mem'[p]) >= Off(k, o)
    <2>1. PICK x \in Int, y \in Int : x = Off(k, o) /\ y = Off(i, f)
      BY OffFacts
    <2>2. CASE p = a
      <3>1. CASE x >= y
        <4>1. k = i /\ o = f
          BY <1>8, <2>1, <2>2, <3>1, LiveApart
        <4>2. Count(c) = Off(k, o) /\ Off(k, o) >= Off(k, o)
          BY <1>5, <2>1, <4>1
        <4>3. QED
          BY <1>5, <1>6, <2>2, <4>2
      <3>2. CASE y >= x
        BY <1>5, <1>6, <2>1, <2>2, <3>2
      <3>3. QED
        BY <2>1, <3>1, <3>2
    <2>3. CASE p # a
      <3>1. ~(k = i /\ o = f)
        <4>1. ASSUME k = i, o = f PROVE FALSE
          <5>1. At(p, y) /\ At(a, y)
            BY <1>8, <2>1, <4>1
          <5>2. p = a
            BY <2>1, <5>1, AtOnce
          <5>3. QED
            BY <2>3, <5>2
        <4>2. QED
          BY <4>1
      <3>2. Written(k, o)
        BY <1>8, <3>1
      <3>3. mem[p] # Zero /\ Count(mem[p]) >= Off(k, o)
        BY <1>8, <3>2 DEF MemOK
      <3>4. QED
        BY <1>6, <2>3, <3>3
    <2>4. QED
      BY <2>2, <2>3
  <1>9. QED
    BY <1>1, <1>2, <1>3, <1>7, <1>8 DEF MemOK

(* What a byte that lands leaves alone. *)
LEMMA LandFrame ==
  ASSUME BytesInv, LinkInv', UNCHANGED <<wr, rdCache, logs, sending, rwr, tail>>,
         Queued' = Queued, Published' = Published, WritesOK', MemOK', Arrived <= Arrived',
         todo'["nic"] # << >> => todo["nic"] # << >>
  PROVE  BytesInv'
  <1> USE DEF BytesInv
  <1>1. LogsAdjacent' /\ Reserved' = Reserved /\ \A i : StartOf(i)' = StartOf(i)
    BY SameLogs
  <1>2. EntriesOK' /\ ValuesDelivered' /\ Back' = Back /\ Parsed' = Parsed
    <2>1. Len(logs') \in Nat /\ Len(logs') >= Len(logs) /\ \A i \in 1 .. Len(logs) : logs'[i] = logs[i]
      BY LenLogs
    <2>2. QED
      BY <2>1, EntriesStay
  <1>3. PointersCount'
    BY <1>1, <1>2 DEF PointersCount, At, tail
  <1>4. Taken' = Taken
    BY DEF Taken
  <1>5. StagesOrdered'
    <2>1. Len(executed) + Len(executing) <= Arrived'
      <3>1. /\ Len(executed) \in Nat /\ Len(executing) \in Nat /\ Arrived \in Int
            /\ Len(executed) + Len(executing) <= Arrived
        BY QueueFacts, QueuedFacts, StageFacts
      <3>2. Arrived' \in Int
        <4>1. Taken' \in Int
          BY <1>4, QueuedFacts
        <4>2. QED
          BY <4>1 DEF Arrived
      <3>3. QED
        BY <3>1, <3>2
    <2>2. SendOK'
      BY <1>4 DEF StagesOrdered, SendOK
    <2>3. QED
      BY <1>2, <2>1, <2>2 DEF StagesOrdered, tail
  <1>6. QED
    BY <1>1, <1>2, <1>3, <1>5

(* The place of the byte that lands. *)
LEMMA LandPlace ==
  ASSUME LinkInv, LogsAdjacent, NEW i \in 1 .. Len(logs), NEW o \in ByteOps, NEW g \in Nat,
         Part(o, i, logs[i].start), o.from + o.n <= g, g <= NextOffset(logs[i]), o.n # 0
  PROVE  /\ o.from \in Offsets(i) /\ o.from < g /\ o.at \in 0 .. TOTAL_SIZE - 1
         /\ At(o.at, Off(i, o.from)) /\ o.log = i
  <1>1. o.from \in Nat /\ o.n \in Nat /\ o.at \in Nat
    BY DEF ByteOps
  <1>2. o.n > 0
    BY <1>1
  <1>3. NextOffset(logs[i]) \in Nat
    BY LogFacts
  <1>4. o.from < g
    BY <1>1, <1>2
  <1>5. o.from \in Offsets(i)
    BY <1>1, <1>3, <1>4 DEF Offsets
  <1>6. o.at \in 0 .. TOTAL_SIZE - 1
    BY <1>1, <1>2, ConstantFacts DEF Part
  <1>7. QED
    BY <1>4, <1>5, <1>6 DEF Part, Place, Off

(* A byte of metadata or key lands. *)
LEMMA LandWriter ==
  ASSUME BytesInv, LinkInv', NEW o \in ByteOps, todo["writer"] # << >>, o = todo["writer"][1],
         mem' = IF o.n = 0 THEN mem ELSE [mem EXCEPT ![o.at] = <<o.log, o.from>>],
         \/ o.n <= 1 /\ Done("writer")
         \/ o.n > 1 /\ todo' = [todo EXCEPT !["writer"] = [@ EXCEPT ![1] = Further(o)]],
         wpc' \in {wpc, "crash"}, UNCHANGED <<wr, rdCache, logs, sending, rwr, tail>>
  PROVE  BytesInv'
  <1> USE DEF BytesInv
  <1>1. o.op = "bytes" /\ o.from \in Nat /\ o.n \in Nat
    BY DEF ByteOps
  <1>2. wpc \in {"put", "crash"} /\ wpc' \in {"put", "crash"}
    <2>1. Fetch[1].op = "rd"
      BY DEF Fetch
    <2>2. QED
      BY <1>1, <2>1 DEF WritesOK, WriterOK
  <1>3. /\ Len(logs) > 0
        /\ Follows(todo["writer"], Len(logs), logs[Len(logs)].start, ValueOffset(logs[Len(logs)]))
        /\ \A k \in DOMAIN todo["writer"] :
             todo["writer"][k].op = IF k < Len(todo["writer"]) THEN "bytes" ELSE "wr"
    BY <1>2 DEF WritesOK, WriterOK
  <1>4. PICK i \in 1 .. Len(logs) : i = Len(logs)
    <2>1. Len(logs) \in 1 .. Len(logs)
      BY <1>3, LenLogs
    <2>2. QED
      BY <2>1
  <1>5. PICK s, g \in Nat : s = logs[i].start /\ g = ValueOffset(logs[i]) /\ g <= NextOffset(logs[i])
    <2>1. /\ logs[i].start \in Nat /\ ValueOffset(logs[i]) \in Nat /\ NextOffset(logs[i]) \in Nat
          /\ logs[i].vlen \in Nat /\ NextOffset(logs[i]) = ValueOffset(logs[i]) + logs[i].vlen
      BY LogFacts
    <2>2. ValueOffset(logs[i]) <= NextOffset(logs[i])
      BY <2>1
    <2>3. QED
      BY <2>1, <2>2
  <1>6. s \in Int /\ Follows(todo["writer"], i, s, g) /\ "writer" \in Threads
    BY <1>3, <1>4, <1>5 DEF Threads
  <1>7. PICK q, r : /\ q = todo["writer"] /\ r = todo'["writer"]
                    /\ q \in Seq(Ops) /\ r \in Seq(Ops)
                    /\ Goes(q, r, o, i, s, g)
                    /\ \A u \in Threads : u # "writer" => todo'[u] = todo[u]
    BY <1>5, <1>6, LandCalls
  <1>8. todo'["nic"] = todo["nic"]
    BY <1>7 DEF Threads
  <1>9. /\ 1 \in DOMAIN q /\ Part(o, i, s) /\ o.from + o.n <= g
    <2>1. 1 \in DOMAIN q /\ q[1] = o
      BY <1>7
    <2>2. QED
      BY <1>1, <1>6, <1>7, <2>1 DEF Follows
  <1>10. Queued' = Queued /\ Taken' = Taken
    BY <1>2 DEF Queued, Taken
  <1>11. Published' = Published
    <2>1. \E l \in DOMAIN q : q[l].op = "wr"
      <3>1. Len(q) \in DOMAIN q /\ ~(Len(q) < Len(q))
        BY <1>7, <1>9
      <3>2. QED
        BY <1>3, <1>7, <3>1
    <2>2. \E l \in DOMAIN r : r[l].op = "wr"
      BY <1>7, <2>1 DEF Goes
    <2>3. (\E x \in Range(q) : x.op = "wr") /\ \E x \in Range(r) : x.op = "wr"
      BY <2>1, <2>2 DEF Range
    <2>4. QED
      BY <1>7, <2>3 DEF Published
  <1>12. WritesOK'
    <2>1. NicOK'
      BY <1>8, <1>10, NicStays DEF WritesOK
    <2>2. Follows(r, Len(logs), logs[Len(logs)].start, ValueOffset(logs[Len(logs)]))
      BY <1>4, <1>5, <1>7 DEF Goes
    <2>3. \A k \in DOMAIN r : r[k].op = IF k < Len(r) THEN "bytes" ELSE "wr"
      BY <1>3, <1>7 DEF Goes
    <2>4. WriterOK'
      BY <1>2, <1>3, <1>7, <2>2, <2>3 DEF WriterOK, ValueOffset
    <2>5. QED
      BY <2>1, <2>4 DEF WritesOK
  <1>13. /\ Progress(q, g) = o.from
         /\ Progress(r, g) = IF o.n = 0 THEN o.from ELSE o.from + 1
    BY <1>1, <1>7 DEF Goes, Progress
  <1>14. ASSUME NEW k \in 1 .. Len(logs), NEW x \in Offsets(k)
         PROVE  Written(k, x)' <=> Written(k, x) \/ (o.n # 0 /\ k = i /\ x = o.from)
    <2>1. x \in Nat
      BY OffFacts
    <2>2. CASE k = i /\ x < ValueOffset(logs[k])
      <3>1. Written(k, x) <=> x < Progress(q, g)
        <4>1. ~(k < Len(logs))
          BY <1>4, <2>2, LenLogs
        <4>2. QED
          BY <1>5, <1>7, <2>2, <4>1 DEF Written
      <3>2. Written(k, x)' <=> x < Progress(r, g)
        <4>1. ~(k < Len(logs))
          BY <1>4, <2>2, LenLogs
        <4>2. QED
          BY <1>5, <1>7, <2>2, <4>1 DEF Written, ValueOffset
      <3>3. x < o.from + 1 <=> x < o.from \/ x = o.from
        BY <1>1, <2>1
      <3>4. QED
        BY <1>13, <2>2, <3>1, <3>2, <3>3
    <2>3. CASE k # i /\ x < ValueOffset(logs[k])
      <3>1. k < Len(logs)
        BY <1>4, <2>3, LenLogs
      <3>2. QED
        BY <2>3, <3>1 DEF Written, ValueOffset
    <2>4. CASE ~(x < ValueOffset(logs[k]))
      <3>1. o.n # 0 /\ k = i => x # o.from
        <4>1. o.n # 0 => o.from < g
          BY <1>1, <1>9
        <4>2. QED
          BY <1>5, <2>4, <4>1
      <3>2. Written(k, x)' <=> Written(k, x)
        BY <1>8, <1>10, <2>4 DEF Written, ValueOffset, NextOffset
      <3>3. QED
        BY <3>1, <3>2
    <2>5. QED
      BY <2>2, <2>3, <2>4
  <1>15. MemOK'
    <2>1. CASE o.n = 0
      BY <1>14, <2>1, MemStays
    <2>2. CASE o.n # 0
      <3>1. /\ o.from \in Offsets(i) /\ o.at \in 0 .. TOTAL_SIZE - 1
            /\ At(o.at, Off(i, o.from)) /\ o.log = i
        BY <1>5, <1>9, <2>2, LandPlace
      <3>2. i > Back
        <4>1. /\ Back <= Len(executed) /\ Len(executed) + Len(executing) <= Arrived
              /\ Arrived <= Taken /\ Taken <= Queued /\ Len(executed) \in Nat
              /\ Len(executing) \in Nat /\ Arrived \in Int /\ Taken \in Int /\ Queued \in Int
              /\ Back \in Int /\ Len(logs) \in Nat
          BY StageFacts, QueueFacts, QueuedFacts, LenLogs
        <4>2. Queued = Len(logs) - 1
          BY <1>2 DEF Queued
        <4>3. QED
          BY <1>4, <4>1, <4>2
      <3>3. PICK f \in Offsets(i), a \in 0 .. TOTAL_SIZE - 1 : f = o.from /\ a = o.at
        BY <3>1
      <3>4. At(a, Off(i, f)) /\ mem' = [mem EXCEPT ![a] = <<i, f>>]
        BY <2>2, <3>1, <3>3
      <3>5. \A k \in 1 .. Len(logs) : \A x \in Offsets(k) :
              Written(k, x)' <=> Written(k, x) \/ (k = i /\ x = f)
        BY <1>14, <2>2, <3>3
      <3>6. QED
        BY <3>2, <3>4, <3>5, MemLands
    <2>3. QED
      BY <2>1, <2>2
  <1>16. Arrived <= Arrived'
    <2>1. Arrived' = Arrived /\ Arrived \in Int
      BY <1>8, <1>10, QueuedFacts DEF Arrived
    <2>2. QED
      BY <2>1
  <1>17. QED
    BY <1>8, <1>10, <1>11, <1>12, <1>15, <1>16, LandFrame

(* A byte of a value lands. *)
LEMMA LandNic ==
  ASSUME BytesInv, LinkInv', NEW o \in ByteOps, todo["nic"] # << >>, o = todo["nic"][1],
         mem' = IF o.n = 0 THEN mem ELSE [mem EXCEPT ![o.at] = <<o.log, o.from>>],
         \/ o.n <= 1 /\ Done("nic")
         \/ o.n > 1 /\ todo' = [todo EXCEPT !["nic"] = [@ EXCEPT ![1] = Further(o)]],
         o.n # 0 => wpc' = wpc, UNCHANGED <<wr, rdCache, logs, sending, rwr, tail>>
  PROVE  BytesInv'
  <1> USE DEF BytesInv
  <1>1. o.op = "bytes" /\ o.from \in Nat /\ o.n \in Nat
    BY DEF ByteOps
  <1>2. PICK i \in 1 .. Len(logs) : i = Taken
    <2>1. /\ Taken \in Int /\ Queued \in Int /\ Taken <= Queued /\ Queued <= Len(logs)
          /\ Taken >= 1 /\ Len(logs) \in Nat
      BY QueuedFacts, StageFacts, LenLogs DEF StagesOrdered, SendOK
    <2>2. Taken \in 1 .. Len(logs)
      BY <2>1
    <2>3. QED
      BY <2>2
  <1>3. PICK s, v, g \in Nat : s = logs[i].start /\ v = ValueOffset(logs[i])
                               /\ g = NextOffset(logs[i])
    BY LogFacts
  <1>4. /\ Follows(todo["nic"], i, s, g) /\ s \in Int /\ g <= NextOffset(logs[i])
        /\ \A k \in DOMAIN todo["nic"] : /\ todo["nic"][k].op = "bytes"
                                         /\ todo["nic"][k].from >= v
                                         /\ todo["nic"][k].n > 0
    BY <1>2, <1>3 DEF WritesOK, NicOK
  <1>5. "nic" \in Threads
    BY DEF Threads
  <1>6. PICK q, r : /\ q = todo["nic"] /\ r = todo'["nic"]
                    /\ q \in Seq(Ops) /\ r \in Seq(Ops)
                    /\ Goes(q, r, o, i, s, g)
                    /\ \A u \in Threads : u # "nic" => todo'[u] = todo[u]
    BY <1>3, <1>4, <1>5, LandCalls
  <1>7. todo'["writer"] = todo["writer"]
    BY <1>6 DEF Threads
  <1>8. /\ 1 \in DOMAIN q /\ q[1] = o /\ Part(o, i, s) /\ o.from + o.n <= g
        /\ o.from >= v /\ o.n # 0
    <2>1. 1 \in DOMAIN q /\ q[1] = o
      BY <1>6
    <2>2. Part(o, i, s) /\ o.from + o.n <= g
      BY <1>1, <1>4, <1>6, <2>1 DEF Follows
    <2>3. o.from >= v /\ o.n > 0
      BY <1>4, <1>6, <2>1
    <2>4. QED
      BY <1>1, <2>1, <2>2, <2>3
  <1>9. wpc' = wpc /\ Queued' = Queued /\ Taken' = Taken /\ Published' = Published
    BY <1>7, <1>8 DEF Queued, Taken, Published
  <1>10. WritesOK'
    <2>1. \A k \in DOMAIN r : r[k].op = "bytes" /\ r[k].from >= v /\ r[k].n > 0
      <3> TAKE k \in DOMAIN r
      <3>1. PICK l \in DOMAIN q :
              /\ r[k].op = q[l].op
              /\ q[l].op = "bytes" /\ q[l].n > 0 => r[k].from >= q[l].from /\ r[k].n > 0
        BY <1>6 DEF Goes
      <3>2. q[l].op = "bytes" /\ q[l].n > 0 /\ q[l].from >= v
        BY <1>4, <1>6, <3>1
      <3>3. q[l].from \in Nat /\ r[k].from \in Nat
        <4>1. q[l] \in Ops /\ r[k] \in Ops
          BY <1>6, <3>1
        <4>2. QED
          BY <3>1, <3>2, <4>1 DEF Ops, ByteOps
      <3>4. r[k].from >= q[l].from
        BY <3>1, <3>2
      <3>5. PICK x, y, z \in Nat : x = q[l].from /\ y = r[k].from /\ z = v
        BY <1>3, <3>3
      <3>6. y >= z
        BY <3>2, <3>4, <3>5
      <3>7. QED
        BY <3>1, <3>2, <3>5, <3>6
    <2>2. NicOK'
      <3>1. Follows(r, i, s, g)
        BY <1>6 DEF Goes
      <3>2. QED
        BY <1>2, <1>3, <1>6, <1>9, <2>1, <3>1 DEF NicOK, NextOffset, ValueOffset
    <2>3. WriterOK'
      BY <1>7, <1>9 DEF WritesOK, WriterOK, ValueOffset
    <2>4. QED
      BY <2>2, <2>3 DEF WritesOK
  <1>11. Progress(q, g) = o.from /\ Progress(r, g) = o.from + 1
    <2>1. q # << >>
      BY <1>6
    <2>2. QED
      BY <1>1, <1>6, <1>8, <2>1 DEF Goes, Progress
  <1>12. ASSUME NEW k \in 1 .. Len(logs), NEW x \in Offsets(k)
         PROVE  Written(k, x)' <=> Written(k, x) \/ (k = i /\ x = o.from)
    <2>1. x \in Nat
      BY OffFacts
    <2>2. CASE k = i /\ ~(x < ValueOffset(logs[k]))
      <3>1. ~(k < Taken)
        BY <1>2, <2>2, LenLogs
      <3>2. Written(k, x) <=> x < Progress(q, g)
        BY <1>2, <1>3, <1>6, <2>2, <3>1 DEF Written
      <3>3. Written(k, x)' <=> x < Progress(r, g)
        BY <1>2, <1>3, <1>6, <1>9, <2>2, <3>1 DEF Written, ValueOffset, NextOffset
      <3>4. x < o.from + 1 <=> x < o.from \/ x = o.from
        BY <1>1, <2>1
      <3>5. QED
        BY <1>11, <2>2, <3>2, <3>3, <3>4
    <2>3. CASE k # i /\ ~(x < ValueOffset(logs[k]))
      BY <1>2, <1>9, <2>3 DEF Written, ValueOffset
    <2>4. CASE x < ValueOffset(logs[k])
      <3>1. k = i => x # o.from
        <4>1. k = i => x < v /\ ~(o.from < v)
          BY <1>1, <1>3, <1>8, <2>4
        <4>2. QED
          BY <4>1
      <3>2. Written(k, x)' <=> Written(k, x)
        BY <1>7, <2>4 DEF Written, ValueOffset
      <3>3. QED
        BY <3>1, <3>2
    <2>5. QED
      BY <2>2, <2>3, <2>4
  <1>13. MemOK'
    <2>1. /\ o.from \in Offsets(i) /\ o.at \in 0 .. TOTAL_SIZE - 1
          /\ At(o.at, Off(i, o.from)) /\ o.log = i
      BY <1>3, <1>4, <1>8, LandPlace
    <2>2. i > Back
      <3>1. /\ Back <= Len(executed) /\ Len(executed) + Len(executing) <= Arrived
            /\ Len(executed) \in Nat /\ Taken \in Int
            /\ Len(executing) \in Nat /\ Arrived \in Int /\ Back \in Int
        BY StageFacts, QueueFacts, QueuedFacts
      <3>2. Arrived = Taken - 1
        BY DEF Arrived
      <3>3. QED
        BY <1>2, <3>1, <3>2
    <2>3. PICK f \in Offsets(i), a \in 0 .. TOTAL_SIZE - 1 : f = o.from /\ a = o.at
      BY <2>1
    <2>4. At(a, Off(i, f)) /\ mem' = [mem EXCEPT ![a] = <<i, f>>]
      BY <1>8, <2>1, <2>3
    <2>5. \A k \in 1 .. Len(logs) : \A x \in Offsets(k) :
            Written(k, x)' <=> Written(k, x) \/ (k = i /\ x = f)
      BY <1>12, <2>3
    <2>6. QED
      BY <2>2, <2>4, <2>5, MemLands
  <1>14. Arrived <= Arrived'
    <2>1. Arrived = Taken - 1 /\ Arrived' \in {Taken - 1, Taken} /\ Taken \in Int
      BY <1>9, QueuedFacts DEF Arrived
    <2>2. QED
      BY <2>1
  <1>15. QED
    BY <1>9, <1>10, <1>13, <1>14, LandFrame

LEMMA LandByteBytes ==
  ASSUME BytesInv, LinkInv', LandByte
  PROVE  BytesInv'
  <1>1. PICK t \in Threads, o \in ByteOps :
           /\ o = todo[t][1] /\ todo[t] # << >>
           /\ mem' = IF o.n = 0 THEN mem ELSE [mem EXCEPT ![o.at] = <<o.log, o.from>>]
           /\ \/ o.n <= 1 /\ Done(t)
              \/ /\ o.n > 1
                 /\ todo' = [todo EXCEPT ![t] = [@ EXCEPT ![1] = Further(o)]]
           /\ wpc' \in {wpc, "crash"} /\ (o.n # 0 => wpc' = wpc)
    BY LandByteStep DEF BytesInv
  <1>2. UNCHANGED <<wr, rdCache, logs, sending, rwr, tail>>
    BY DEF LandByte
  <1>3. CASE t = "writer"
    BY <1>1, <1>2, <1>3, LandWriter
  <1>4. CASE t = "nic"
    BY <1>1, <1>2, <1>4, LandNic
  <1>5. QED
    BY <1>3, <1>4 DEF Threads

----------------------------------------------------------------------------
(* Steps of the reader. *)

LEMMA ReaderFrame ==
  ASSUME BytesInv, LinkInv', UNCHANGED <<head, mem, rwr>>, EntriesOK', ValuesDelivered',
         NEW b \in Nat, NEW c \in Nat, Back' = b, Parsed' = c, Back <= b,
         At(rd', StartOf(b + 1)), At(rdKey', StartOf(c + 1)), b <= Len(executed'),
         Len(executed') + Len(executing') <= Arrived, c <= Published
  PROVE  BytesInv'
  <1> USE DEF BytesInv
  <1>1. UNCHANGED <<wpc, wr, rdCache, logs, sending, todo>>
    BY DEF head
  <1>2. LogsAdjacent' /\ Reserved' = Reserved /\ \A i : StartOf(i)' = StartOf(i)
    BY <1>1, SameLogs
  <1>3. /\ Queued' = Queued /\ Taken' = Taken /\ Arrived' = Arrived
        /\ Published' = Published
    BY <1>1 DEF Queued, Taken, Arrived, Published
  <1>4. StagesOrdered'
    <2>1. SendOK'
      BY <1>1, <1>3 DEF StagesOrdered, SendOK
    <2>2. b >= 0
      OBVIOUS
    <2>3. QED
      BY <1>3, <2>1, <2>2 DEF StagesOrdered
  <1>5. WritesOK'
    <2>1. NicOK'
      BY <1>1, <1>3, NicStays DEF WritesOK
    <2>2. WriterOK'
      BY <1>1 DEF WritesOK, WriterOK, ValueOffset
    <2>3. QED
      BY <2>1, <2>2 DEF WritesOK
  <1>6. MemOK'
    <2>1. \A k, o : Written(k, o)' <=> Written(k, o)
      BY <1>1, <1>3, WrittenStays
    <2>2. QED
      BY <1>1, <2>1, MemStays
  <1>7. PointersCount'
    <2>1. At(wr, Reserved)' /\ At(rwr, StartOf(Published + 1))'
      BY <1>1, <1>2, <1>3 DEF PointersCount, At
    <2>2. At(rdKey, StartOf(Parsed + 1))' /\ At(rd, StartOf(Back + 1))'
      BY <1>2 DEF At
    <2>3. PICK d \in 0 .. Back : At(rdCache, StartOf(d + 1)) /\ Reserved - StartOf(d + 1) < TOTAL_SIZE
      BY DEF PointersCount
    <2>4. d \in 0 .. b
      <3>1. Back \in Int
        BY QueuedFacts
      <3>2. QED
        BY <2>3, <3>1
    <2>5. At(rdCache, StartOf(d + 1))' /\ Reserved' - StartOf(d + 1)' < TOTAL_SIZE
      BY <1>1, <1>2, <2>3 DEF At
    <2>6. QED
      BY <2>1, <2>2, <2>4, <2>5 DEF PointersCount
  <1>8. QED
    BY <1>2, <1>4, <1>5, <1>6, <1>7

(* Steps that leave the reader's queues alone. *)
LEMMA ReaderQuiet ==
  ASSUME BytesInv, LinkInv',
         UNCHANGED <<head, mem, rwr, rd, rdKey, peeding, executing, dirtyQueue, executed>>,
         \/ rpc' = rpc
         \/ rpc \in {"start", "addr", "key", "value"} /\ rpc' \in {"addr", "key", "value", "wild"}
  PROVE  BytesInv'
  <1> USE DEF BytesInv
  <1>1. Back' = Back /\ Parsed' = Parsed /\ logs' = logs
    BY DEF Back, Parsed, head
  <1>2. PICK b \in Nat, c \in Nat : b = Back /\ c = Parsed
    <2>1. Back \in Nat /\ Parsed \in Nat
      <3>1. Back \in Int /\ Parsed \in Nat /\ Back >= 0
        BY QueuedFacts, StageFacts
      <3>2. QED
        BY <3>1
    <2>2. QED
      BY <2>1
  <1>3. /\ Back <= b /\ b <= Len(executed') /\ c <= Published
        /\ Len(executed') + Len(executing') <= Arrived
    <2>1. b <= b
      BY <1>2
    <2>2. QED
      BY <1>2, <2>1, StageFacts
  <1>4. At(rd', StartOf(b + 1)) /\ At(rdKey', StartOf(c + 1))
    BY <1>2 DEF PointersCount
  <1>5. EntriesOK'
    BY <1>1 DEF EntriesOK, EntryOK, ValueOf, ValueOffset, At
  <1>6. ValuesDelivered'
    BY <1>1 DEF ValuesDelivered, ValueOffset
  <1>7. QED
    BY <1>1, <1>2, <1>3, <1>4, <1>5, <1>6, ReaderFrame

LEMMA AllocRingBytes ==
  ASSUME BytesInv, LinkInv', AllocRing
  PROVE  BytesInv'
  BY ReaderQuiet DEF AllocRing, Idle

LEMMA StartReaderBytes ==
  ASSUME BytesInv, LinkInv', StartReader
  PROVE  BytesInv'
  BY ReaderQuiet DEF StartReader, Idle

LEMMA ReadKeyReturnBytes ==
  ASSUME BytesInv, LinkInv', ReadKeyReturn
  PROVE  BytesInv'
  BY ReaderQuiet DEF ReadKeyReturn

LEMMA NoValueBytes ==
  ASSUME BytesInv, LinkInv', NoValue
  PROVE  BytesInv'
  BY ReaderQuiet DEF NoValue

LEMMA ForwardBytes ==
  ASSUME BytesInv, LinkInv', Forward
  PROVE  BytesInv'
  BY ReaderQuiet DEF Forward

(* rb_read does not refuse to read from a log that is published and live. *)
LEMMA NotRefused ==
  ASSUME LinkInv, LogsAdjacent, PointersCount, StagesOrdered,
         NEW i \in 1 .. Len(logs), i > Back, i <= Published,
         NEW n \in Nat, n <= NextOffset(logs[i])
  PROVE  ~Refused(n)
  <1>1. DataSize(rwr, rd) = StartOf(Published + 1) - StartOf(Back + 1)
    BY SizesAreTrue
  <1>2. /\ i \in 1 .. Len(logs) + 1 /\ i + 1 \in 1 .. Len(logs) + 1
        /\ Back + 1 \in 1 .. Len(logs) + 1 /\ Published + 1 \in 1 .. Len(logs) + 1
        /\ Back + 1 <= i /\ i + 1 <= Published + 1
    <2>1. /\ Back + 1 \in 1 .. Len(logs) + 1 /\ Published + 1 \in 1 .. Len(logs) + 1
          /\ Back \in Int /\ Published \in Int /\ Len(logs) \in Nat
      BY StageFacts, QueuedFacts, LenLogs
    <2>2. QED
      BY <2>1
  <1>3. PICK x, y, u, v \in Nat :
          x = StartOf(Back + 1) /\ y = StartOf(i) /\ u = StartOf(i + 1) /\ v = StartOf(Published + 1)
    BY <1>2, StartFacts
  <1>4. x <= y /\ u <= v
    BY <1>2, <1>3, StartFacts
  <1>5. PICK m \in Nat : m = NextOffset(logs[i])
    BY LogFacts
  <1>6. u = y + m /\ n <= m
    BY <1>3, <1>5, ChainFacts
  <1>7. ~(n > v - x)
    <2>1. x \in Nat /\ y \in Nat /\ u \in Nat /\ v \in Nat /\ m \in Nat
      BY <1>3, <1>5
    <2>2. QED
      BY <1>4, <1>6, <2>1
  <1>8. QED
    BY <1>1, <1>3, <1>7 DEF Refused

(* read_log_key reads the metadata of the log it has come to. *)
LEMMA EntryRead ==
  ASSUME BytesInv, MoreKeys, NEW i \in Nat, i = Parsed + 1
  PROVE  /\ i \in 1 .. Len(logs) /\ i <= Published /\ i > Back
         /\ EntryOK(EntryAt(rdKey), i)
  <1> USE DEF BytesInv
  <1>1. /\ Parsed \in Nat /\ Published \in Int /\ Back \in Int /\ Len(logs) \in Nat
        /\ Parsed <= Published /\ Published <= Len(logs) /\ Back <= Parsed
        /\ Parsed + 1 \in 1 .. Len(logs) + 1
    <2>1. /\ Len(executed) \in Nat /\ Len(executing) \in Nat /\ Len(peeding) \in Nat
          /\ Back <= Len(executed)
          /\ Parsed = Len(executed) + Len(executing) + Len(peeding) /\ Back \in Int
      BY QueueFacts, QueuedFacts, StageFacts
    <2>2. Back <= Parsed
      BY <2>1
    <2>3. QED
      BY <2>2, QueuedFacts, StageFacts, LenLogs
  <1>2. Parsed # Published
    <2>1. DataSize(rwr, rdKey) >= SIZEOF_MATE
      BY DEF MoreKeys
    <2>2. DataSize(rwr, rdKey) = StartOf(Published + 1) - StartOf(Parsed + 1)
      BY SizesAreTrue
    <2>3. StartOf(Parsed + 1) \in Nat
      BY <1>1, StartFacts
    <2>4. SIZEOF_MATE \in Nat /\ SIZEOF_MATE > 0
      BY ConstantFacts
    <2>5. QED
      BY <2>1, <2>2, <2>3, <2>4
  <1>3. i \in 1 .. Len(logs) /\ i <= Published /\ i > Back
    BY <1>1, <1>2
  <1>4. PICK p \in 0 .. TOTAL_SIZE - 1 : p = rdKey
    BY DEF LinkInv, Types, TailTypes
  <1>5. At(p, StartOf(i)) /\ StartOf(i) = logs[i].start
    BY <1>3, <1>4, ChainFacts DEF PointersCount
  <1>6. 0 \in Offsets(i) /\ Written(i, 0)
    <2>1. 0 \in Nat /\ 0 < ValueOffset(logs[i])
      <3>1. ValueOffset(logs[i]) > SIZEOF_LOG /\ SIZEOF_LOG \in Nat /\ ValueOffset(logs[i]) \in Nat
        BY <1>3, LogFacts, ConstantFacts
      <3>2. QED
        BY <3>1
    <2>2. QED
      BY <1>3, <2>1, KeyWritten
  <1>7. At(p, Off(i, 0))
    <2>1. Off(i, 0) = StartOf(i) + 0 /\ StartOf(i) \in Nat
      BY <1>3, <1>6, OffFacts
    <2>2. Off(i, 0) = StartOf(i)
      BY <2>1
    <2>3. QED
      BY <1>5, <2>2
  <1>8. mem[p] = <<i, 0>>
    BY <1>3, <1>6, <1>7, LiveCell
  <1>9. LogOf(mem[p]) = logs[i] /\ mem[p][1] = i
    <2>1. i # 0
      BY <1>3
    <2>2. mem[p] # Zero /\ mem[p][1] = i
      BY <1>8, <2>1 DEF Zero
    <2>3. QED
      BY <2>2 DEF LogOf
  <1>10. ~Refused(SIZEOF_MATE) /\ ~Refused(logs[i].klen)
    <2>1. PICK k \in Nat, v \in Nat : k = logs[i].klen /\ v = logs[i].vlen
      <3>1. logs[i].klen \in Nat /\ logs[i].vlen \in Nat
        BY <1>3, LogFacts
      <3>2. QED
        BY <3>1
    <2>2. NextOffset(logs[i]) = SIZEOF_LOG + k + v
      BY <2>1 DEF NextOffset
    <2>3. SIZEOF_LOG \in Nat /\ SIZEOF_MATE \in Nat /\ SIZEOF_MATE <= SIZEOF_LOG
      BY ConstantFacts
    <2>4. k <= NextOffset(logs[i]) /\ SIZEOF_MATE <= NextOffset(logs[i])
      BY <2>1, <2>2, <2>3
    <2>5. QED
      BY <1>3, <2>1, <2>3, <2>4, NotRefused
  <1>11. PICK e : e = EntryAt(rdKey)
    BY Zenon
  <1>12. e.log = i /\ e.pos = p /\ e.klen = logs[i].klen /\ e.vlen = logs[i].vlen
         /\ e.key = logs[i].key
    BY <1>4, <1>9, <1>10, <1>11 DEF EntryAt
  <1>13. EntryOK(e, i)
    BY <1>5, <1>12 DEF EntryOK
  <1>14. QED
    BY <1>3, <1>11, <1>13

(* How the lengths of the reader's queues add up while it does not abort. *)
LEMMA QueueLens ==
  ASSUME LinkInv, rpc \in {"start", "key", "value"}
  PROVE  /\ Back = Len(executed) /\ executing = << >> /\ Len(executing) = 0
         /\ Len(dirtyQueue) = Len(peeding)
         /\ Parsed = Len(executed) + Len(peeding)
  <1>1. executing = << >> /\ Len(executing) = 0
    BY DEF LinkInv, PipeOK
  <1>2. Len(peeding) \in Nat /\ Len(executed) \in Nat
    BY QueueFacts
  <1>3. Len(dirtyQueue) = Len(peeding) + 0 + 0
    BY <1>1 DEF LinkInv, PipeOK
  <1>4. Parsed = Len(executed) + 0 + Len(peeding)
    BY <1>1 DEF Parsed
  <1>5. Back = Len(executed)
    BY DEF Back
  <1>6. QED
    BY <1>1, <1>2, <1>3, <1>4, <1>5

(* The queues take the logs that read_log_key finds, *)
LEMMA KeysHaveRoom ==
  ASSUME BytesInv, QueuesHoldRing, rpc = "key", MoreKeys
  PROVE  ~Full(peeding) /\ ~Full(dirtyQueue)
  <1> USE DEF BytesInv
  <1>1. /\ Back = Len(executed) /\ Len(dirtyQueue) = Len(peeding)
        /\ Parsed = Len(executed) + Len(peeding)
    BY QueueLens
  <1>2. /\ Len(peeding) \in Nat /\ Len(executed) \in Nat /\ Len(logs) \in Nat
        /\ QUEUE_SIZE \in Nat
    BY QueueFacts, LenLogs, ConstantFacts
  <1>3. PICK i \in Nat : i = Parsed + 1
    BY <1>1, <1>2
  <1>4. i \in 1 .. Len(logs) /\ i > Back
    BY <1>3, EntryRead
  <1>5. Back \in Int /\ Back <= Back /\ Back <= Len(logs)
    BY <1>1, <1>2, <1>4
  <1>6. Len(logs) - Back < QUEUE_SIZE
    BY <1>5, RoomLeft
  <1>7. Len(peeding) + 1 <= Len(logs) - Back
    BY <1>1, <1>2, <1>3, <1>4
  <1>8. ~(Len(peeding) >= QUEUE_SIZE - 1)
    BY <1>2, <1>5, <1>6, <1>7
  <1>9. QED
    BY <1>1, <1>8 DEF Full

(* and the one that read_log_value does. *)
LEMMA ValueHasRoom ==
  ASSUME BytesInv, QueuesHoldRing, rpc = "value", peeding # << >>
  PROVE  ~Full(executing)
  <1> USE DEF BytesInv
  <1>1. Back = Len(executed) /\ Len(executing) = 0 /\ Parsed = Len(executed) + Len(peeding)
    BY QueueLens
  <1>2. /\ Len(peeding) \in Nat /\ Len(peeding) > 0 /\ Len(executed) \in Nat
        /\ Len(logs) \in Nat /\ QUEUE_SIZE \in Nat /\ Published \in Int
    BY QueueFacts, QueuedFacts, LenLogs, ConstantFacts
  <1>3. Parsed <= Published /\ Published <= Len(logs)
    BY StageFacts
  <1>4. Back \in Int /\ Back <= Back /\ Back < Len(logs)
    BY <1>1, <1>2, <1>3
  <1>5. Len(logs) - Back < QUEUE_SIZE
    BY <1>4, RoomLeft
  <1>6. ~(0 >= QUEUE_SIZE - 1)
    BY <1>2, <1>4, <1>5
  <1>7. QED
    BY <1>1, <1>6 DEF Full

LEMMA ReadKeyBytes ==
  ASSUME BytesInv, LinkInv', QueuesHoldRing, ReadKey
  PROVE  BytesInv'
  <1> USE DEF BytesInv
  <1>1. rpc = "key" /\ MoreKeys
    BY DEF ReadKey
  <1>2. /\ Back = Len(executed) /\ executing = << >> /\ Len(executing) = 0
        /\ Len(dirtyQueue) = Len(peeding) /\ Parsed = Len(executed) + Len(peeding)
    BY <1>1, QueueLens
  <1>3. PICK i \in Nat : i = Parsed + 1
    <2>1. Parsed \in Nat
      BY QueuedFacts
    <2>2. QED
      BY <2>1
  <1>4. /\ i \in 1 .. Len(logs) /\ i <= Published /\ i > Back
        /\ EntryOK(EntryAt(rdKey), i)
    BY <1>1, <1>3, EntryRead
  <1>5. PICK e \in Entry : e = EntryAt(rdKey)
    BY EntryTypes
  <1>6. /\ Len(peeding) \in Nat /\ Len(executed) \in Nat /\ peeding \in Seq(Entry)
        /\ dirtyQueue \in Seq(Entry) /\ Len(logs) \in Nat /\ QUEUE_SIZE \in Nat
    BY QueueFacts, LenLogs, ConstantFacts
  <1>7. ~Full(peeding) /\ ~Full(dirtyQueue)
    BY <1>1, KeysHaveRoom
  <1>8. /\ dirtyQueue' = Append(dirtyQueue, e) /\ peeding' = Append(peeding, e)
        /\ rdKey' = Wrap(rdKey + NextOffset(e)) /\ rpc' = rpc
        /\ UNCHANGED <<rd, executing, executed, mem, rwr, head>>
    BY <1>5, <1>7 DEF ReadKey
  <1>9. logs' = logs
    BY <1>8 DEF head
  <1>10. /\ Len(peeding') = Len(peeding) + 1 /\ DOMAIN peeding' = 1 .. Len(peeding) + 1
         /\ \A k \in 1 .. Len(peeding) : peeding'[k] = peeding[k]
         /\ peeding'[Len(peeding) + 1] = e
         /\ DOMAIN dirtyQueue' = 1 .. Len(peeding) + 1
         /\ \A k \in 1 .. Len(peeding) : dirtyQueue'[k] = dirtyQueue[k]
         /\ dirtyQueue'[Len(peeding) + 1] = e
    BY <1>2, <1>6, <1>8, AppendProperties
  <1>11. Back' = Back /\ Parsed' = i
    <2>1. Back' = Back
      BY <1>8 DEF Back
    <2>2. Parsed' = Len(executed) + 0 + (Len(peeding) + 1)
      BY <1>2, <1>8, <1>10 DEF Parsed
    <2>3. QED
      BY <1>2, <1>3, <1>6, <2>1, <2>2
  <1>12. EntryOK(e, i) /\ \A f, k : EntryOK(f, k)' <=> EntryOK(f, k)
    BY <1>4, <1>5, <1>9 DEF EntryOK, At
  <1>13. \A k \in 1 .. Len(peeding) + 1 :
           EntryOK(peeding'[k], Len(executed) + k) /\ EntryOK(dirtyQueue'[k], Len(executed) + k)
    <2> TAKE k \in 1 .. Len(peeding) + 1
    <2>1. CASE k \in 1 .. Len(peeding)
      <3>1. Len(executed) + 0 + k = Len(executed) + k
        BY <1>6
      <3>2. EntryOK(peeding[k], Len(executed) + Len(executing) + k)
        BY <2>1 DEF EntriesOK
      <3>3. EntryOK(dirtyQueue[k], Back + k)
        BY <1>1, <1>2, <2>1 DEF EntriesOK
      <3>4. QED
        BY <1>2, <1>10, <2>1, <3>1, <3>2, <3>3
    <2>2. CASE k = Len(peeding) + 1
      <3>1. Len(executed) + k = i
        BY <1>2, <1>3, <1>6, <2>2
      <3>2. QED
        BY <1>10, <1>12, <2>2, <3>1
    <2>3. QED
      BY <1>6, <2>1, <2>2
  <1>14. EntriesOK'
    <2>1. \A k \in DOMAIN peeding' : EntryOK(peeding[k], Len(executed) + Len(executing) + k)'
      <3> TAKE k \in DOMAIN peeding'
      <3>1. Len(executed) + 0 + k = Len(executed) + k
        BY <1>6, <1>10
      <3>2. EntryOK(peeding'[k], Len(executed) + 0 + k)
        BY <1>10, <1>13, <3>1
      <3>3. QED
        BY <1>2, <1>8, <1>12, <3>2
    <2>2. DOMAIN executing' = {}
      BY <1>2, <1>8
    <2>3. \A k \in DOMAIN dirtyQueue' : EntryOK(dirtyQueue[k], Back + k)'
      BY <1>2, <1>10, <1>11, <1>12, <1>13
    <2>4. QED
      BY <2>1, <2>2, <2>3 DEF EntriesOK
  <1>15. ValuesDelivered'
    <2>1. executed' = executed /\ logs' = logs /\ ValuesDelivered
      BY <1>8, <1>9
    <2>2. QED
      BY <2>1 DEF ValuesDelivered, ValueOffset
  <1>16. At(rdKey', StartOf(i + 1))
    <2>1. PICK p \in Int, c \in Int, n \in Int : p = rdKey /\ c = StartOf(i) /\ n = NextOffset(logs[i])
      <3>1. rdKey \in Int
        BY ConstantFacts DEF LinkInv, Types, TailTypes
      <3>2. StartOf(i) = logs[i].start /\ logs[i].start \in Nat /\ NextOffset(logs[i]) \in Nat
        BY <1>4, ChainFacts, LogFacts
      <3>3. QED
        BY <3>1, <3>2
    <2>2. At(p, c)
      BY <1>3, <2>1 DEF PointersCount
    <2>3. At(Wrap(p + n), c + n)
      BY <2>1, <2>2, AtMoves
    <2>4. NextOffset(e) = n
      BY <1>12, <2>1 DEF EntryOK, NextOffset
    <2>5. StartOf(i + 1) = c + n
      BY <1>4, <2>1, ChainFacts
    <2>6. QED
      BY <1>8, <2>1, <2>3, <2>4, <2>5
  <1>17. PICK b \in Nat : b = Back
    BY <1>2, <1>6
  <1>18. At(rd', StartOf(b + 1)) /\ Back <= b /\ b <= Len(executed')
    BY <1>2, <1>6, <1>8, <1>17 DEF PointersCount
  <1>19. Len(executed') + Len(executing') <= Arrived
    BY <1>8, StageFacts
  <1>20. QED
    BY <1>4, <1>8, <1>11, <1>14, <1>15, <1>16, <1>17, <1>18, <1>19, ReaderFrame

(* Where byte o of the log that e describes is looked up. *)
LEMMA EntryPlace ==
  ASSUME LinkInv, LogsAdjacent, NEW i \in 1 .. Len(logs), NEW e \in Entry, EntryOK(e, i),
         NEW o \in Int
  PROVE  Wrap(e.pos + o) \in 0 .. TOTAL_SIZE - 1 /\ At(Wrap(e.pos + o), Off(i, o))
  <1>1. PICK p \in Int, s \in Int : p = e.pos /\ s = logs[i].start
    <2>1. e.pos \in Nat /\ logs[i].start \in Nat
      BY EntryFacts, LogFacts
    <2>2. QED
      BY <2>1
  <1>2. At(p, s)
    BY <1>1 DEF EntryOK
  <1>3. At(Wrap(p + o), s + o)
    BY <1>1, <1>2, AtMoves
  <1>4. p + o \in Int
    BY <1>1
  <1>5. Wrap(p + o) \in 0 .. TOTAL_SIZE - 1
    BY <1>4, WrapInRing
  <1>6. QED
    BY <1>1, <1>3, <1>5 DEF Off

(* A value that has arrived is read as it was written. *)
LEMMA ValueRead ==
  ASSUME BytesInv, NEW i \in 1 .. Len(logs), i > Back, i <= Arrived,
         NEW e \in Entry, EntryOK(e, i)
  PROVE  ValueBytes(e) = ValueOf(i)
  <1> USE DEF BytesInv
  <1>1. PICK v, n, m \in Nat : v = ValueOffset(logs[i]) /\ n = logs[i].vlen
                               /\ m = NextOffset(logs[i])
    <2>1. ValueOffset(logs[i]) \in Nat /\ logs[i].vlen \in Nat /\ NextOffset(logs[i]) \in Nat
      BY LogFacts
    <2>2. QED
      BY <2>1
  <1>2. e.vlen = n /\ ValueOffset(e) = v
    BY <1>1 DEF EntryOK, ValueOffset
  <1>3. ASSUME NEW o \in 1 .. n
        PROVE  mem[Wrap(ValuePos(e) + o - 1)] = <<i, v + o - 1>>
    <2>1. PICK x \in Int : x = v + o - 1
      BY <1>1
    <2>2. x \in Offsets(i) /\ x >= v
      <3>1. m = v + n
        BY <1>1, LogFacts
      <3>2. v \in Nat /\ n \in Nat /\ m \in Nat /\ x \in Int /\ x = v + o - 1
        BY <1>1, <2>1
      <3>3. x \in 0 .. m - 1 /\ x >= v
        BY <3>1, <3>2, Z3
      <3>4. QED
        BY <1>1, <3>3 DEF Offsets
    <2>3. PICK a \in Int : a = e.pos
      <3>1. e.pos \in Nat
        BY EntryFacts
      <3>2. QED
        BY <3>1
    <2>4. PICK y \in Int : y = o - 1
      OBVIOUS
    <2>5. PICK q : q = Wrap(Wrap(a + v) + y)
      BY Zenon
    <2>6. At(q, Off(i, x)) /\ q \in 0 .. TOTAL_SIZE - 1
      <3>1. PICK w \in Int : w = Wrap(a + v)
        <4>1. a + v \in Int
          BY <1>1, <2>3
        <4>2. Wrap(a + v) \in 0 .. TOTAL_SIZE - 1
          BY <4>1, WrapInRing
        <4>3. QED
          BY <4>2, ConstantFacts
      <3>2. PICK s \in Int : s = logs[i].start
        <4>1. logs[i].start \in Nat
          BY LogFacts
        <4>2. QED
          BY <4>1
      <3>3. At(a, s)
        BY <2>3, <3>2 DEF EntryOK
      <3>4. At(w, s + v)
        <4>1. a \in Int /\ s \in Int /\ v \in Int
          BY <1>1, <2>3, <3>2
        <4>2. At(Wrap(a + v), s + v)
          BY <3>3, <4>1, AtMoves
        <4>3. QED
          BY <3>1, <4>2
      <3>5. PICK c \in Int : c = s + v
        BY <1>1, <3>2
      <3>6. At(Wrap(w + y), c + y)
        BY <2>4, <3>1, <3>4, <3>5, AtMoves
      <3>7. c + y = s + x
        <4>1. v \in Int /\ o \in Int /\ s \in Int
          BY <1>1, <3>2
        <4>2. c = s + v /\ y = o - 1 /\ x = v + o - 1
          BY <2>1, <2>4, <3>5
        <4>3. QED
          BY <4>1, <4>2, Z3
      <3>8. w + y \in Int
        BY <2>4, <3>1
      <3>9. Wrap(w + y) \in 0 .. TOTAL_SIZE - 1
        BY <3>8, WrapInRing
      <3>10. q = Wrap(w + y) /\ Off(i, x) = s + x
        BY <2>5, <3>1, <3>2 DEF Off
      <3>11. QED
        BY <3>6, <3>7, <3>9, <3>10
    <2>7. Written(i, x)
      BY <1>1, <2>2, ValueWritten
    <2>8. mem[q] = <<i, x>>
      BY <2>2, <2>6, <2>7, LiveCell
    <2>9. Wrap(ValuePos(e) + o - 1) = q
      <3>1. ValuePos(e) = Wrap(a + v) /\ ValuePos(e) \in 0 .. TOTAL_SIZE - 1
        BY <1>2, <2>3, EntryFacts DEF ValuePos
      <3>2. ValuePos(e) + o - 1 = ValuePos(e) + y
        BY <2>4, <3>1, ConstantFacts
      <3>3. QED
        BY <2>5, <3>1, <3>2
    <2>10. QED
      BY <2>1, <2>8, <2>9
  <1>4. QED
    BY <1>1, <1>2, <1>3 DEF ValueBytes, ValueOf

(* The tag byte of a log is there only when the value is: what the tag      *)
(* falls on was not taken for one before.                                   *)
LEMMA TagMeansArrived ==
  ASSUME BytesInv, TagsFresh, NEW i \in 1 .. Len(logs), i > Back, i <= Published,
         i - 1 <= Arrived, NEW e \in Entry, EntryOK(e, i), MayBeOne(mem[TagPos(e)])
  PROVE  i <= Arrived
  <1> USE DEF BytesInv
  <1>1. PICK n \in Nat, t \in Nat : /\ n = NextOffset(logs[i]) /\ t = n - 1
                                    /\ t \in Offsets(i) /\ t >= ValueOffset(logs[i])
    <2>1. PICK v \in Nat, l \in Nat, m \in Nat :
            /\ v = ValueOffset(logs[i]) /\ l = logs[i].vlen /\ m = NextOffset(logs[i])
      <3>1. ValueOffset(logs[i]) \in Nat /\ logs[i].vlen \in Nat /\ NextOffset(logs[i]) \in Nat
        BY LogFacts
      <3>2. QED
        BY <3>1
    <2>2. m = v + l
      BY <2>1, LogFacts
    <2>3. l > 1
      <3>1. l \in Nat \ {0, 1}
        BY <2>1, LogFacts
      <3>2. QED
        BY <3>1
    <2>4. v \in Nat /\ l \in Nat /\ m \in Nat
      BY <2>1
    <2>5. m - 1 \in Nat /\ m - 1 >= v /\ m - 1 \in 0 .. m - 1
      BY <2>2, <2>3, <2>4, Z3
    <2>6. QED
      BY <2>1, <2>5 DEF Offsets
  <1>2. t \in Int /\ n \in Int /\ t = n - 1
    BY <1>1
  <1>3. PICK p \in 0 .. TOTAL_SIZE - 1 : p = TagPos(e) /\ At(p, Off(i, t))
    <2>1. Wrap(e.pos + t) \in 0 .. TOTAL_SIZE - 1 /\ At(Wrap(e.pos + t), Off(i, t))
      BY <1>2, EntryPlace
    <2>2. NextOffset(e) = n
      BY <1>1 DEF EntryOK, NextOffset
    <2>3. e.pos + n - 1 = e.pos + t
      <3>1. e.pos \in Nat
        BY EntryFacts
      <3>2. QED
        BY <1>2, <3>1
    <2>4. QED
      BY <2>1, <2>2, <2>3 DEF TagPos
  <1>4. PICK c : c = mem[p] /\ c # Zero /\ (c[2] = NextOffset(LogOf(c)) - 1 \/ c[2] < SIZEOF_LOG)
    BY <1>3 DEF MayBeOne
  <1>5. PICK k \in 1 .. Len(logs) : k = c[1]
    BY <1>4 DEF MemOK
  <1>6. PICK b \in Offsets(k) : /\ b = c[2] /\ At(p, Off(k, b)) /\ Written(k, b)
                                /\ Count(mem[p]) = Off(k, b)
    BY <1>4, <1>5 DEF MemOK, Count
  <1>7. b = NextOffset(logs[k]) - 1 \/ b < SIZEOF_LOG
    BY <1>4, <1>5, <1>6 DEF LogOf
  <1>8. PICK x \in Int, y \in Int : x = Off(k, b) /\ y = Off(i, t)
    <2>1. Off(k, b) \in Nat
      BY OffFacts
    <2>2. Off(i, t) \in Nat
      BY <1>1, OffFacts
    <2>3. QED
      BY <2>1, <2>2
  <1>9. CASE x >= y
    <2>1. k = i /\ b = t
      BY <1>1, <1>3, <1>6, <1>8, <1>9, LiveApart
    <2>2. ~(t < ValueOffset(logs[i]))
      <3>1. PICK v \in Nat : v = ValueOffset(logs[i])
        BY LogFacts
      <3>2. t >= v
        BY <1>1, <3>1
      <3>3. ~(t < v)
        BY <1>2, <3>1, <3>2
      <3>4. QED
        BY <3>1, <3>3
    <2>3. i < Taken \/ (i = Taken /\ t < Progress(todo["nic"], n))
      BY <1>1, <1>6, <2>1, <2>2 DEF Written
    <2>4. Taken \in Int
      BY QueuedFacts
    <2>5. CASE i < Taken \/ todo["nic"] = << >>
      BY <2>3, <2>4, <2>5 DEF Arrived
    <2>6. CASE i = Taken /\ t < Progress(todo["nic"], n) /\ todo["nic"] # << >>
      <3>1. PICK q \in Seq(Ops) : q = todo["nic"] /\ q # << >> /\ 1 \in DOMAIN q
        BY <2>6, OpsFacts DEF Threads
      <3>2. q[1].op = "bytes" /\ q[1].n > 0 /\ q[1].from + q[1].n <= n
        BY <1>1, <2>6, <3>1 DEF WritesOK, NicOK, Follows
      <3>3. q[1].from \in Nat /\ q[1].n \in Nat
        <4>1. q[1] \in Ops
          BY <3>1
        <4>2. QED
          BY <3>2, <4>1 DEF Ops, ByteOps
      <3>4. t < q[1].from
        BY <2>6, <3>1, <3>2 DEF Progress
      <3>5. PICK f \in Nat, m \in Nat : f = q[1].from /\ m = q[1].n
        BY <3>3
      <3>6. t < f /\ m > 0 /\ f + m <= n /\ t = n - 1
        BY <1>1, <3>2, <3>4, <3>5
      <3>7. f \in Nat /\ m \in Nat
        BY <3>5
      <3>8. FALSE
        BY <1>2, <3>6, <3>7
      <3>9. QED
        BY <3>8
    <2>7. QED
      BY <2>3, <2>5, <2>6
  <1>10. CASE x < y
    <2>1. k < i
      <3>1. CASE k = i
        <4>1. b \in Offsets(i) /\ At(p, Off(i, b)) /\ Off(i, t) >= Off(i, b)
          BY <1>6, <1>8, <1>10, <3>1
        <4>2. t = b
          BY <1>1, <1>3, <4>1, LiveApart
        <4>3. x = y
          BY <1>8, <3>1, <4>2
        <4>4. QED
          BY <1>8, <1>10, <4>3
      <3>2. CASE k > i
        <4>1. i + 1 \in 1 .. Len(logs) + 1 /\ k \in 1 .. Len(logs) + 1 /\ i + 1 <= k
          BY <3>2, LenLogs
        <4>2. StartOf(i + 1) <= StartOf(k)
          BY <4>1, StartFacts
        <4>3. Off(i, t) < StartOf(i + 1) /\ StartOf(k) <= Off(k, b)
          BY <1>1, OffFacts
        <4>4. PICK u, w \in Int : u = StartOf(i + 1) /\ w = StartOf(k)
          <5>1. StartOf(i + 1) \in Nat /\ StartOf(k) \in Nat
            BY <4>1, StartFacts
          <5>2. QED
            BY <5>1
        <4>5. y < u /\ u <= w /\ w <= x
          BY <1>8, <4>2, <4>3, <4>4
        <4>6. FALSE
          BY <1>8, <1>10, <4>4, <4>5
        <4>7. QED
          BY <4>6
      <3>3. QED
        BY <3>1, <3>2, LenLogs
    <2>2. TagPos(logs[i]) = p
      <3>1. logs[i].pos \in Int /\ logs[i].start \in Int /\ At(logs[i].pos, logs[i].start)
        <4>1. logs[i].pos \in Int /\ logs[i].start \in Nat
          BY LogFacts
        <4>2. At(logs[i].pos, logs[i].start)
          BY ChainFacts
        <4>3. QED
          BY <4>1, <4>2
      <3>2. At(Wrap(logs[i].pos + t), logs[i].start + t)
        BY <1>2, <3>1, AtMoves
      <3>3. logs[i].pos + t \in Int
        BY <1>2, <3>1
      <3>4. Wrap(logs[i].pos + t) \in 0 .. TOTAL_SIZE - 1
        BY <3>3, WrapInRing
      <3>5. At(Wrap(logs[i].pos + t), y)
        BY <1>8, <3>2 DEF Off
      <3>6. Wrap(logs[i].pos + t) = p
        BY <1>3, <1>8, <3>4, <3>5, AtOnce
      <3>7. logs[i].pos + n - 1 = logs[i].pos + t
        BY <1>2, <3>1
      <3>8. QED
        BY <1>1, <3>6, <3>7 DEF TagPos
    <2>3. Wrap(logs[k].pos + b) = p
      <3>1. logs[k].pos \in Int /\ logs[k].start \in Int /\ At(logs[k].pos, logs[k].start) /\ b \in Int
        <4>1. logs[k].start \in Nat /\ b \in Nat
          BY LogFacts, OffFacts
        <4>2. logs[k].pos \in Int
          BY LogFacts
        <4>3. At(logs[k].pos, logs[k].start)
          BY ChainFacts
        <4>4. QED
          BY <4>1, <4>2, <4>3
      <3>2. At(Wrap(logs[k].pos + b), logs[k].start + b)
        BY <3>1, AtMoves
      <3>3. logs[k].pos + b \in Int
        BY <3>1
      <3>4. Wrap(logs[k].pos + b) \in 0 .. TOTAL_SIZE - 1
        BY <3>3, WrapInRing
      <3>5. At(Wrap(logs[k].pos + b), x)
        BY <1>8, <3>2 DEF Off
      <3>6. QED
        BY <1>6, <1>8, <3>4, <3>5, AtOnce
    <2>4. ASSUME NEW l \in k + 1 .. i - 1, Covers(l, p) PROVE FALSE
      <3>1. l \in 1 .. Len(logs) /\ l <= Arrived /\ l <= Published /\ k < l
        <4>1. Arrived \in Int /\ Published \in Int /\ Len(logs) \in Nat
          BY QueuedFacts, LenLogs
        <4>2. QED
          BY <4>1
      <3>2. PICK d \in Offsets(l) : Wrap(logs[l].pos + d) = p
        BY <2>4 DEF Covers, Offsets
      <3>3. At(p, Off(l, d))
        <4>1. logs[l].pos \in Int /\ logs[l].start \in Int /\ At(logs[l].pos, logs[l].start) /\ d \in Int
          <5>1. logs[l].start \in Nat /\ d \in Nat
            BY <3>1, <3>2, LogFacts, OffFacts
          <5>2. At(logs[l].pos, logs[l].start) /\ logs[l].pos \in Int
            BY <3>1, LogFacts, ChainFacts
          <5>3. QED
            BY <5>1, <5>2
        <4>2. At(Wrap(logs[l].pos + d), logs[l].start + d)
          BY <4>1, AtMoves
        <4>3. QED
          BY <3>2, <4>2 DEF Off
      <3>4. Written(l, d)
        <4>1. d \in Nat /\ ValueOffset(logs[l]) \in Nat
          BY <3>1, <3>2, OffFacts, LogFacts
        <4>2. CASE d < ValueOffset(logs[l])
          BY <3>1, <4>1, <4>2, KeyWritten
        <4>3. CASE d >= ValueOffset(logs[l])
          BY <3>1, <3>2, <4>3, ValueWritten
        <4>4. QED
          BY <4>1, <4>2, <4>3
      <3>5. Off(k, b) >= Off(l, d)
        BY <1>6, <3>1, <3>2, <3>3, <3>4 DEF MemOK
      <3>6. k + 1 \in 1 .. Len(logs) + 1 /\ l \in 1 .. Len(logs) + 1 /\ k + 1 <= l
        BY <3>1, LenLogs
      <3>7. PICK u, w, z \in Int : u = StartOf(k + 1) /\ w = StartOf(l) /\ z = Off(l, d)
        <4>1. Off(l, d) \in Nat /\ StartOf(k + 1) \in Nat /\ StartOf(l) \in Nat
          BY <3>1, <3>2, <3>6, OffFacts, StartFacts
        <4>2. QED
          BY <4>1
      <3>8. x < u /\ u <= w /\ w <= z /\ x >= z
        BY <1>8, <3>1, <3>2, <3>5, <3>6, <3>7, OffFacts, StartFacts
      <3>9. QED
        BY <1>8, <3>7, <3>8
    <2>5. SIZEOF_LOG <= b /\ b < NextOffset(logs[k]) - 1
      <3>1. i \in DOMAIN logs /\ k \in 1 .. i - 1 /\ b \in 0 .. NextOffset(logs[k]) - 1
        BY <2>1, LenLogs DEF Offsets
      <3>2. QED
        BY <2>2, <2>3, <2>4, <3>1 DEF TagsFresh
    <2>6. b \in Nat /\ NextOffset(logs[k]) \in Nat
      BY OffFacts
    <2>7. QED
      BY <1>7, <2>5, <2>6, ConstantFacts
  <1>11. QED
    BY <1>8, <1>9, <1>10

(* The oldest log that waits for its value has it once its tag is seen. *)
LEMMA ReadValueBytes ==
  ASSUME BytesInv, LinkInv', QueuesHoldRing, TagsFresh, ReadValue
  PROVE  BytesInv'
  <1> USE DEF BytesInv
  <1>1. rpc = "value" /\ peeding # << >> /\ MayBeOne(mem[TagPos(Head(peeding))])
    BY DEF ReadValue
  <1>2. /\ Back = Len(executed) /\ executing = << >> /\ Len(executing) = 0
        /\ Len(dirtyQueue) = Len(peeding) /\ Parsed = Len(executed) + Len(peeding)
    BY <1>1, QueueLens
  <1>3. /\ Len(peeding) \in Nat /\ Len(peeding) > 0 /\ Len(executed) \in Nat
        /\ peeding \in Seq(Entry) /\ Len(logs) \in Nat /\ QUEUE_SIZE \in Nat
        /\ Published \in Int /\ Arrived \in Int
    BY <1>1, QueueFacts, QueuedFacts, LenLogs, ConstantFacts
  <1>4. PICK i \in Nat : i = Len(executed) + 1
    BY <1>3
  <1>5. /\ i \in 1 .. Len(logs) /\ i > Back /\ i <= Published /\ i - 1 <= Arrived
    <2>1. Parsed <= Published /\ Published <= Len(logs) /\ Len(executed) + 0 <= Arrived
      BY <1>2, StageFacts
    <2>2. QED
      BY <1>2, <1>3, <1>4, <2>1
  <1>6. PICK e \in Entry : e = Head(peeding) /\ e = peeding[1]
    BY <1>3
  <1>7. EntryOK(e, i)
    <2>1. EntryOK(peeding[1], Len(executed) + Len(executing) + 1)
      BY <1>3 DEF EntriesOK
    <2>2. Len(executed) + 0 + 1 = i
      BY <1>3, <1>4
    <2>3. QED
      BY <1>2, <1>6, <2>1, <2>2
  <1>8. i <= Arrived
    BY <1>1, <1>5, <1>6, <1>7, TagMeansArrived
  <1>9. ValueCopy(e) \in {<< >>, ValueOf(i)}
    <2>1. ValueBytes(e) = ValueOf(i)
      BY <1>5, <1>7, <1>8, ValueRead
    <2>2. PICK n \in Nat, k \in Nat : n = e.vlen /\ k = logs[i].klen
      <3>1. e.vlen \in Nat /\ logs[i].klen \in Nat
        BY <1>5, EntryFacts, LogFacts
      <3>2. QED
        BY <3>1
    <2>3. n = logs[i].vlen
      BY <1>7, <2>2 DEF EntryOK
    <2>4. NextOffset(logs[i]) = SIZEOF_LOG + k + n
      BY <2>2, <2>3 DEF NextOffset
    <2>5. n <= NextOffset(logs[i])
      BY <2>2, <2>4, ConstantFacts
    <2>6. ~Refused(n)
      BY <1>5, <2>2, <2>5, NotRefused
    <2>7. QED
      BY <2>1, <2>2, <2>6 DEF ValueCopy
  <1>10. ~Full(executing)
    BY <1>1, ValueHasRoom
  <1>11. PICK f \in Entry : f = [e EXCEPT !.value = ValueCopy(e)]
    BY ValueTypes, WithValue
  <1>12. EntryOK(f, i) /\ f.value \in {<< >>, ValueOf(i)}
    <2>1. /\ f.log = e.log /\ f.klen = e.klen /\ f.vlen = e.vlen /\ f.key = e.key
          /\ f.pos = e.pos /\ f.value = ValueCopy(e)
      BY <1>11, Zenon DEF Entry
    <2>2. QED
      BY <1>7, <1>9, <2>1 DEF EntryOK
  <1>13. /\ executing' = Append(executing, f) /\ peeding' = Tail(peeding) /\ rpc' = "exec"
         /\ UNCHANGED <<rd, rdKey, dirtyQueue, executed, mem, rwr, head>>
    BY <1>6, <1>10, <1>11 DEF ReadValue
  <1>14. executing' = <<f>> /\ Len(executing') = 1 /\ logs' = logs
    BY <1>2, <1>13 DEF head
  <1>15. /\ Len(peeding') = Len(peeding) - 1 /\ DOMAIN peeding' = 1 .. Len(peeding) - 1
         /\ \A k \in 1 .. Len(peeding) - 1 : peeding'[k] = peeding[k + 1]
    BY <1>1, <1>3, <1>13
  <1>16. Back' = Back /\ Parsed' = Parsed
    <2>1. Back' = Len(executed)
      BY <1>13 DEF Back
    <2>2. Parsed' = Len(executed) + 1 + (Len(peeding) - 1)
      BY <1>13, <1>14, <1>15 DEF Parsed
    <2>3. Len(executed) + 1 + (Len(peeding) - 1) = Len(executed) + Len(peeding)
      BY <1>3
    <2>4. QED
      BY <1>2, <2>1, <2>2, <2>3
  <1>17. \A g, k : EntryOK(g, k)' <=> EntryOK(g, k)
    BY <1>14 DEF EntryOK, At
  <1>18. EntriesOK'
    <2>1. \A k \in DOMAIN peeding' : EntryOK(peeding[k], Len(executed) + Len(executing) + k)'
      <3> TAKE k \in DOMAIN peeding'
      <3>1. k \in 1 .. Len(peeding) - 1 /\ k + 1 \in DOMAIN peeding
        BY <1>3, <1>15
      <3>2. EntryOK(peeding[k + 1], Len(executed) + Len(executing) + (k + 1))
        BY <3>1 DEF EntriesOK
      <3>3. Len(executed) + 0 + (k + 1) = Len(executed) + 1 + k
        BY <1>3, <3>1
      <3>4. EntryOK(peeding'[k], Len(executed) + 1 + k)
        BY <1>2, <1>15, <3>1, <3>2, <3>3
      <3>5. QED
        BY <1>13, <1>14, <1>17, <3>4
    <2>2. \A k \in DOMAIN executing' :
            /\ EntryOK(executing[k], Len(executed) + k)'
            /\ executing'[k].value \in {<< >>, ValueOf(Len(executed) + k)'}
      <3> TAKE k \in DOMAIN executing'
      <3>1. k = 1 /\ executing'[k] = f
        BY <1>14
      <3>2. Len(executed') + k = i
        BY <1>4, <1>13, <3>1
      <3>3. ValueOf(i)' = ValueOf(i)
        BY <1>14 DEF ValueOf, ValueOffset
      <3>4. QED
        BY <1>12, <1>17, <3>1, <3>2, <3>3
    <2>3. \A k \in DOMAIN dirtyQueue' : EntryOK(dirtyQueue[k], Back + k)'
      BY <1>1, <1>13, <1>16, <1>17 DEF EntriesOK
    <2>4. QED
      BY <2>1, <2>2, <2>3 DEF EntriesOK
  <1>19. ValuesDelivered'
    BY <1>13, <1>14 DEF ValuesDelivered, ValueOffset
  <1>20. PICK b \in Nat, c \in Nat : b = Back /\ c = Parsed
    BY <1>2, <1>3
  <1>21. /\ At(rd', StartOf(b + 1)) /\ At(rdKey', StartOf(c + 1)) /\ Back <= b
         /\ b <= Len(executed') /\ c <= Published
    BY <1>2, <1>3, <1>13, <1>20, StageFacts DEF PointersCount
  <1>22. Len(executed') + Len(executing') <= Arrived
    BY <1>4, <1>8, <1>13, <1>14
  <1>23. QED
    BY <1>13, <1>16, <1>18, <1>19, <1>20, <1>21, <1>22, ReaderFrame

(* What top_log hands out is the value as it was written. *)
LEMMA ExecuteBytes ==
  ASSUME BytesInv, LinkInv', Execute
  PROVE  BytesInv'
  <1> USE DEF BytesInv
  <1>1. rpc = "exec" /\ Len(executing) = 1 /\ executing # << >>
    BY DEF Execute, LinkInv, PipeOK
  <1>2. /\ Len(peeding) \in Nat /\ Len(executed) \in Nat /\ executed \in Seq(Result)
        /\ executing \in Seq(Entry) /\ Len(logs) \in Nat /\ Arrived \in Int
    BY QueueFacts, QueuedFacts, LenLogs
  <1>3. PICK i \in Nat : i = Len(executed) + 1
    BY <1>2
  <1>4. Back = Len(executed)
    BY <1>1 DEF Back
  <1>5. i \in 1 .. Len(logs) /\ i > Back /\ i <= Arrived
    <2>1. /\ Len(executed) + Len(executing) <= Arrived /\ Arrived <= Taken
          /\ Taken <= Queued /\ Queued <= Len(logs) /\ Taken \in Int /\ Queued \in Int
      BY StageFacts, QueuedFacts
    <2>2. QED
      BY <1>1, <1>2, <1>3, <1>4, <2>1
  <1>6. PICK e \in Entry : e = Head(executing) /\ e = executing[1]
    BY <1>1, <1>2
  <1>7. EntryOK(e, i) /\ e.value \in {<< >>, ValueOf(i)}
    BY <1>1, <1>2, <1>3, <1>6 DEF EntriesOK
  <1>8. ValueBytes(e) = ValueOf(i)
    BY <1>5, <1>7, ValueRead
  <1>9. PICK v \in Seq(Cells) : v = IF e.value # << >> THEN e.value ELSE ValueBytes(e)
    BY ValueTypes, EntryFacts
  <1>10. v = ValueOf(i)
    BY <1>7, <1>8, <1>9
  <1>11. PICK r \in Result : r = [log |-> e.log, value |-> v]
    BY EntryFacts DEF Result
  <1>12. r.log = i /\ r.value = ValueOf(i)
    BY <1>7, <1>10, <1>11 DEF EntryOK
  <1>13. /\ executed' = Append(executed, r) /\ executing' = Tail(executing) /\ rpc' = "clean"
         /\ UNCHANGED <<rd, rdKey, peeding, dirtyQueue, mem, rwr, head>>
    BY <1>6, <1>9, <1>11 DEF Execute
  <1>14. logs' = logs
    BY <1>13 DEF head
  <1>15. /\ Len(executed') = i /\ DOMAIN executed' = 1 .. i
         /\ \A k \in 1 .. Len(executed) : executed'[k] = executed[k]
         /\ executed'[i] = r
    BY <1>2, <1>3, <1>13, AppendProperties
  <1>16. executing' = << >> /\ Len(executing') = 0
    <2>1. executing' \in Seq(Entry) /\ Len(executing') = 0
      BY <1>1, <1>2, <1>13
    <2>2. QED
      BY <2>1, EmptySeq
  <1>17. Back' = Back /\ Parsed' = Parsed
    <2>1. Back' = i - 1
      BY <1>13, <1>15 DEF Back
    <2>2. Parsed' = i + 0 + Len(peeding)
      BY <1>13, <1>15, <1>16 DEF Parsed
    <2>3. Parsed = Len(executed) + 1 + Len(peeding)
      BY <1>1 DEF Parsed
    <2>4. QED
      BY <1>2, <1>3, <1>4, <2>1, <2>2, <2>3
  <1>18. \A g, k : EntryOK(g, k)' <=> EntryOK(g, k)
    BY <1>14 DEF EntryOK, At
  <1>19. EntriesOK'
    <2>1. \A k \in DOMAIN peeding' : EntryOK(peeding[k], Len(executed) + Len(executing) + k)'
      <3> TAKE k \in DOMAIN peeding'
      <3>1. k \in DOMAIN peeding /\ k \in Nat
        BY <1>13, QueueFacts
      <3>2. EntryOK(peeding[k], Len(executed) + Len(executing) + k)
        BY <3>1 DEF EntriesOK
      <3>3. Len(executed) + 1 + k = i + 0 + k
        BY <1>2, <1>3, <3>1
      <3>4. EntryOK(peeding[k], i + 0 + k)
        BY <1>1, <3>2, <3>3
      <3>5. QED
        BY <1>13, <1>15, <1>16, <1>18, <3>4
    <2>2. DOMAIN executing' = {}
      BY <1>16
    <2>3. \A k \in DOMAIN dirtyQueue' : EntryOK(dirtyQueue[k], Back + k)'
      BY <1>1, <1>13, <1>17, <1>18 DEF EntriesOK
    <2>4. QED
      BY <2>1, <2>2, <2>3 DEF EntriesOK
  <1>20. ValuesDelivered'
    <2>1. \A k : ValueOf(k)' = ValueOf(k)
      BY <1>14 DEF ValueOf, ValueOffset
    <2>2. \A k \in DOMAIN executed' : executed'[k].log = k /\ executed'[k].value = ValueOf(k)
      <3> TAKE k \in DOMAIN executed'
      <3>1. CASE k \in 1 .. Len(executed)
        <4>1. k \in DOMAIN executed
          BY <1>2, <3>1
        <4>2. executed[k].log = k /\ executed[k].value = ValueOf(k)
          BY <4>1, Zenon DEF ValuesDelivered, ValueOf
        <4>3. QED
          BY <1>15, <3>1, <4>2
      <3>2. CASE k = i
        BY <1>12, <1>15, <3>2
      <3>3. QED
        BY <1>2, <1>3, <1>15, <3>1, <3>2
    <2>3. \A k \in DOMAIN executed' : executed'[k].log = k /\ executed'[k].value = ValueOf(k)'
      BY <2>1, <2>2
    <2>4. QED
      BY <2>3 DEF ValuesDelivered, ValueOf
  <1>21. PICK b \in Nat, c \in Nat : b = Back /\ c = Parsed
    BY <1>2, <1>4, QueuedFacts
  <1>22. /\ At(rd', StartOf(b + 1)) /\ At(rdKey', StartOf(c + 1)) /\ c <= Published
    BY <1>13, <1>21, StageFacts DEF PointersCount
  <1>23. Back <= b /\ b <= Len(executed') /\ Len(executed') + Len(executing') <= Arrived
    BY <1>2, <1>3, <1>4, <1>5, <1>15, <1>16, <1>21
  <1>24. QED
    BY <1>13, <1>17, <1>19, <1>20, <1>21, <1>22, <1>23, ReaderFrame

(* clean_log gives back the space of the log that was executed last. *)
LEMMA CleanLogBytes ==
  ASSUME BytesInv, LinkInv', CleanLog
  PROVE  BytesInv'
  <1> USE DEF BytesInv
  <1>1. rpc = "clean" /\ Len(dirtyQueue) = Len(peeding) + 1 /\ executing = << >>
    BY QueueFacts DEF CleanLog, LinkInv, PipeOK
  <1>2. /\ Len(peeding) \in Nat /\ Len(executed) \in Nat /\ dirtyQueue \in Seq(Entry)
        /\ Len(logs) \in Nat /\ dirtyQueue # << >> /\ Len(dirtyQueue) \in Nat
    BY <1>1, QueueFacts, LenLogs
  <1>3. Back = Len(executed) - 1
    BY <1>1 DEF Back
  <1>4. PICK i \in Nat : i = Len(executed)
    BY <1>2
  <1>5. i \in 1 .. Len(logs)
    <2>1. Back >= 0 /\ Back + 1 \in 1 .. Len(logs) + 1 /\ Parsed <= Published
          /\ Published <= Len(logs) /\ Len(executed) + Len(executing) <= Parsed
          /\ Parsed \in Int /\ Published \in Int /\ Len(executing) \in Nat
      BY StageFacts, QueuedFacts, QueueFacts
    <2>2. QED
      BY <1>2, <1>3, <1>4, <2>1
  <1>6. PICK e \in Entry : e = Head(dirtyQueue) /\ e = dirtyQueue[1]
    BY <1>2
  <1>7. EntryOK(e, i)
    <2>1. EntryOK(dirtyQueue[1], Back + 1)
      BY <1>1, <1>2 DEF EntriesOK
    <2>2. Back + 1 = i
      BY <1>2, <1>3, <1>4
    <2>3. QED
      BY <1>6, <2>1, <2>2
  <1>8. /\ dirtyQueue' = Tail(dirtyQueue)
        /\ \/ rpc' = "abort" /\ rd' = rd
           \/ /\ rd' = Wrap(rd + NextOffset(e))
              /\ rpc' = IF Len(executed) = REPEAT THEN "done" ELSE "key"
        /\ UNCHANGED <<rdKey, peeding, executing, executed, mem, rwr, head>>
    BY <1>2, <1>6 DEF CleanLog
  <1>9. logs' = logs
    BY <1>8 DEF head
  <1>10. Parsed' = Parsed
    BY <1>8 DEF Parsed
  <1>11. PICK c \in Nat : c = Parsed
    BY QueuedFacts
  <1>12. /\ At(rdKey', StartOf(c + 1)) /\ c <= Published
         /\ Len(executed') + Len(executing') <= Arrived
    BY <1>8, <1>11, StageFacts DEF PointersCount
  <1>13. ValuesDelivered'
    BY <1>8, <1>9 DEF ValuesDelivered, ValueOffset
  <1>14. \A g, k : EntryOK(g, k)' <=> EntryOK(g, k)
    BY <1>9 DEF EntryOK, At
  <1>15. /\ \A k \in DOMAIN peeding' : EntryOK(peeding[k], Len(executed) + Len(executing) + k)'
         /\ DOMAIN executing' = {}
    <2>1. DOMAIN executing' = {}
      BY <1>1, <1>8
    <2>2. \A k \in DOMAIN peeding' : EntryOK(peeding[k], Len(executed) + Len(executing) + k)'
      BY <1>8, <1>14 DEF EntriesOK
    <2>3. QED
      BY <2>1, <2>2
  <1>16. CASE rpc' = "abort" /\ rd' = rd
    <2>1. PICK b \in Nat : b = Back
      <3>1. Back \in Nat
        BY <1>3, <1>4, <1>5
      <3>2. QED
        BY <3>1
    <2>2. Back' = b
      BY <1>3, <1>8, <1>16, <2>1 DEF Back
    <2>3. EntriesOK'
      BY <1>15, <1>16 DEF EntriesOK
    <2>4. At(rd', StartOf(b + 1))
      BY <1>16, <2>1 DEF PointersCount
    <2>5. Back <= b /\ b <= Len(executed')
      BY <1>2, <1>3, <1>8, <2>1
    <2>6. QED
      BY <1>8, <1>10, <1>11, <1>12, <1>13, <2>1, <2>2, <2>3, <2>4, <2>5, ReaderFrame
  <1>17. CASE rpc' # "abort"
    <2>1. /\ rd' = Wrap(rd + NextOffset(e)) /\ rpc' \in {"done", "key"}
      BY <1>8, <1>17
    <2>2. Back' = i
      BY <1>4, <1>8, <2>1 DEF Back
    <2>3. At(rd', StartOf(i + 1))
      <3>1. PICK p \in Int, s \in Int, n \in Int : p = rd /\ s = StartOf(i) /\ n = NextOffset(logs[i])
        <4>1. rd \in Int
          BY ConstantFacts DEF LinkInv, Types, TailTypes
        <4>2. StartOf(i) = logs[i].start /\ logs[i].start \in Nat /\ NextOffset(logs[i]) \in Nat
          BY <1>5, ChainFacts, LogFacts
        <4>3. QED
          BY <4>1, <4>2
      <3>2. Back + 1 = i
        BY <1>2, <1>3, <1>4
      <3>3. At(p, s)
        BY <3>1, <3>2 DEF PointersCount
      <3>4. At(Wrap(p + n), s + n)
        BY <3>1, <3>3, AtMoves
      <3>5. NextOffset(e) = n
        BY <1>7, <3>1 DEF EntryOK, NextOffset
      <3>6. StartOf(i + 1) = s + n
        BY <1>5, <3>1, ChainFacts
      <3>7. QED
        BY <2>1, <3>1, <3>4, <3>5, <3>6
    <2>4. /\ DOMAIN dirtyQueue' = 1 .. Len(peeding)
          /\ \A k \in 1 .. Len(peeding) : dirtyQueue'[k] = dirtyQueue[k + 1]
      BY <1>1, <1>2, <1>8
    <2>5. \A k \in DOMAIN dirtyQueue' : EntryOK(dirtyQueue[k], Back + k)'
      <3> TAKE k \in DOMAIN dirtyQueue'
      <3>1. k \in 1 .. Len(peeding) /\ k + 1 \in DOMAIN dirtyQueue
        BY <1>1, <1>2, <2>4
      <3>2. EntryOK(dirtyQueue[k + 1], Back + (k + 1))
        BY <1>1, <3>1 DEF EntriesOK
      <3>3. Back + (k + 1) = i + k
        <4>1. Back = i - 1 /\ i \in Nat /\ k \in Nat
          BY <1>3, <1>4, <2>4, <3>1
        <4>2. QED
          BY <4>1
      <3>4. EntryOK(dirtyQueue'[k], i + k)
        BY <2>4, <3>1, <3>2, <3>3
      <3>5. QED
        BY <1>14, <2>2, <3>4
    <2>6. EntriesOK'
      BY <1>15, <2>5 DEF EntriesOK
    <2>7. Back <= i /\ i <= Len(executed')
      BY <1>2, <1>3, <1>4, <1>8
    <2>8. QED
      BY <1>8, <1>10, <1>11, <1>12, <1>13, <2>2, <2>3, <2>6, <2>7, ReaderFrame
  <1>18. QED
    BY <1>8, <1>16, <1>17

----------------------------------------------------------------------------
(* What holds of every reachable state, provided that the queues hold as   *)
(* many logs as the ring and that no stale byte is taken for a tag.        *)

LEMMA StepKeepsBytes ==
  ASSUME QueuesHoldRing, BytesInv, TagsFresh, [Next]_vars
  PROVE  BytesInv'
  <1>1. LinkInv'
    BY StepKeepsInv DEF BytesInv
  <1>2. CASE Writer
    BY <1>1, <1>2, CheckSizeBytes, CheckAgainBytes, WriteMateBytes, PutSendingBytes DEF Writer
  <1>3. CASE NicWrite
    BY <1>1, <1>3, NicWriteBytes
  <1>4. CASE \E t \in Threads : Issue(t)
    BY <1>1, <1>4, IssueBytes
  <1>5. CASE Worker
    BY <1>1, <1>5, FetchRdBytes, PushWrBytes, LandByteBytes DEF Worker
  <1>6. CASE AllocRing
    BY <1>1, <1>6, AllocRingBytes
  <1>7. CASE Reader
    BY <1>1, <1>7, StartReaderBytes, ReadKeyBytes, ReadKeyReturnBytes, NoValueBytes,
       ReadValueBytes, ExecuteBytes, CleanLogBytes DEF Reader
  <1>8. CASE Forward
    BY <1>1, <1>8, ForwardBytes
  <1>9. CASE UNCHANGED vars
    BY <1>1, <1>9, ReaderQuiet DEF vars, head
  <1>10. QED
    BY <1>2, <1>3, <1>4, <1>5, <1>6, <1>7, <1>8, <1>9 DEF Next

LEMMA BytesInvariant ==
  ASSUME QueuesHoldRing
  PROVE  Spec /\ []TagsFresh => []BytesInv
  <1>1. BytesInv /\ TagsFresh /\ [Next]_vars => BytesInv'
    BY StepKeepsBytes
  <1>2. QED
    BY <1>1, InitBytes, PTL DEF Spec

(***************************************************************************)
(* top_log hands every log to the application once, in the order written,  *)
(* each byte of its value being that byte of that log: for a ring of any   *)
(* size, logs of any length and any interleaving of the threads, as long   *)
(* as no byte that a tag will overwrite looks like a tag already           *)
(* (log_buffer.c:471-480, 629-652).                                        *)
(***************************************************************************)
THEOREM LinkDeliversValues ==
  ASSUME QueuesHoldRing
  PROVE  Spec /\ []TagsFresh => []ValuesDelivered
  <1>1. BytesInv => ValuesDelivered
    BY DEF BytesInv
  <1>2. QED
    BY <1>1, BytesInvariant, PTL

(***************************************************************************)
(* No write into the ring touches the metadata or the key of a published   *)
(* log before clean_log has freed it (log_buffer.c:386-436, 540-579).      *)
(***************************************************************************)
THEOREM LinkKeepsKeys ==
  ASSUME QueuesHoldRing
  PROVE  Spec /\ []TagsFresh => []KeysIntact
  BY InvKeysIntact, BytesInvariant, PTL

(***************************************************************************)
(* head_node_write_log never finds sending_queue full once the metadata of *)
(* the log is published (log_buffer.c:320-323, 363-377).                   *)
(***************************************************************************)
THEOREM LinkSendsAll ==
  ASSUME QueuesHoldRing
  PROVE  Spec /\ []TagsFresh => []SendingNeverFull
  <1>1. BytesInv => SendingNeverFull
    BY InvSendingNeverFull
  <1>2. QED
    BY <1>1, BytesInvariant, PTL


----------------------------------------------------------------------------
(* The dirty map.  As long as no key comes twice it holds one entry per    *)
(* log of dirty_queue, and the string behind the entry's key pointer is    *)
(* the key, because the log is not freed yet.                              *)

DirtyRec(e) == [key |-> e.key, log |-> e.log, pos |-> e.pos, klen |-> e.klen,
                keyCut |-> e.keyCut, cnt |-> 1]

DirtyInv ==
  /\ NoAbort
  /\ \A k \in DOMAIN dirtyQueue :
       ~dirtyQueue[k].keyCut => KeyPos(dirtyQueue[k]) + dirtyQueue[k].klen < TOTAL_SIZE
  /\ dirtyMap = {DirtyRec(dirtyQueue[k]) : k \in DOMAIN dirtyQueue}


(* The k-th log of dirty_queue. *)
LEMMA DirtyLog ==
  ASSUME BytesInv, rpc # "abort", NEW k \in DOMAIN dirtyQueue
  PROVE  /\ dirtyQueue[k] \in Entry /\ k \in Nat /\ k > 0
         /\ Freed = Back /\ Back \in Nat
         /\ Back + k \in 1 .. Len(logs) /\ Back + k <= Published /\ Back + k > Back
         /\ EntryOK(dirtyQueue[k], Back + k)
         /\ Back + k \in Freed + 1 .. Len(logs)
  <1> USE DEF BytesInv
  <1>1. /\ Len(peeding) \in Nat /\ Len(executing) \in Nat /\ Len(executed) \in Nat
        /\ Len(dirtyQueue) \in Nat /\ dirtyQueue \in Seq(Entry)
        /\ Back \in Int /\ Back >= 0 /\ Published \in Int /\ Len(logs) \in Nat
        /\ Parsed <= Published /\ Published <= Len(logs)
    BY QueueFacts, QueuedFacts, StageFacts, LenLogs
  <1>2. dirtyQueue[k] \in Entry /\ k \in Nat /\ k > 0 /\ k <= Len(dirtyQueue)
    BY <1>1
  <1>3. Freed = Back
    BY DEF Freed, Back
  <1>4. Back + Len(dirtyQueue) = Parsed
    <2>1. CASE rpc = "clean"
      <3>1. Len(dirtyQueue) = Len(peeding) + Len(executing) + 1 /\ Back = Len(executed) - 1
        BY <2>1 DEF LinkInv, PipeOK, Back
      <3>2. QED
        BY <1>1, <3>1 DEF Parsed
    <2>2. CASE rpc # "clean"
      <3>1. Len(dirtyQueue) = Len(peeding) + Len(executing) + 0 /\ Back = Len(executed)
        BY <2>2 DEF LinkInv, PipeOK, Back
      <3>2. QED
        BY <1>1, <3>1 DEF Parsed
    <2>3. QED
      BY <2>1, <2>2
  <1>5. /\ Back + k \in 1 .. Len(logs) /\ Back + k <= Published /\ Back + k > Back
        /\ Back \in Nat /\ Back + k \in Back + 1 .. Len(logs)
    <2>1. PICK b, n, p, m \in Int :
            b = Back /\ n = Len(dirtyQueue) /\ p = Published /\ m = Len(logs)
      BY <1>1
    <2>2. b >= 0 /\ b + n <= p /\ p <= m /\ k \in Int /\ k > 0 /\ k <= n
      BY <1>1, <1>2, <1>4, <2>1
    <2>3. b \in Int /\ n \in Int /\ p \in Int /\ m \in Int
      BY <2>1
    <2>4. b + k \in 1 .. m /\ b + k <= p /\ b + k > b /\ b \in Nat /\ b + k \in b + 1 .. m
      BY <2>2, <2>3
    <2>5. QED
      BY <2>1, <2>4
  <1>6. EntryOK(dirtyQueue[k], Back + k)
    BY DEF EntriesOK
  <1>7. QED
    BY <1>2, <1>3, <1>5, <1>6

(* Its key is nobody else's. *)
LEMMA DirtyKeysApart ==
  ASSUME BytesInv, rpc # "abort", KeysOnce, NEW k \in DOMAIN dirtyQueue,
         NEW j \in Freed + 1 .. Len(logs), dirtyQueue[k].key = logs[j].key
  PROVE  j = Back + k
  <1>1. PICK i \in Freed + 1 .. Len(logs) : i = Back + k
    BY DirtyLog
  <1>2. logs[i].key = logs[j].key
    BY <1>1, DirtyLog DEF EntryOK
  <1>3. QED
    BY <1>1, <1>2 DEF KeysOnce

LEMMA DirtyApart ==
  ASSUME BytesInv, rpc # "abort", KeysOnce, NEW k \in DOMAIN dirtyQueue,
         NEW l \in DOMAIN dirtyQueue, dirtyQueue[k].key = dirtyQueue[l].key
  PROVE  k = l
  <1>1. PICK j \in Freed + 1 .. Len(logs) : j = Back + l
    BY DirtyLog
  <1>2. dirtyQueue[k].key = logs[j].key
    BY <1>1, DirtyLog DEF EntryOK
  <1>3. j = Back + k
    BY <1>2, DirtyKeysApart
  <1>4. k \in Nat /\ l \in Nat /\ Back \in Nat
    BY DirtyLog
  <1>5. QED
    BY <1>1, <1>3, <1>4

LEMMA DirtyRecFields ==
  ASSUME NEW e \in Entry
  PROVE  /\ DirtyRec(e).key = e.key /\ DirtyRec(e).log = e.log /\ DirtyRec(e).pos = e.pos
         /\ DirtyRec(e).klen = e.klen /\ DirtyRec(e).keyCut = e.keyCut
         /\ DirtyRec(e).cnt = 1
  BY DEF DirtyRec

(* The string behind its key pointer is still its key. *)
LEMMA KeyStillReads ==
  ASSUME BytesInv, DirtyInv, NEW k \in DOMAIN dirtyQueue, NEW garbage \in BOOLEAN
  PROVE  StillReads(DirtyRec(dirtyQueue[k]), dirtyQueue[k].key, garbage)
  <1> USE DEF BytesInv
  <1>1. rpc # "abort"
    BY DEF DirtyInv, NoAbort
  <1>2. PICK e \in Entry : e = dirtyQueue[k]
    BY <1>1, DirtyLog
  <1>3. PICK i \in 1 .. Len(logs) : i = Back + k
    BY <1>1, DirtyLog
  <1>4. i > Back /\ i <= Published /\ EntryOK(e, i)
    BY <1>1, <1>2, <1>3, DirtyLog
  <1>5. PICK d : d = DirtyRec(e)
    OBVIOUS
  <1>6. /\ d.key = e.key /\ d.log = e.log /\ d.pos = e.pos /\ d.klen = e.klen
        /\ d.keyCut = e.keyCut
    BY <1>5, DirtyRecFields
  <1>7. CASE e.keyCut
    <2>1. \E l \in DOMAIN dirtyQueue : dirtyQueue[l].log = d.log
      BY <1>2, <1>6
    <2>2. QED
      BY <1>2, <1>5, <1>6, <1>7, <2>1 DEF StillReads
  <1>8. CASE ~e.keyCut
    <2>1. ASSUME NEW o \in 0 .. e.klen - 1
          PROVE  LET c == mem[KeyPos(d) + o]
                 IN c # Zero /\ LogOf(c).key = e.key /\ c[2] = SIZEOF_LOG + o
      <3>1. PICK kl \in Nat, x \in Int, s \in Int :
              kl = e.klen /\ x = e.pos /\ s = logs[i].start
        <4>1. e.klen \in Nat /\ e.pos \in Nat /\ logs[i].start \in Nat
          BY EntryFacts, LogFacts
        <4>2. e.pos \in Int /\ logs[i].start \in Int
          BY <4>1
        <4>3. QED
          BY <4>1, <4>2, Zenon
      <3>2. o \in Nat /\ o < kl /\ SIZEOF_LOG \in Nat /\ TOTAL_SIZE \in Nat
        BY <3>1, ConstantFacts
      <3>3. PICK f \in Nat : f = SIZEOF_LOG + o
        BY <3>2
      <3>4. f < ValueOffset(logs[i])
        <4>1. ValueOffset(logs[i]) = SIZEOF_LOG + kl
          BY <1>4, <3>1 DEF EntryOK, ValueOffset
        <4>2. SIZEOF_LOG + o < SIZEOF_LOG + kl
          BY <3>1, <3>2
        <4>3. QED
          BY <3>3, <4>1, <4>2
      <3>5. f \in Offsets(i) /\ Written(i, f)
        BY <1>4, <3>3, <3>4, KeyWritten
      <3>6. PICK y \in 0 .. TOTAL_SIZE - 1 : y = KeyPos(d) /\ y = KeyPos(e) /\ y = Wrap(x + SIZEOF_LOG)
        <4>1. x + SIZEOF_LOG \in Int
          BY <3>1, <3>2
        <4>2. Wrap(x + SIZEOF_LOG) \in 0 .. TOTAL_SIZE - 1
          BY <4>1, WrapInRing
        <4>3. KeyPos(e) = Wrap(x + SIZEOF_LOG) /\ KeyPos(d) = Wrap(x + SIZEOF_LOG)
          BY <1>6, <3>1 DEF KeyPos
        <4>4. QED
          BY <4>2, <4>3
      <3>7. PICK p \in 0 .. TOTAL_SIZE - 1 : p = y + o
        <4>1. y + kl < TOTAL_SIZE
          BY <1>2, <1>8, <3>1, <3>6 DEF DirtyInv
        <4>2. y \in 0 .. TOTAL_SIZE - 1 /\ kl \in Nat
          BY <3>1, <3>6
        <4>3. y + o \in 0 .. TOTAL_SIZE - 1
          BY <3>2, <4>1, <4>2
        <4>4. QED
          BY <4>3
      <3>8. At(p, Off(i, f))
        <4>1. At(x, s)
          BY <1>4, <3>1 DEF EntryOK
        <4>2. At(Wrap(x + SIZEOF_LOG), s + SIZEOF_LOG)
          <5>1. SIZEOF_LOG \in Int
            BY ConstantFacts
          <5>2. QED
            BY <3>1, <4>1, <5>1, AtMoves
        <4>3. PICK z \in Int, w \in Int : z = y /\ w = s + SIZEOF_LOG
          <5>1. SIZEOF_LOG \in Int /\ TOTAL_SIZE \in Int
            BY ConstantFacts
          <5>2. y \in Int /\ s \in Int
            BY <3>1, <3>6, <5>1
          <5>3. s + SIZEOF_LOG \in Int
            BY <5>1, <5>2
          <5>4. QED
            BY <5>2, <5>3
        <4>4. At(z, w) /\ o \in Int
          BY <3>2, <3>6, <4>2, <4>3
        <4>5. At(z + o, w + o)
          BY <4>4, AtPlus
        <4>6. w + o = s + f
          <5>1. s \in Int /\ SIZEOF_LOG \in Nat /\ o \in Nat
            BY <3>1, <3>2
          <5>2. (s + SIZEOF_LOG) + o = s + (SIZEOF_LOG + o)
            BY <5>1
          <5>3. QED
            BY <3>3, <4>3, <5>2
        <4>7. Off(i, f) = s + f
          BY <3>1 DEF Off
        <4>8. QED
          BY <3>7, <4>3, <4>5, <4>6, <4>7
      <3>9. mem[p] = <<i, f>>
        BY <1>4, <3>5, <3>8, LiveCell
      <3>10. mem[p] # Zero /\ mem[p][1] = i /\ mem[p][2] = f
        <4>1. i # 0
          OBVIOUS
        <4>2. QED
          BY <3>9, <4>1 DEF Zero
      <3>11. LogOf(mem[p]).key = e.key
        BY <1>4, <3>10 DEF LogOf, EntryOK
      <3>12. QED
        BY <3>3, <3>6, <3>7, <3>10, <3>11
    <2>2. QED
      BY <1>2, <1>5, <1>6, <1>8, <2>1 DEF StillReads
  <1>9. QED
    BY <1>7, <1>8


(* Looked up for a key, the map yields the entry of the log that has it. *)
LEMMA DirtyFound ==
  ASSUME BytesInv, DirtyInv, KeysOnce, NEW k \in DOMAIN dirtyQueue, NEW garbage \in BOOLEAN
  PROVE  DirtyEntries(dirtyQueue[k].key, garbage) = {DirtyRec(dirtyQueue[k])}
  <1>1. rpc # "abort"
    BY DEF DirtyInv, NoAbort
  <1>2. ASSUME NEW d \in DirtyEntries(dirtyQueue[k].key, garbage)
        PROVE  d = DirtyRec(dirtyQueue[k])
    <2>1. d \in dirtyMap /\ d.key = dirtyQueue[k].key
      BY DEF DirtyEntries
    <2>2. PICK l \in DOMAIN dirtyQueue : d = DirtyRec(dirtyQueue[l])
      BY <2>1 DEF DirtyInv
    <2>3. dirtyQueue[l].key = dirtyQueue[k].key
      BY <1>1, <2>1, <2>2, DirtyLog, DirtyRecFields
    <2>4. l = k
      BY <1>1, <2>3, DirtyApart
    <2>5. QED
      BY <2>2, <2>4
  <1>3. DirtyRec(dirtyQueue[k]) \in DirtyEntries(dirtyQueue[k].key, garbage)
    <2>1. DirtyRec(dirtyQueue[k]).key = dirtyQueue[k].key
      BY <1>1, DirtyLog, DirtyRecFields
    <2>2. DirtyRec(dirtyQueue[k]) \in dirtyMap
      BY DEF DirtyInv
    <2>3. QED
      BY <2>1, <2>2, KeyStillReads, Zenon DEF DirtyEntries
  <1>4. QED
    BY <1>2, <1>3

(* A key that no log of dirty_queue has is not found. *)
LEMMA DirtyNotFound ==
  ASSUME BytesInv, DirtyInv, NEW key, NEW garbage \in BOOLEAN,
         \A l \in DOMAIN dirtyQueue : dirtyQueue[l].key # key
  PROVE  DirtyEntries(key, garbage) = {}
  <1> SUFFICES ASSUME NEW d \in dirtyMap, d.key = key PROVE FALSE
    BY Zenon DEF DirtyEntries
  <1>1. rpc # "abort"
    BY DEF DirtyInv, NoAbort
  <1>2. PICK l \in DOMAIN dirtyQueue : d = DirtyRec(dirtyQueue[l])
    BY DEF DirtyInv
  <1>3. d.key = dirtyQueue[l].key
    BY <1>1, <1>2, DirtyLog, DirtyRecFields
  <1>4. QED
    BY <1>3

LEMMA ReadKeyDirty ==
  ASSUME BytesInv, DirtyInv, KeysOnce, QueuesHoldRing, ReadKey
  PROVE  DirtyInv'
  <1> USE DEF BytesInv
  <1>1. rpc = "key" /\ MoreKeys /\ rpc # "abort"
    BY DEF ReadKey
  <1>2. ~Full(peeding) /\ ~Full(dirtyQueue)
    BY <1>1, KeysHaveRoom
  <1>3. PICK e \in Entry : e = EntryAt(rdKey)
    BY EntryTypes
  <1>4. PICK garbage \in BOOLEAN : MarkDirty(e, garbage)
    BY <1>3 DEF ReadKey
  <1>5. dirtyQueue' = Append(dirtyQueue, e) /\ rpc' = rpc
    BY <1>2, <1>3 DEF ReadKey
  <1>6. /\ Len(dirtyQueue) \in Nat /\ DOMAIN dirtyQueue = 1 .. Len(dirtyQueue)
        /\ DOMAIN dirtyQueue' = 1 .. Len(dirtyQueue) + 1
        /\ \A k \in 1 .. Len(dirtyQueue) : dirtyQueue'[k] = dirtyQueue[k]
        /\ dirtyQueue'[Len(dirtyQueue) + 1] = e
    <2>1. dirtyQueue \in Seq(Entry) /\ Len(dirtyQueue) \in Nat
      BY QueueFacts
    <2>2. QED
      BY <1>5, <2>1, AppendProperties
  <1>7. DirtyEntries(e.key, garbage) = {}
    <2>1. PICK i \in Nat : i = Parsed + 1
      <3>1. Parsed \in Nat
        BY QueuedFacts
      <3>2. QED
        BY <3>1
    <2>2. i \in 1 .. Len(logs) /\ EntryOK(e, i)
      BY <1>1, <1>3, <2>1, EntryRead
    <2>3. /\ Back = Len(executed) /\ Len(dirtyQueue) = Len(peeding)
          /\ Parsed = Len(executed) + Len(peeding)
      BY <1>1, QueueLens
    <2>4. Len(peeding) \in Nat /\ Len(executed) \in Nat /\ Len(logs) \in Nat
      BY QueueFacts, LenLogs
    <2>5. Freed = Len(executed)
      BY <1>1 DEF Freed
    <2>6. i \in Freed + 1 .. Len(logs)
      BY <2>1, <2>2, <2>3, <2>4, <2>5
    <2>7. ASSUME NEW l \in DOMAIN dirtyQueue, dirtyQueue[l].key = e.key
          PROVE  FALSE
      <3>1. dirtyQueue[l].key = logs[i].key
        BY <2>2, <2>7 DEF EntryOK
      <3>2. i = Back + l
        BY <1>1, <2>6, <3>1, DirtyKeysApart
      <3>3. l \in 1 .. Len(peeding)
        BY <1>6, <2>3
      <3>4. QED
        BY <2>1, <2>3, <2>4, <3>2, <3>3
    <2>8. QED
      BY <2>7, DirtyNotFound
  <1>8. dirtyMap' = dirtyMap \cup {DirtyRec(e)}
    BY <1>4, <1>7 DEF MarkDirty, DirtyRec
  <1>9. dirtyMap' = {DirtyRec(dirtyQueue'[k]) : k \in DOMAIN dirtyQueue'}
    <2>1. dirtyMap = {DirtyRec(dirtyQueue[k]) : k \in 1 .. Len(dirtyQueue)}
      BY <1>6 DEF DirtyInv
    <2>2. \A k \in 1 .. Len(dirtyQueue) + 1 :
            k \in 1 .. Len(dirtyQueue) \/ k = Len(dirtyQueue) + 1
      BY <1>6
    <2>3. 1 .. Len(dirtyQueue) \subseteq 1 .. Len(dirtyQueue) + 1
          /\ Len(dirtyQueue) + 1 \in 1 .. Len(dirtyQueue) + 1
      BY <1>6
    <2>4. ASSUME NEW d \in dirtyMap' PROVE \E k \in DOMAIN dirtyQueue' : d = DirtyRec(dirtyQueue'[k])
      <3>1. CASE d \in dirtyMap
        <4>1. PICK k \in 1 .. Len(dirtyQueue) : d = DirtyRec(dirtyQueue[k])
          BY <2>1, <3>1
        <4>2. k \in DOMAIN dirtyQueue' /\ dirtyQueue'[k] = dirtyQueue[k]
          BY <1>6, <2>3
        <4>3. QED
          BY <4>1, <4>2
      <3>2. CASE d = DirtyRec(e)
        BY <1>6, <2>3, <3>2
      <3>3. QED
        BY <1>8, <3>1, <3>2
    <2>5. ASSUME NEW k \in DOMAIN dirtyQueue' PROVE DirtyRec(dirtyQueue'[k]) \in dirtyMap'
      <3>1. CASE k \in 1 .. Len(dirtyQueue)
        BY <1>6, <1>8, <2>1, <3>1
      <3>2. CASE k = Len(dirtyQueue) + 1
        BY <1>6, <1>8, <3>2
      <3>3. QED
        BY <1>6, <2>2, <3>1, <3>2
    <2>6. QED
      BY <2>4, <2>5, Zenon
  <1>10. ~e.keyCut => KeyPos(e) + e.klen < TOTAL_SIZE
    <2>1. PICK x \in Int : x = KeyPos(e) + e.klen
      <3>1. e.pos \in Nat /\ e.klen \in Nat /\ SIZEOF_LOG \in Nat /\ TOTAL_SIZE \in Nat
        BY EntryFacts, ConstantFacts
      <3>2. e.pos + SIZEOF_LOG \in Int
        BY <3>1
      <3>3. KeyPos(e) \in 0 .. TOTAL_SIZE - 1
        BY <3>2, WrapInRing DEF KeyPos
      <3>4. KeyPos(e) + e.klen \in Int
        BY <3>1, <3>3
      <3>5. QED
        BY <3>4
    <2>2. e.keyCut = (KeyPos(e) + e.klen >= TOTAL_SIZE)
      BY <1>3, Zenon DEF EntryAt, KeyPos
    <2>3. ~e.keyCut => ~(x >= TOTAL_SIZE)
      BY <2>1, <2>2, Zenon
    <2>4. ~(x >= TOTAL_SIZE) => x < TOTAL_SIZE
      BY <2>1, ConstantFacts
    <2>5. QED
      BY <2>1, <2>3, <2>4, Zenon
  <1>11. ASSUME NEW k \in DOMAIN dirtyQueue', ~dirtyQueue'[k].keyCut
         PROVE  KeyPos(dirtyQueue'[k]) + dirtyQueue'[k].klen < TOTAL_SIZE
    <2>1. CASE k \in 1 .. Len(dirtyQueue)
      BY <1>6, <1>11, <2>1 DEF DirtyInv
    <2>2. CASE k = Len(dirtyQueue) + 1
      BY <1>6, <1>10, <1>11, <2>2
    <2>3. QED
      BY <1>6, <2>1, <2>2
  <1>12. QED
    BY <1>1, <1>5, <1>9, <1>11 DEF DirtyInv, NoAbort, KeyPos


LEMMA CleanLogDirty ==
  ASSUME BytesInv, DirtyInv, KeysOnce, CleanLog
  PROVE  DirtyInv'
  <1> USE DEF BytesInv
  <1>1. rpc = "clean" /\ rpc # "abort" /\ Len(dirtyQueue) = Len(peeding) + 1
    BY QueueFacts DEF CleanLog, LinkInv, PipeOK
  <1>2. /\ Len(peeding) \in Nat /\ dirtyQueue \in Seq(Entry) /\ Len(dirtyQueue) \in Nat
        /\ dirtyQueue # << >> /\ DOMAIN dirtyQueue = 1 .. Len(dirtyQueue)
        /\ 1 \in DOMAIN dirtyQueue
    BY <1>1, QueueFacts
  <1>3. PICK e \in Entry : e = Head(dirtyQueue) /\ e = dirtyQueue[1]
    BY <1>2
  <1>4. \A garbage \in BOOLEAN : DirtyEntries(e.key, garbage) = {DirtyRec(e)}
    BY <1>2, <1>3, DirtyFound
  <1>5. DirtyRec(e).cnt = 1
    BY DirtyRecFields
  <1>6. /\ dirtyQueue' = Tail(dirtyQueue) /\ dirtyMap' = dirtyMap \ {DirtyRec(e)}
        /\ rpc' # "abort"
    <2>1. PICK garbage \in BOOLEAN :
            LET found == DirtyEntries(e.key, garbage)
            IN /\ dirtyQueue' = Tail(dirtyQueue)
               /\ IF found = {}
                  THEN rpc' = "abort" /\ UNCHANGED <<dirtyMap, rd>>
                  ELSE /\ MarkClean(found)
                       /\ rd' = Wrap(rd + NextOffset(e))
                       /\ rpc' = IF Len(executed) = REPEAT THEN "done" ELSE "key"
      BY <1>2, <1>3 DEF CleanLog
    <2>2. DirtyEntries(e.key, garbage) = {DirtyRec(e)}
      BY <1>4
    <2>3. dirtyQueue' = Tail(dirtyQueue) /\ MarkClean({DirtyRec(e)}) /\ rpc' \in {"done", "key"}
      BY <2>1, <2>2
    <2>4. (CHOOSE d \in {DirtyRec(e)} : TRUE) = DirtyRec(e)
      OBVIOUS
    <2>5. dirtyMap' = (dirtyMap \ {DirtyRec(e)}) \cup {}
      BY <1>5, <2>3, <2>4, Zenon DEF MarkClean
    <2>6. QED
      BY <2>3, <2>5
  <1>7. /\ DOMAIN dirtyQueue' = 1 .. Len(peeding)
        /\ \A k \in 1 .. Len(peeding) : dirtyQueue'[k] = dirtyQueue[k + 1]
                                        /\ k + 1 \in DOMAIN dirtyQueue /\ k + 1 # 1
    BY <1>1, <1>2, <1>6
  <1>8. \A l \in DOMAIN dirtyQueue : l # 1 => l - 1 \in 1 .. Len(peeding) /\ (l - 1) + 1 = l
    BY <1>1, <1>2
  <1>9. dirtyMap' = {DirtyRec(dirtyQueue'[k]) : k \in DOMAIN dirtyQueue'}
    <2>1. ASSUME NEW d \in dirtyMap' PROVE \E k \in DOMAIN dirtyQueue' : d = DirtyRec(dirtyQueue'[k])
      <3>1. d \in dirtyMap /\ d # DirtyRec(e)
        BY <1>6
      <3>2. PICK l \in DOMAIN dirtyQueue : d = DirtyRec(dirtyQueue[l])
        BY <3>1 DEF DirtyInv
      <3>3. l # 1
        BY <1>3, <3>1, <3>2
      <3>4. PICK k \in 1 .. Len(peeding) : k + 1 = l
        BY <1>8, <3>3
      <3>5. k \in DOMAIN dirtyQueue' /\ dirtyQueue'[k] = dirtyQueue[l]
        BY <1>7, <3>4
      <3>6. QED
        BY <3>2, <3>5
    <2>2. ASSUME NEW k \in DOMAIN dirtyQueue' PROVE DirtyRec(dirtyQueue'[k]) \in dirtyMap'
      <3>1. PICK l \in DOMAIN dirtyQueue : l # 1 /\ dirtyQueue'[k] = dirtyQueue[l]
        BY <1>7
      <3>2. DirtyRec(dirtyQueue[l]) \in dirtyMap
        BY DEF DirtyInv
      <3>3. DirtyRec(dirtyQueue[l]) # DirtyRec(e)
        <4>1. DirtyRec(dirtyQueue[l]).key = dirtyQueue[l].key /\ DirtyRec(e).key = e.key
          BY <1>1, DirtyLog, DirtyRecFields
        <4>2. dirtyQueue[l].key # dirtyQueue[1].key
          BY <1>1, <1>2, <3>1, DirtyApart
        <4>3. QED
          BY <1>3, <4>1, <4>2
      <3>4. QED
        BY <1>6, <3>1, <3>2, <3>3
    <2>3. QED
      BY <2>1, <2>2, Zenon
  <1>10. ASSUME NEW k \in DOMAIN dirtyQueue', ~dirtyQueue'[k].keyCut
         PROVE  KeyPos(dirtyQueue'[k]) + dirtyQueue'[k].klen < TOTAL_SIZE
    BY <1>7, <1>10 DEF DirtyInv
  <1>11. QED
    BY <1>6, <1>9, <1>10 DEF DirtyInv, NoAbort, KeyPos

(* The other steps leave queue and map alone and do not abort. *)
LEMMA OtherStepsDirty ==
  ASSUME DirtyInv, UNCHANGED <<dirtyQueue, dirtyMap>>, rpc' # "abort"
  PROVE  DirtyInv'
  BY DEF DirtyInv, NoAbort, KeyPos

LEMMA StepKeepsDirty ==
  ASSUME QueuesHoldRing, BytesInv, KeysOnce, DirtyInv, [Next]_vars
  PROVE  DirtyInv'
  <1>1. rpc # "abort"
    BY DEF DirtyInv, NoAbort
  <1>2. CASE ReadKey
    BY <1>2, ReadKeyDirty
  <1>3. CASE CleanLog
    BY <1>3, CleanLogDirty
  <1>4. CASE ReadValue
    <2>1. ~Full(executing)
      BY <1>4, ValueHasRoom DEF ReadValue
    <2>2. UNCHANGED <<dirtyQueue, dirtyMap>> /\ rpc' # "abort"
      BY <1>4, <2>1 DEF ReadValue
    <2>3. QED
      BY <2>2, OtherStepsDirty
  <1>5. CASE \/ Writer \/ NicWrite \/ (\E t \in Threads : Issue(t)) \/ Worker
             \/ UNCHANGED vars
    <2>1. UNCHANGED tail
      BY <1>5 DEF Writer, CheckSize, CheckAgain, WriteMate, PutSending, NicWrite, Issue,
                  Worker, FetchRd, PushWr, LandByte, vars, tail
    <2>2. QED
      BY <1>1, <2>1, OtherStepsDirty DEF tail
  <1>6. CASE \/ AllocRing \/ StartReader \/ ReadKeyReturn \/ NoValue \/ Execute \/ Forward
    <2>1. UNCHANGED <<dirtyQueue, dirtyMap>> /\ rpc' # "abort"
      BY <1>1, <1>6 DEF AllocRing, StartReader, ReadKeyReturn, NoValue, Execute, Forward, Idle
    <2>2. QED
      BY <2>1, OtherStepsDirty
  <1>7. QED
    BY <1>2, <1>3, <1>4, <1>5, <1>6 DEF Next, Reader

LEMMA DirtyInvariant ==
  ASSUME QueuesHoldRing
  PROVE  Spec /\ [](TagsFresh /\ KeysOnce) => [](BytesInv /\ DirtyInv)
  <1>1. Init => DirtyInv
    BY DEF Init, DirtyInv, NoAbort
  <1>2. BytesInv /\ KeysOnce /\ DirtyInv /\ [Next]_vars => DirtyInv'
    BY StepKeepsDirty
  <1>3. QED
    BY <1>1, <1>2, BytesInvariant, PTL DEF Spec

(***************************************************************************)
(* The reader never ends the process: no queue is full and clean_log finds *)
(* every log in dirty_map, because the string behind the key pointer of an *)
(* entry outlives the entry as long as no key is in the ring twice         *)
(* (log_buffer.c:595-599, 641-645, 687-691).                               *)
(***************************************************************************)
THEOREM ReaderNeverAborts ==
  ASSUME QueuesHoldRing
  PROVE  Spec /\ [](TagsFresh /\ KeysOnce) => []NoAbort
  <1>1. DirtyInv => NoAbort
    BY DEF DirtyInv
  <1>2. QED
    BY <1>1, DirtyInvariant, PTL

(***************************************************************************)
(* judge_key_dirty answers right under the same conditions: the keys in    *)
(* dirty_map are those of the logs parsed and not cleaned yet, once each   *)
(* (log_buffer.c:580-589, 668-692, 726-733).                               *)
(***************************************************************************)
THEOREM DirtyMapIsExact ==
  ASSUME QueuesHoldRing
  PROVE  Spec /\ [](TagsFresh /\ KeysOnce) => []DirtyMapExact
  <1>1. BytesInv /\ KeysOnce /\ DirtyInv => DirtyMapExact
    <2> SUFFICES ASSUME BytesInv, KeysOnce, DirtyInv, NEW key
                 PROVE  LET waiting == {i \in DOMAIN dirtyQueue : dirtyQueue[i].key = key}
                            entries == DirtyEntries(key, FALSE)
                        IN IF waiting = {} THEN entries = {}
                           ELSE \E d \in entries : entries = {d} /\ d.cnt = Cardinality(waiting)
      BY Zenon DEF DirtyMapExact
    <2> DEFINE waiting == {i \in DOMAIN dirtyQueue : dirtyQueue[i].key = key}
               entries == DirtyEntries(key, FALSE)
    <2>1. rpc # "abort"
      BY DEF DirtyInv, NoAbort
    <2>2. CASE waiting = {}
      <3>1. entries = {}
        BY <2>2, DirtyNotFound
      <3>2. QED
        BY <2>2, <3>1
    <2>3. CASE waiting # {}
      <3>1. PICK k \in DOMAIN dirtyQueue : dirtyQueue[k].key = key
        BY <2>3
      <3>2. waiting = {k}
        BY <2>1, <3>1, DirtyApart
      <3>3. entries = {DirtyRec(dirtyQueue[k])}
        BY <3>1, DirtyFound
      <3>4. Cardinality(waiting) = 1
        BY <3>2, FS_Singleton
      <3>5. DirtyRec(dirtyQueue[k]).cnt = 1
        BY <2>1, DirtyLog, DirtyRecFields
      <3>6. DirtyRec(dirtyQueue[k]) \in entries
        BY <3>3
      <3>7. QED
        BY <2>3, <3>3, <3>4, <3>5, <3>6, Zenon
    <2>4. QED
      BY <2>2, <2>3
  <1>2. QED
    BY <1>1, DirtyInvariant, PTL

----------------------------------------------------------------------------
(* The refinement.  What the variables of LogRing stand for, under names    *)
(* of their own.                                                            *)

RingLogs == [i \in DOMAIN logs |-> [start |-> logs[i].start, pos |-> logs[i].pos,
                                    len |-> NextOffset(logs[i])]]
RingArrived == 1 .. (Queued - Len(sending) - IF todo["nic"] = << >> THEN 0 ELSE 1)
RingParsed == [i \in 1 .. Freed |-> executed[i].log]
                \o [i \in 1 .. Len(dirtyQueue) |-> dirtyQueue[i].log]
RingLens == UNION {{NextOffset(n[i]) : i \in DOMAIN n} : n \in Inputs}
Longest == CHOOSE m \in {Len(n) : n \in Inputs} : \A n \in Inputs : m >= Len(n)

(* The logs of the program are counted as they are given to NIC_thread. *)
CountOK == count = Queued

RefineInv == BytesInv /\ DirtyInv /\ CountOK

LEMMA ConcatCounts ==
  ASSUME NEW a \in Seq(Nat), NEW b \in Seq(Nat), NEW m \in Nat, NEW n \in Nat,
         Len(a) = m, Len(b) = n,
         \A i \in 1 .. m : a[i] = i, \A i \in 1 .. n : b[i] = m + i
  PROVE  a \o b = [i \in 1 .. m + n |-> i]
  <1>1. PICK c \in Seq(Nat) : c = a \o b
    BY ConcatProperties
  <1>2. /\ Len(c) = m + n
        /\ \A i \in 1 .. m + n : c[i] = IF i <= m THEN a[i] ELSE b[i - m]
    BY <1>1, ConcatProperties
  <1>3. \A i \in 1 .. m + n : c[i] = i
    <2> TAKE i \in 1 .. m + n
    <2>1. CASE i <= m
      BY <1>2, <2>1
    <2>2. CASE i > m
      BY <1>2, <2>2
    <2>3. QED
      BY <2>1, <2>2
  <1>4. c = [i \in 1 .. m + n |-> i]
    BY <1>2, <1>3
  <1>5. QED
    BY <1>1, <1>4

(* The logs parsed are the first ones, and so are those whose value is there. *)
LEMMA RingView ==
  ASSUME BytesInv, NoAbort
  PROVE  /\ Freed = Back
         /\ RingArrived = 1 .. Arrived
         /\ RingParsed = [i \in 1 .. Parsed |-> i]
  <1> USE DEF BytesInv
  <1>1. Freed = Back
    BY DEF Freed, Back, NoAbort
  <1>2. RingArrived = 1 .. Arrived
    <2>1. Taken = Queued - Len(sending) /\ Taken \in Int
      BY QueuedFacts
    <2>2. Taken - 0 = Taken
      BY <2>1
    <2>3. QED
      BY <2>1, <2>2 DEF RingArrived, Arrived
  <1>3. /\ Len(executed) \in Nat /\ Len(executing) \in Nat /\ Len(peeding) \in Nat
        /\ Len(dirtyQueue) \in Nat /\ Back \in Nat /\ Back <= Len(executed)
    BY QueueFacts, StageFacts, QueuedFacts
  <1>4. Back + Len(dirtyQueue) = Parsed
    <2>1. Len(dirtyQueue) = Len(peeding) + Len(executing) + (IF rpc = "clean" THEN 1 ELSE 0)
      BY DEF LinkInv, PipeOK, NoAbort
    <2>2. Back = Len(executed) - (IF rpc = "clean" THEN 1 ELSE 0)
      <3>1. CASE rpc = "clean"
        BY <3>1 DEF Back
      <3>2. CASE rpc # "clean"
        <4>1. Back = Len(executed) /\ Len(executed) - 0 = Len(executed)
          BY <1>3, <3>2 DEF Back, NoAbort
        <4>2. QED
          BY <3>2, <4>1
      <3>3. QED
        BY <3>1, <3>2
    <2>3. QED
      BY <1>3, <2>1, <2>2 DEF Parsed
  <1> DEFINE a == [i \in 1 .. Freed |-> executed[i].log]
             b == [i \in 1 .. Len(dirtyQueue) |-> dirtyQueue[i].log]
  <1>5. /\ a \in Seq(Nat) /\ Len(a) = Back /\ \A i \in 1 .. Back : a[i] = i
    <2>1. \A i \in 1 .. Back : executed[i].log = i
      <3>1. DOMAIN executed = 1 .. Len(executed)
        BY QueueFacts
      <3>2. 1 .. Back \subseteq DOMAIN executed
        BY <1>3, <3>1
      <3>3. QED
        BY <3>2 DEF ValuesDelivered
    <2>2. QED
      BY <1>1, <1>3, <2>1
  <1>6. /\ b \in Seq(Nat) /\ Len(b) = Len(dirtyQueue)
        /\ \A i \in 1 .. Len(dirtyQueue) : b[i] = Back + i
    <2>1. \A i \in 1 .. Len(dirtyQueue) : dirtyQueue[i].log = Back + i
      <3>1. DOMAIN dirtyQueue = 1 .. Len(dirtyQueue)
        BY QueueFacts
      <3>2. QED
        BY <3>1 DEF EntriesOK, EntryOK, NoAbort
    <2>2. QED
      BY <1>3, <2>1
  <1>7. a \o b = [i \in 1 .. Back + Len(dirtyQueue) |-> i]
    <2>1. PICK x \in Seq(Nat), y \in Seq(Nat), m \in Nat, n \in Nat :
            x = a /\ y = b /\ m = Back /\ n = Len(dirtyQueue)
      BY <1>3, <1>5, <1>6
    <2> HIDE DEF a, b, BytesInv
    <2>2. /\ Len(x) = m /\ Len(y) = n
          /\ \A i \in 1 .. m : x[i] = i
          /\ \A i \in 1 .. n : y[i] = m + i
      BY <1>5, <1>6, <2>1
    <2>3. x \o y = [i \in 1 .. m + n |-> i]
      BY <2>2, ConcatCounts
    <2>4. QED
      BY <2>1, <2>3
  <1>8. RingParsed = [i \in 1 .. Parsed |-> i]
    BY <1>4, <1>7 DEF RingParsed
  <1>9. QED
    BY <1>1, <1>2, <1>8

LEMMA RingViewAlways ==
  BytesInv /\ NoAbort => /\ Freed = Back
                         /\ RingArrived = 1 .. Arrived
                         /\ RingParsed = [i \in 1 .. Parsed |-> i]
  BY RingView

LEMMA RingViewNext ==
  BytesInv' /\ NoAbort' => /\ Freed' = Back'
                           /\ RingArrived' = 1 .. Arrived'
                           /\ RingParsed' = [i \in 1 .. Parsed' |-> i]
  <1>1. BytesInv' /\ NoAbort' => (/\ Freed = Back
                                  /\ RingArrived = 1 .. Arrived
                                  /\ RingParsed = [i \in 1 .. Parsed |-> i])'
    BY RingViewAlways, PTL
  <1>2. QED
    BY <1>1

LEMMA RingSame ==
  ASSUME UNCHANGED <<RingLogs, Reserved, wr, rdCache, fetched, rwr, Published, RingArrived,
                RingParsed, rdKey, Freed, rd>>
  PROVE  UNCHANGED Ring!vars
  BY DEF Ring!vars, RingLogs, RingArrived, RingParsed

LEMMA RingFetch ==
  ASSUME rdCache' = rd, fetched' = Freed,
         UNCHANGED <<RingLogs, Reserved, wr, rwr, Published, RingArrived, RingParsed, rdKey,
                     Freed, rd>>
  PROVE  Ring!ReadRemoteRd
  BY DEF Ring!ReadRemoteRd, Ring!reader, RingLogs, RingArrived, RingParsed

LEMMA RingReserve ==
  ASSUME NEW n, Len(RingLogs) < Longest, Published = Len(RingLogs),
         n <= FreeSize(wr, rdCache),
         RingLogs' = Append(RingLogs, [start |-> Reserved, pos |-> wr, len |-> n]),
         Reserved' = Reserved + n, wr' = Advance(wr, n),
         UNCHANGED <<rdCache, fetched, rwr, Published, RingArrived, RingParsed, rdKey, Freed, rd>>
  PROVE  Ring!Reserve(n)
  BY DEF Ring!Reserve, Ring!reader, Ring!Advance, Ring!FreeSize, Ring!DataSize, FreeSize,
         DataSize, Wrap, Advance, RingLogs, RingArrived, RingParsed, Longest

LEMMA RingPublish ==
  ASSUME Published < Len(RingLogs), rwr' = wr, Published' = Published + 1,
         UNCHANGED <<RingLogs, Reserved, wr, rdCache, fetched, RingArrived, RingParsed, rdKey,
                     Freed, rd>>
  PROVE  Ring!Publish
  BY DEF Ring!Publish, Ring!writer, Ring!reader, RingLogs, RingArrived, RingParsed

LEMMA RingArrive ==
  ASSUME NEW i, i \notin RingArrived, RingArrived' = RingArrived \cup {i},
         UNCHANGED <<RingLogs, Reserved, wr, rdCache, fetched, rwr, Published, RingParsed, rdKey,
                     Freed, rd>>
  PROVE  Ring!Arrive(i)
  BY DEF Ring!Arrive, Ring!writer, Ring!reader, RingLogs, RingArrived, RingParsed

RingCovers(i, p) == DataSize(p, RingLogs[i].pos) < RingLogs[i].len

LEMMA RingParse ==
  ASSUME NEW i, DataSize(rwr, rdKey) >= SIZEOF_MATE, RingCovers(i, rdKey),
         \A j \in DOMAIN RingLogs : j > i => ~RingCovers(j, rdKey),
         RingParsed' = Append(RingParsed, i),
         rdKey' = Wrap(rdKey + RingLogs[i].len),
         UNCHANGED <<RingLogs, Reserved, wr, rdCache, fetched, rwr, Published, RingArrived,
                     Freed, rd>>
  PROVE  Ring!Parse(i)
  BY DEF Ring!Parse, Ring!Owns, Ring!Covers, Ring!DataSize, Ring!writer, RingCovers,
         DataSize, Wrap, RingLogs, RingArrived, RingParsed

LEMMA RingExecute ==
  ASSUME Freed < Len(RingParsed), RingParsed[Freed + 1] \in RingArrived, Freed' = Freed + 1,
         rd' = Wrap(rd + RingLogs[RingParsed[Freed + 1]].len),
         UNCHANGED <<RingLogs, Reserved, wr, rdCache, fetched, rwr, Published, RingArrived,
                     RingParsed, rdKey>>
  PROVE  Ring!Execute
  BY DEF Ring!Execute, Ring!writer, Wrap, RingLogs, RingArrived, RingParsed

LEMMA RingNext ==
  ASSUME \/ Ring!ReadRemoteRd
         \/ \E n \in RingLens : Ring!Reserve(n)
         \/ Ring!Publish
         \/ \E i \in 1 .. Published : Ring!Arrive(i)
         \/ \E i \in DOMAIN RingLogs : Ring!Parse(i)
         \/ Ring!Execute
  PROVE  Ring!Next
  BY DEF Ring!Next, RingLens, RingLogs

Publishing == wpc \in {"put", "crash"} /\ todo["writer"] # << >>

(* The write pointer is behind the last log until the writer has no call   *)
(* left to make for it.                                                    *)
LEMMA PublishedIs ==
  BytesInv => Published = IF Publishing THEN Len(logs) - 1 ELSE Len(logs)
  <1> SUFFICES ASSUME BytesInv
               PROVE  Published = IF Publishing THEN Len(logs) - 1 ELSE Len(logs)
    OBVIOUS
  <1> USE DEF BytesInv, WritesOK
  <1>1. PICK q \in Seq(Ops) : q = todo["writer"]
    BY DEF LinkInv, Types, WorkTypes, Threads
  <1>2. CASE Publishing
    <2>1. Len(q) \in DOMAIN q /\ ~(Len(q) < Len(q))
      BY <1>1, <1>2, EmptySeq DEF Publishing
    <2>2. q[Len(q)].op = "wr"
      BY <1>1, <1>2, <2>1 DEF Publishing, WriterOK
    <2>3. \E o \in Range(q) : o.op = "wr"
      BY <2>1, <2>2 DEF Range
    <2>4. QED
      BY <1>1, <1>2, <2>3 DEF Published
  <1>3. CASE ~Publishing
    <2>1. q = << >> \/ q = Fetch
      BY <1>1, <1>3 DEF Publishing, WriterOK
    <2>2. ~\E o \in Range(q) : o.op = "wr"
      BY <2>1, WriterIdle
    <2>3. QED
      BY <1>1, <1>3, <2>2 DEF Published
  <1>4. QED
    BY <1>2, <1>3

LEMMA PublishedNext ==
  BytesInv' => Published' = IF Publishing' THEN Len(logs') - 1 ELSE Len(logs')
  <1>1. BytesInv' => (Published = IF Publishing THEN Len(logs) - 1 ELSE Len(logs))'
    BY PublishedIs, PTL
  <1>2. QED
    BY <1>1

LEMMA RingKeeps ==
  /\ UNCHANGED logs => UNCHANGED <<RingLogs, Reserved>>
  /\ UNCHANGED tail => UNCHANGED <<RingParsed, rdKey, Freed, rd, Back, Parsed, NoAbort>>
  BY DEF RingLogs, Reserved, NextOffset, RingParsed, tail, Freed, Back, Parsed, NoAbort

(* The two steps of a thread's state that the protocol may see. *)
RingStep == Ring!Next \/ UNCHANGED Ring!vars

LEMMA ArrivedKeeps ==
  ASSUME BytesInv, NoAbort, BytesInv', NoAbort', Arrived' = Arrived
  PROVE  RingArrived' = RingArrived
  BY RingViewAlways, RingViewNext

(* A step of the head node that the protocol does not see. *)
LEMMA HeadUnseen ==
  ASSUME RefineInv, BytesInv', UNCHANGED <<logs, wr, rdCache, fetched, rwr, tail>>,
         Publishing' <=> Publishing, Arrived' = Arrived
  PROVE  RingStep
  <1>1. BytesInv /\ NoAbort
    BY DEF RefineInv, DirtyInv
  <1>2. /\ UNCHANGED <<RingLogs, Reserved, RingParsed, rdKey, Freed, rd>> /\ NoAbort'
    BY <1>1, RingKeeps
  <1>3. Published' = Published
    BY <1>1, PublishedIs, PublishedNext
  <1>4. RingArrived' = RingArrived
    BY <1>1, <1>2, ArrivedKeeps
  <1>5. QED
    BY <1>2, <1>3, <1>4, RingSame DEF RingStep

LEMMA CountKeeps ==
  ASSUME CountOK, UNCHANGED <<count, logs>>,
         wpc \in {"put", "crash"} <=> wpc' \in {"put", "crash"}
  PROVE  CountOK' /\ Queued' = Queued
  BY DEF CountOK, Queued

LEMMA CheckRefines ==
  ASSUME RefineInv, BytesInv', CheckSize \/ CheckAgain \/ (WriteMate /\ ~Fits)
  PROVE  RingStep /\ CountOK'
  <1>1. /\ UNCHANGED <<count, logs, wr, rdCache, fetched, rwr, sending, tail>>
        /\ wpc \notin {"put", "crash"} /\ wpc' \notin {"put", "crash"}
    BY DEF CheckSize, CheckAgain, WriteMate, WriterReady
  <1>2. todo'["nic"] = todo["nic"]
    <2>1. todo' = todo \/ todo' = [todo EXCEPT !["writer"] = Fetch]
      BY DEF CheckSize, CheckAgain, WriteMate
    <2>2. QED
      BY <2>1, TodoIs DEF RefineInv, BytesInv
  <1>3. CountOK' /\ Queued' = Queued
    BY <1>1, CountKeeps DEF RefineInv
  <1>4. Arrived' = Arrived
    BY <1>1, <1>2, <1>3 DEF Arrived, Taken
  <1>5. Publishing' <=> Publishing
    BY <1>1 DEF Publishing
  <1>6. QED
    BY <1>1, <1>3, <1>4, <1>5, HeadUnseen

LEMMA PutSendingRefines ==
  ASSUME RefineInv, BytesInv', QueuesHoldRing, PutSending
  PROVE  RingStep /\ CountOK'
  <1> USE DEF RefineInv
  <1>1. wpc = "put" /\ todo["writer"] = << >>
    BY DEF PutSending, WriterReady
  <1>2. ~Full(sending)
    BY <1>1, SendingHasRoom DEF BytesInv
  <1>3. /\ sending' = Append(sending, Len(logs)) /\ wpc' = "idle" /\ todo' = todo
        /\ count' = count + 1
        /\ UNCHANGED <<wr, rdCache, fetched, logs, rwr, tail>>
    BY <1>2 DEF PutSending
  <1>4. /\ sending \in Seq(1 .. Len(logs)) /\ Len(sending) \in Nat /\ Len(logs) \in Nat
        /\ Queued = Len(logs) - 1 /\ Queued' = Len(logs) /\ Len(logs) \in 1 .. Len(logs)
    <2>1. Len(logs) > 0
      BY <1>1 DEF BytesInv, WritesOK, WriterOK
    <2>2. QED
      BY <1>1, <1>3, <2>1, QueuedFacts, LenLogs DEF Queued, BytesInv
  <1>5. CountOK'
    BY <1>3, <1>4 DEF CountOK
  <1>6. Len(sending') = Len(sending) + 1
    BY <1>3, <1>4, AppendProperties
  <1>7. Taken' = Taken
    BY <1>4, <1>6 DEF Taken
  <1>8. Arrived' = Arrived
    BY <1>3, <1>7 DEF Arrived
  <1>9. Publishing' <=> Publishing
    BY <1>1, <1>3 DEF Publishing
  <1>10. QED
    BY <1>3, <1>5, <1>8, <1>9, HeadUnseen

LEMMA NicWriteRefines ==
  ASSUME RefineInv, BytesInv', NicWrite
  PROVE  RingStep /\ CountOK'
  <1>1. /\ UNCHANGED <<wpc, count, logs, wr, rdCache, fetched, rwr, tail>>
        /\ todo["nic"] = << >>
    BY DEF NicWrite
  <1>2. CountOK'
    BY <1>1, CountKeeps DEF RefineInv
  <1>3. PICK i, q : /\ i = Taken + 1 /\ Taken' = i
                    /\ todo'["nic"] = q /\ todo'["writer"] = todo["writer"]
                    /\ ValueParts(q, i, logs[i].start, ValueOffset(logs[i]), NextOffset(logs[i]))
    BY NicWriteStep DEF RefineInv
  <1>4. todo'["nic"] # << >>
    BY <1>3 DEF ValueParts
  <1>5. Arrived' = Arrived
    <2>1. Taken \in Int
      BY QueuedFacts DEF RefineInv, BytesInv
    <2>2. QED
      BY <1>1, <1>3, <1>4, <2>1 DEF Arrived
  <1>6. Publishing' <=> Publishing
    BY <1>1, <1>3 DEF Publishing
  <1>7. QED
    BY <1>1, <1>2, <1>5, <1>6, HeadUnseen

LEMMA IssueRefines ==
  ASSUME RefineInv, BytesInv', NEW t \in Threads, Issue(t)
  PROVE  RingStep /\ CountOK'
  <1>1. UNCHANGED <<wpc, todo, count, logs, wr, rdCache, fetched, rwr, sending, tail>>
    BY DEF Issue
  <1>2. CountOK' /\ Queued' = Queued
    BY <1>1, CountKeeps DEF RefineInv
  <1>3. Arrived' = Arrived /\ (Publishing' <=> Publishing)
    BY <1>1, <1>2 DEF Arrived, Taken, Publishing
  <1>4. QED
    BY <1>1, <1>2, <1>3, HeadUnseen

(* check_remote_size reads the pointer of the reader. *)
LEMMA FetchRdRefines ==
  ASSUME RefineInv, BytesInv', FetchRd
  PROVE  RingStep /\ CountOK'
  <1>1. /\ work # << >> /\ Head(todo[Head(work)]).op = "rd" /\ Done(Head(work))
        /\ rdCache' = rd /\ fetched' = Freed
        /\ UNCHANGED <<wpc, count, wr, logs, sending, rwr, tail>>
    BY DEF FetchRd
  <1>2. todo["writer"][1].op = "rd" /\ todo'["nic"] = todo["nic"] /\ todo["writer"] # << >>
        /\ todo["writer"] \in Seq(Ops)
    BY <1>1, WriterCalls DEF RefineInv
  <1>3. wpc \notin {"put", "crash"}
    <2>1. 1 \in DOMAIN todo["writer"]
      BY <1>2
    <2>2. QED
      BY <1>2, <2>1 DEF RefineInv, BytesInv, WritesOK, WriterOK
  <1>4. CountOK' /\ Queued' = Queued
    BY <1>1, CountKeeps DEF RefineInv
  <1>5. BytesInv /\ NoAbort
    BY DEF RefineInv, DirtyInv
  <1>6. /\ UNCHANGED <<RingLogs, Reserved, RingParsed, rdKey, Freed, rd>> /\ NoAbort'
    BY <1>1, <1>5, RingKeeps
  <1>7. Published' = Published
    BY <1>1, <1>3, <1>5, PublishedIs, PublishedNext DEF Publishing
  <1>8. RingArrived' = RingArrived
    <2>1. Arrived' = Arrived
      BY <1>1, <1>2, <1>4 DEF Arrived, Taken
    <2>2. QED
      BY <1>5, <1>6, <2>1, ArrivedKeeps
  <1>9. Ring!ReadRemoteRd
    BY <1>1, <1>6, <1>7, <1>8, RingFetch
  <1>10. QED
    BY <1>4, <1>9, RingNext DEF RingStep

(* update_wr_remote publishes the log. *)
LEMMA PushWrRefines ==
  ASSUME RefineInv, BytesInv', PushWr
  PROVE  RingStep /\ CountOK'
  <1>1. /\ work # << >> /\ Head(todo[Head(work)]).op = "wr" /\ Done(Head(work))
        /\ rwr' = wr
        /\ UNCHANGED <<wpc, count, wr, rdCache, fetched, logs, sending, tail>>
    BY DEF PushWr
  <1>2. /\ todo["writer"][1].op = "wr" /\ todo'["nic"] = todo["nic"] /\ todo["writer"] # << >>
        /\ todo'["writer"] = Tail(todo["writer"]) /\ todo["writer"] \in Seq(Ops)
    BY <1>1, WriterCalls DEF RefineInv
  <1>3. wpc \in {"put", "crash"}
    <2>1. Fetch[1].op = "rd"
      BY DEF Fetch
    <2>2. QED
      BY <1>2, <2>1 DEF RefineInv, BytesInv, WritesOK, WriterOK
  <1>4. Len(todo["writer"]) \in Nat /\ Len(todo["writer"]) # 0 /\ ~(1 < Len(todo["writer"]))
    <2>1. Len(todo["writer"]) \in Nat /\ Len(todo["writer"]) # 0 /\ 1 \in DOMAIN todo["writer"]
      BY <1>2, EmptySeq
    <2>2. todo["writer"][1].op = IF 1 < Len(todo["writer"]) THEN "bytes" ELSE "wr"
      BY <1>3, <2>1 DEF RefineInv, BytesInv, WritesOK, WriterOK
    <2>3. QED
      BY <1>2, <2>1, <2>2
  <1>5. todo'["writer"] = << >>
    <2>1. \A m \in Nat : m # 0 /\ ~(1 < m) => m = 1
      OBVIOUS
    <2>2. Len(todo["writer"]) = 1
      BY <1>4, <2>1, Zenon
    <2>3. Tail(todo["writer"]) \in Seq(Ops) /\ Len(Tail(todo["writer"])) = 0
      BY <1>2, <2>2, HeadTailProperties
    <2>4. QED
      BY <1>2, <2>3, EmptySeq
  <1>6. CountOK' /\ Queued' = Queued
    BY <1>1, CountKeeps DEF RefineInv
  <1>7. BytesInv /\ NoAbort
    BY DEF RefineInv, DirtyInv
  <1>8. /\ UNCHANGED <<RingLogs, Reserved, RingParsed, rdKey, Freed, rd>> /\ NoAbort'
    BY <1>1, <1>7, RingKeeps
  <1>9. Published = Len(logs) - 1 /\ Published' = Len(logs)
    BY <1>1, <1>2, <1>3, <1>5, <1>7, PublishedIs, PublishedNext DEF Publishing
  <1>10. RingArrived' = RingArrived
    <2>1. Arrived' = Arrived
      BY <1>1, <1>2, <1>6 DEF Arrived, Taken
    <2>2. QED
      BY <1>7, <1>8, <2>1, ArrivedKeeps
  <1>11. Published < Len(RingLogs) /\ Published' = Published + 1
    <2>1. Len(logs) \in Nat /\ DOMAIN logs = 1 .. Len(logs)
      BY <1>7, LenLogs DEF BytesInv
    <2>2. Len(RingLogs) = Len(logs)
      BY <2>1 DEF RingLogs
    <2>3. QED
      BY <1>9, <2>1, <2>2
  <1>12. Ring!Publish
    BY <1>1, <1>8, <1>10, <1>11, RingPublish
  <1>13. QED
    BY <1>6, <1>12, RingNext DEF RingStep

(* A byte of metadata or key lands; the call that publishes is still to come. *)
LEMMA LandWriterRefines ==
  ASSUME RefineInv, BytesInv', NEW o \in ByteOps, todo["writer"] # << >>, o = todo["writer"][1],
         \/ o.n <= 1 /\ Done("writer")
         \/ o.n > 1 /\ todo' = [todo EXCEPT !["writer"] = [@ EXCEPT ![1] = Further(o)]],
         wpc' \in {wpc, "crash"},
         UNCHANGED <<count, wr, rdCache, fetched, logs, sending, rwr, tail>>
  PROVE  RingStep /\ CountOK'
  <1>1. todo \in [Threads -> Seq(Ops)] /\ "writer" \in Threads
    BY DEF RefineInv, BytesInv, LinkInv, Types, WorkTypes, Threads
  <1>2. PICK q \in Seq(Ops) : q = todo["writer"]
    BY <1>1
  <1>3. wpc \in {"put", "crash"} /\ wpc' \in {"put", "crash"}
    <2>1. Fetch[1].op = "rd" /\ o.op = "bytes"
      BY DEF Fetch, ByteOps
    <2>2. QED
      BY <2>1 DEF RefineInv, BytesInv, WritesOK, WriterOK
  <1>4. Len(q) \in Nat /\ 1 < Len(q) /\ 1 \in DOMAIN q
    <2>1. Len(q) \in Nat /\ 1 \in DOMAIN q
      BY <1>2
    <2>2. q[1].op = IF 1 < Len(q) THEN "bytes" ELSE "wr"
      BY <1>2, <1>3, <2>1 DEF RefineInv, BytesInv, WritesOK, WriterOK
    <2>3. q[1].op = "bytes"
      BY <1>2 DEF ByteOps
    <2>4. QED
      BY <2>1, <2>2, <2>3
  <1>5. PICK r : todo' = [todo EXCEPT !["writer"] = r] /\ r # << >>
    <2>1. CASE Done("writer")
      <3>1. todo' = [todo EXCEPT !["writer"] = Tail(q)]
        BY <1>2, <2>1 DEF Done
      <3>2. Tail(q) \in Seq(Ops) /\ Len(Tail(q)) = Len(q) - 1
        BY <1>2, <1>4, HeadTailProperties
      <3>3. Len(Tail(q)) # 0
        BY <1>4, <3>2
      <3>4. Tail(q) # << >>
        BY <3>2, <3>3, EmptySeq
      <3>5. QED
        BY <3>1, <3>4
    <2>2. CASE todo' = [todo EXCEPT !["writer"] = [@ EXCEPT ![1] = Further(o)]]
      <3>1. todo' = [todo EXCEPT !["writer"] = [q EXCEPT ![1] = Further(o)]]
        BY <1>2, <2>2
      <3>2. DOMAIN [q EXCEPT ![1] = Further(o)] = DOMAIN q /\ 1 \in DOMAIN q
        BY <1>4
      <3>3. [q EXCEPT ![1] = Further(o)] # << >>
        BY <3>2
      <3>4. QED
        BY <3>1, <3>3
    <2>3. QED
      BY <2>1, <2>2
  <1>6. todo'["writer"] # << >> /\ todo'["nic"] = todo["nic"]
    BY <1>5, TodoIs DEF RefineInv, BytesInv
  <1>7. CountOK' /\ Queued' = Queued
    BY <1>3, CountKeeps DEF RefineInv
  <1>8. Arrived' = Arrived /\ (Publishing' <=> Publishing)
    BY <1>3, <1>6, <1>7 DEF Arrived, Taken, Publishing
  <1>9. QED
    BY <1>7, <1>8, HeadUnseen

(* A byte of a value lands; with the last one the log has arrived. *)
LEMMA LandNicRefines ==
  ASSUME RefineInv, BytesInv', NEW o \in ByteOps, todo["nic"] # << >>, o = todo["nic"][1],
         \/ o.n <= 1 /\ Done("nic")
         \/ o.n > 1 /\ todo' = [todo EXCEPT !["nic"] = [@ EXCEPT ![1] = Further(o)]],
         o.n # 0 => wpc' = wpc,
         UNCHANGED <<count, wr, rdCache, fetched, logs, sending, rwr, tail>>
  PROVE  RingStep /\ CountOK'
  <1>1. todo \in [Threads -> Seq(Ops)] /\ "nic" \in Threads /\ "writer" \in Threads
    BY DEF RefineInv, BytesInv, LinkInv, Types, WorkTypes, Threads
  <1>2. wpc' = wpc
    <2>1. 1 \in DOMAIN todo["nic"]
      BY <1>1
    <2>2. o.n > 0 /\ o.n \in Nat
      BY <2>1 DEF RefineInv, BytesInv, WritesOK, NicOK, ByteOps
    <2>3. QED
      BY <2>2
  <1>3. todo'["writer"] = todo["writer"]
    BY <1>1 DEF Done
  <1>4. CountOK' /\ Queued' = Queued
    BY <1>2, CountKeeps DEF RefineInv
  <1>5. Taken' = Taken /\ Taken \in Int /\ Arrived = Taken - 1
    BY <1>4, QueuedFacts DEF Arrived, Taken, RefineInv, BytesInv
  <1>6. Publishing' <=> Publishing
    BY <1>2, <1>3 DEF Publishing
  <1>7. CASE todo'["nic"] # << >>
    <2>1. Arrived' = Arrived
      BY <1>5, <1>7 DEF Arrived
    <2>2. QED
      BY <1>4, <1>6, <2>1, HeadUnseen
  <1>8. CASE todo'["nic"] = << >>
    <2>1. BytesInv /\ NoAbort
      BY DEF RefineInv, DirtyInv
    <2>2. Arrived' = Taken
      BY <1>5, <1>8 DEF Arrived
    <2>3. /\ UNCHANGED <<RingLogs, Reserved, RingParsed, rdKey, Freed, rd>> /\ NoAbort'
      BY <2>1, RingKeeps
    <2>4. Published' = Published
      BY <1>6, <2>1, PublishedIs, PublishedNext
    <2>5. RingArrived = 1 .. Taken - 1 /\ RingArrived' = 1 .. Taken
      BY <1>5, <2>1, <2>2, <2>3, RingViewAlways, RingViewNext
    <2>6. Taken \in 1 .. Published
      <3>1. Taken >= 1 /\ Taken <= Queued /\ Queued \in Int
        BY <2>1, QueuedFacts DEF BytesInv, StagesOrdered, SendOK
      <3>2. Queued <= Published /\ Published \in Int
        <4>1. Len(logs) \in Nat
          BY <2>1, LenLogs DEF BytesInv
        <4>2. QED
          BY <2>1, <4>1, PublishedIs DEF Queued, Publishing
      <3>3. QED
        BY <1>5, <3>1, <3>2
    <2>7. Taken \notin RingArrived /\ RingArrived' = RingArrived \cup {Taken}
      BY <1>5, <2>5, <2>6
    <2>8. Ring!Arrive(Taken)
      BY <2>3, <2>4, <2>7, RingArrive
    <2>9. QED
      BY <1>4, <2>6, <2>8, RingNext DEF RingStep
  <1>9. QED
    BY <1>7, <1>8

LEMMA LandByteRefines ==
  ASSUME RefineInv, BytesInv', LandByte
  PROVE  RingStep /\ CountOK'
  <1>1. PICK t \in Threads, o \in ByteOps :
           /\ o = todo[t][1] /\ todo[t] # << >>
           /\ \/ o.n <= 1 /\ Done(t)
              \/ /\ o.n > 1
                 /\ todo' = [todo EXCEPT ![t] = [@ EXCEPT ![1] = Further(o)]]
           /\ wpc' \in {wpc, "crash"} /\ (o.n # 0 => wpc' = wpc)
    BY LandByteStep DEF RefineInv, BytesInv
  <1>2. UNCHANGED <<count, wr, rdCache, fetched, logs, sending, rwr, tail>>
    BY DEF LandByte
  <1>3. CASE t = "writer"
    BY <1>1, <1>2, <1>3, LandWriterRefines
  <1>4. CASE t = "nic"
    BY <1>1, <1>2, <1>4, LandNicRefines
  <1>5. QED
    BY <1>3, <1>4 DEF Threads

LEMMA AdvanceOnce ==
  ASSUME NEW p \in 0 .. TOTAL_SIZE, NEW m \in Nat, NEW n \in Nat, m + n < TOTAL_SIZE
  PROVE  Advance(Advance(p, m), n) = Advance(p, m + n)
  BY ConstantFacts DEF Advance

(* There is a longest list of logs (NAME_LISTS has REPEAT elements). *)
HasLongest == \E m \in {Len(n) : n \in Inputs} : \A n \in Inputs : m >= Len(n)

LEMMA LongestIs ==
  ASSUME HasLongest, HeadTypes
  PROVE  Longest \in Nat /\ REPEAT <= Longest
  <1>1. Longest \in {Len(n) : n \in Inputs} /\ \A n \in Inputs : Longest >= Len(n)
    BY DEF HasLongest, Longest
  <1>2. \A n \in Inputs : Len(n) \in Nat
    <2> TAKE n \in Inputs
    <2>1. n \in Seq(Range(n))
      BY BufferAssumption
    <2>2. QED
      BY <2>1, LenProperties
  <1>3. names \in Inputs
    BY DEF HeadTypes
  <1>4. QED
    BY <1>1, <1>2, <1>3 DEF REPEAT

(* rb_write_mate reserves the bytes of a log. *)
LEMMA WriteMateRefines ==
  ASSUME RefineInv, BytesInv', HasLongest, WriteMate, Fits
  PROVE  RingStep /\ CountOK'
  <1>1. BytesInv /\ NoAbort /\ CountOK
    BY DEF RefineInv, DirtyInv
  <1>2. /\ wpc = "mate" /\ todo["writer"] = << >> /\ wpc' = "put"
        /\ UNCHANGED <<count, rdCache, fetched, sending, rwr, tail>>
        /\ wr' = Advance(Advance(wr, SIZEOF_LOG + names[count + 1].klen), names[count + 1].vlen)
    BY DEF WriteMate, WriterReady
  <1>3. PICK n \in Nat : n = NextOffset(names[count + 1])
    BY <1>1, NewLog DEF BytesInv
  <1>4. Len(logs) \in Nat /\ DOMAIN logs = 1 .. Len(logs)
    BY <1>1, LenLogs DEF BytesInv
  <1>5. PICK j \in Nat : j = Len(logs) + 1
    BY <1>4
  <1>6. /\ Len(logs') = j /\ logs' \in Seq(LogRec)
        /\ \A i \in 1 .. Len(logs) : logs'[i] = logs[i]
        /\ logs'[j].start = Reserved /\ logs'[j].pos = wr
        /\ NextOffset(logs'[j]) = n /\ n < TOTAL_SIZE
        /\ Reserved' = Reserved + n
    BY <1>1, <1>3, <1>5, MateLogs
  <1>7. DOMAIN logs' = 1 .. j
    BY <1>6
  <1>8. RingLogs' = Append(RingLogs, [start |-> Reserved, pos |-> wr, len |-> n])
    <2> DEFINE e == [start |-> Reserved, pos |-> wr, len |-> n]
               F(r) == [start |-> r.start, pos |-> r.pos, len |-> NextOffset(r)]
    <2>1. RingLogs = [i \in 1 .. Len(logs) |-> F(logs[i])]
      BY <1>4 DEF RingLogs
    <2>2. RingLogs' = [i \in 1 .. j |-> F(logs'[i])]
      BY <1>7 DEF RingLogs, NextOffset
    <2>3. F(logs'[j]) = e
      BY <1>6
    <2>4. \A i \in 1 .. Len(logs) : F(logs'[i]) = F(logs[i])
      BY <1>6
    <2> HIDE DEF e, F
    <2>5. RingLogs' = [i \in 1 .. Len(logs) + 1 |-> IF i = Len(logs) + 1 THEN e ELSE F(logs[i])]
      BY <1>4, <1>5, <2>2, <2>3, <2>4
    <2>6. Append(RingLogs, e)
            = [i \in 1 .. Len(logs) + 1 |-> IF i = Len(logs) + 1 THEN e ELSE F(logs[i])]
      BY <1>4, <2>1
    <2>7. RingLogs' = Append(RingLogs, e)
      BY <2>5, <2>6
    <2>8. QED
      BY <2>7 DEF e
  <1>9. wr' = Advance(wr, n)
    <2>1. PICK m \in Nat, v \in Nat : /\ m = SIZEOF_LOG + names[count + 1].klen
                                      /\ v = names[count + 1].vlen /\ m + v = n
      <3>1. /\ names[count + 1].klen \in Nat \ {0} /\ names[count + 1].vlen \in Nat \ {0, 1}
        <4>1. count + 1 \in 1 .. REPEAT
          BY <1>1, NewLog DEF BytesInv
        <4>2. QED
          BY <1>1, <4>1, NameFacts DEF BytesInv, LinkInv, Types
      <3>2. QED
        BY <1>3, <3>1, ConstantFacts DEF NextOffset
    <2>2. wr \in 0 .. TOTAL_SIZE
      BY <1>1 DEF BytesInv, LinkInv, Types, HeadTypes
    <2>3. QED
      BY <1>2, <1>6, <2>1, <2>2, AdvanceOnce
  <1>10. Queued = Len(logs) /\ Queued' = Len(logs)
    BY <1>2, <1>4, <1>5, <1>6 DEF Queued
  <1>11. CountOK'
    BY <1>1, <1>2, <1>10 DEF CountOK
  <1>12. /\ Len(RingLogs) = Len(logs) /\ Len(RingLogs) < Longest
    <2>1. Len(RingLogs) = Len(logs)
      BY <1>4 DEF RingLogs
    <2>2. count < REPEAT /\ HeadTypes
      BY <1>1, <1>2 DEF BytesInv, LinkInv, Types, HeadTypes
    <2>3. Longest \in Nat /\ REPEAT <= Longest /\ REPEAT \in Nat
      BY <2>2, LongestIs, NameFacts
    <2>4. count = Len(logs)
      BY <1>1, <1>10 DEF CountOK
    <2>5. QED
      BY <1>4, <2>1, <2>2, <2>3, <2>4
  <1>13. Published = Len(logs) /\ Published' = Len(logs)
    <2>1. PICK q : todo'["writer"] = q /\ todo'["nic"] = todo["nic"]
                   /\ MateParts(q, j, Reserved, 0, ValueOffset(logs'[j]))
      BY <1>1, <1>5, MateCalls
    <2>2. Publishing' /\ ~Publishing
      BY <1>2, <2>1 DEF MateParts, Publishing
    <2>3. QED
      BY <1>1, <1>4, <1>5, <1>6, <2>2, PublishedIs, PublishedNext
  <1>14. UNCHANGED <<RingParsed, rdKey, Freed, rd>> /\ NoAbort'
    BY <1>1, <1>2, RingKeeps
  <1>15. RingArrived' = RingArrived
    <2>1. todo'["nic"] = todo["nic"]
      BY <1>1, <1>5, MateCalls
    <2>2. Arrived' = Arrived
      BY <1>2, <1>10, <2>1 DEF Arrived, Taken
    <2>3. QED
      BY <1>1, <1>14, <2>2, ArrivedKeeps
  <1>16. n \in RingLens /\ n <= FreeSize(wr, rdCache)
    <2>1. names \in Inputs /\ count + 1 \in DOMAIN names
      <3>1. count + 1 \in 1 .. REPEAT
        BY <1>1, NewLog DEF BytesInv
      <3>2. names \in Inputs /\ names \in Seq(Range(names))
        BY <1>1, BufferAssumption DEF BytesInv, LinkInv, Types, HeadTypes
      <3>3. QED
        BY <3>1, <3>2, LenProperties DEF REPEAT
    <2>2. QED
      BY <1>3, <2>1 DEF RingLens, Fits
  <1>17. Ring!Reserve(n)
    BY <1>2, <1>6, <1>8, <1>9, <1>12, <1>13, <1>14, <1>15, <1>16, RingReserve
  <1>18. QED
    BY <1>11, <1>16, <1>17, RingNext DEF RingStep

LEMMA ParsedIs ==
  BytesInv /\ NoAbort => Parsed = Back + Len(dirtyQueue)
  <1> SUFFICES ASSUME BytesInv, NoAbort
               PROVE  Parsed = Back + Len(dirtyQueue)
    OBVIOUS
  <1>1. /\ Len(executed) \in Nat /\ Len(executing) \in Nat /\ Len(peeding) \in Nat
        /\ Len(dirtyQueue) \in Nat
    BY QueueFacts DEF BytesInv
  <1>2. Len(dirtyQueue) = Len(peeding) + Len(executing) + (IF rpc = "clean" THEN 1 ELSE 0)
    BY DEF BytesInv, LinkInv, PipeOK, NoAbort
  <1>3. CASE rpc = "clean"
    BY <1>1, <1>2, <1>3 DEF Back, Parsed
  <1>4. CASE rpc # "clean"
    <2>1. Back = Len(executed) /\ Len(dirtyQueue) = Len(peeding) + Len(executing)
      BY <1>1, <1>2, <1>4 DEF Back, NoAbort
    <2>2. QED
      BY <1>1, <2>1 DEF Parsed
  <1>5. QED
    BY <1>3, <1>4

LEMMA ParsedNext ==
  BytesInv' /\ NoAbort' => Parsed' = Back' + Len(dirtyQueue')
  <1>1. BytesInv' /\ NoAbort' => (Parsed = Back + Len(dirtyQueue))'
    BY ParsedIs, PTL
  <1>2. QED
    BY <1>1

(* What the reader leaves alone. *)
LEMMA ReaderKeeps ==
  ASSUME RefineInv, BytesInv', NoAbort', UNCHANGED head
  PROVE  /\ UNCHANGED <<RingLogs, Reserved, wr, rdCache, fetched, Published, RingArrived>>
         /\ CountOK'
  <1>1. UNCHANGED <<count, wpc, logs, wr, rdCache, fetched, sending, todo>>
    BY DEF head
  <1>2. CountOK' /\ Queued' = Queued
    BY <1>1, CountKeeps DEF RefineInv
  <1>3. Published' = Published
    BY <1>1 DEF Published
  <1>4. RingArrived' = RingArrived
    BY <1>1, <1>2 DEF RingArrived
  <1>5. QED
    BY <1>1, <1>2, <1>3, <1>4, RingKeeps

(* A step of the reader that the protocol does not see. *)
LEMMA ReaderUnseen ==
  ASSUME RefineInv, BytesInv', NoAbort', UNCHANGED <<head, rwr, rdKey, rd, dirtyQueue>>,
         Back' = Back
  PROVE  RingStep /\ CountOK'
  <1>1. BytesInv /\ NoAbort
    BY DEF RefineInv, DirtyInv
  <1>2. Parsed' = Parsed
    BY <1>1, ParsedIs, ParsedNext
  <1>3. Freed' = Freed /\ RingParsed' = RingParsed
    BY <1>1, <1>2, RingViewAlways, RingViewNext
  <1>4. UNCHANGED Ring!vars
    BY <1>3, ReaderKeeps, RingSame
  <1>5. QED
    BY <1>4, ReaderKeeps DEF RingStep

LEMMA QuietRefines ==
  ASSUME RefineInv, BytesInv', NoAbort',
         \/ AllocRing \/ StartReader \/ ReadKeyReturn \/ NoValue \/ Forward \/ UNCHANGED vars
  PROVE  RingStep /\ CountOK'
  <1>1. UNCHANGED <<head, rwr, rdKey, rd, dirtyQueue, executed>>
    BY DEF AllocRing, StartReader, ReadKeyReturn, NoValue, Forward, Idle, vars, head
  <1>2. \/ rpc' = rpc
        \/ rpc \notin {"clean", "abort"} /\ rpc' \notin {"clean", "abort"}
    BY DEF AllocRing, StartReader, ReadKeyReturn, NoValue, Forward, vars
  <1>3. Back' = Back
    BY <1>1, <1>2 DEF Back
  <1>4. QED
    BY <1>1, <1>3, ReaderUnseen

LEMMA ReadValueRefines ==
  ASSUME RefineInv, BytesInv', NoAbort', ReadValue
  PROVE  RingStep /\ CountOK'
  <1>1. /\ UNCHANGED <<head, rwr, rdKey, rd, dirtyQueue, executed>>
        /\ rpc = "value" /\ rpc' = "exec"
    BY DEF ReadValue, NoAbort
  <1>2. Back' = Back
    BY <1>1 DEF Back
  <1>3. QED
    BY <1>1, <1>2, ReaderUnseen

LEMMA ExecuteRefines ==
  ASSUME RefineInv, BytesInv', NoAbort', Execute
  PROVE  RingStep /\ CountOK'
  <1>1. /\ UNCHANGED <<head, rwr, rdKey, rd, dirtyQueue>> /\ rpc = "exec" /\ rpc' = "clean"
    BY DEF Execute
  <1>2. PICK r : executed' = Append(executed, r)
    BY DEF Execute
  <1>3. executed \in Seq(Result) /\ Len(executed) \in Nat
    BY QueueFacts DEF RefineInv, BytesInv, LinkInv, Types, TailTypes
  <1>4. Len(executed') = Len(executed) + 1
    BY <1>2, <1>3
  <1>5. Back' = Back
    BY <1>1, <1>3, <1>4 DEF Back
  <1>6. QED
    BY <1>1, <1>5, ReaderUnseen

(* clean_log gives the space of the oldest log back. *)
LEMMA CleanLogRefines ==
  ASSUME RefineInv, BytesInv', NoAbort', CleanLog
  PROVE  RingStep /\ CountOK'
  <1>1. BytesInv /\ NoAbort
    BY DEF RefineInv, DirtyInv
  <1>2. rpc = "clean" /\ Len(dirtyQueue) = Len(peeding) + 1 /\ executing = << >>
    BY <1>1, QueueFacts DEF CleanLog, BytesInv, LinkInv, PipeOK
  <1>3. /\ Len(peeding) \in Nat /\ Len(executed) \in Nat /\ dirtyQueue \in Seq(Entry)
        /\ Len(logs) \in Nat /\ dirtyQueue # << >> /\ Len(dirtyQueue) \in Nat
        /\ DOMAIN logs = 1 .. Len(logs)
    BY <1>1, <1>2, QueueFacts, LenLogs DEF BytesInv
  <1>4. /\ Back = Len(executed) - 1 /\ Back \in Nat /\ Len(executed) <= Arrived
        /\ Arrived \in Int /\ Parsed \in Nat /\ Arrived <= Len(logs)
    <2>1. /\ 0 <= Back /\ Len(executed) + 0 <= Arrived /\ Arrived <= Taken /\ Taken <= Queued
          /\ Queued <= Len(logs) /\ Arrived \in Int /\ Taken \in Int /\ Queued \in Int
          /\ Parsed \in Nat
      BY <1>1, <1>2, QueuedFacts, StageFacts DEF BytesInv
    <2>2. Back = Len(executed) - 1
      BY <1>2 DEF Back
    <2>3. QED
      BY <1>3, <2>1, <2>2
  <1>5. PICK e \in Entry : e = Head(dirtyQueue) /\ e = dirtyQueue[1]
    BY <1>3
  <1>6. EntryOK(e, Back + 1)
    BY <1>2, <1>3, <1>5 DEF RefineInv, BytesInv, EntriesOK
  <1>7. /\ dirtyQueue' = Tail(dirtyQueue) /\ rd' = Wrap(rd + NextOffset(e))
        /\ rpc' \in {"done", "key"}
        /\ UNCHANGED <<rdKey, executed, rwr, head>>
    BY <1>3, <1>5 DEF CleanLog, NoAbort
  <1>8. Back' = Back + 1
    <2>1. Back' = Len(executed)
      BY <1>7 DEF Back
    <2>2. QED
      BY <1>3, <1>4, <2>1
  <1>9. Parsed' = Parsed
    <2>1. Len(dirtyQueue') = Len(dirtyQueue) - 1
      BY <1>3, <1>7
    <2>2. QED
      BY <1>1, <1>3, <1>4, <1>8, <2>1, ParsedIs, ParsedNext
  <1>10. /\ Freed = Back /\ Freed' = Freed + 1 /\ RingParsed' = RingParsed
         /\ RingParsed = [i \in 1 .. Parsed |-> i] /\ RingArrived = 1 .. Arrived
    BY <1>1, <1>8, <1>9, RingViewAlways, RingViewNext
  <1>11. Len(RingParsed) = Parsed /\ Freed < Parsed /\ RingParsed[Freed + 1] = Freed + 1
    <2>1. Parsed = Back + Len(dirtyQueue)
      BY <1>1, ParsedIs
    <2>2. Back < Parsed /\ Back + 1 \in 1 .. Parsed
      BY <1>2, <1>3, <1>4, <2>1
    <2>3. QED
      BY <1>4, <1>10, <2>2
  <1>12. Freed + 1 \in RingArrived
    BY <1>3, <1>4, <1>10
  <1>13. RingLogs[Freed + 1].len = NextOffset(e)
    <2>1. Freed + 1 \in DOMAIN logs
      BY <1>3, <1>4, <1>10
    <2>2. NextOffset(logs[Freed + 1]) = NextOffset(e)
      BY <1>6, <1>10 DEF EntryOK, NextOffset
    <2>3. QED
      BY <2>1, <2>2 DEF RingLogs
  <1>14. /\ UNCHANGED <<RingLogs, Reserved, wr, rdCache, fetched, Published, RingArrived>>
         /\ CountOK'
    BY <1>7, ReaderKeeps
  <1>15. Ring!Execute
    BY <1>7, <1>10, <1>11, <1>12, <1>13, <1>14, RingExecute
  <1>16. QED
    BY <1>14, <1>15, RingNext DEF RingStep

LEMMA AtLapUp ==
  ASSUME NEW p \in Int, NEW c \in Int, At(p, c)
  PROVE  At(p, c + TOTAL_SIZE)
  <1>1. TOTAL_SIZE \in Int /\ TOTAL_SIZE > 0
    BY ConstantFacts
  <1>2. (c + TOTAL_SIZE) % TOTAL_SIZE = c % TOTAL_SIZE
    BY <1>1, ModLap
  <1>3. QED
    BY <1>2 DEF At

(* The metadata at rd_key_pointer is that of the next log, and no later log *)
(* reaches round the ring to it.                                            *)
LEMMA NextLogOwned ==
  ASSUME BytesInv, MoreKeys, NEW i \in Nat, i = Parsed + 1
  PROVE  /\ RingCovers(i, rdKey)
         /\ \A j \in DOMAIN RingLogs : j > i => ~RingCovers(j, rdKey)
  <1>1. i \in 1 .. Len(logs) /\ i > Back
    BY EntryRead
  <1>2. /\ rdKey \in Int /\ TOTAL_SIZE \in Nat \ {0}
    BY ConstantFacts DEF BytesInv, LinkInv, Types, TailTypes
  <1>3. /\ DOMAIN logs = 1 .. Len(logs) /\ Len(logs) \in Nat /\ DOMAIN RingLogs = DOMAIN logs
        /\ \A j \in DOMAIN logs : RingLogs[j].pos = logs[j].pos
                                  /\ RingLogs[j].len = NextOffset(logs[j])
    BY LenLogs DEF BytesInv, RingLogs
  <1>4. PICK a \in Nat : a = StartOf(i) /\ a = logs[i].start
    BY <1>1, ChainFacts, LogFacts DEF BytesInv
  <1>5. At(rdKey, a)
    BY <1>4 DEF BytesInv, PointersCount
  <1>6. PICK w \in Nat : w = Reserved /\ w - a < TOTAL_SIZE
    <2>1. Reserved \in Nat
      BY LenLogs DEF BytesInv
    <2>2. 0 \in Offsets(i) /\ Off(i, 0) = a
      <3>1. NextOffset(logs[i]) \in Nat /\ NextOffset(logs[i]) >= SIZEOF_LOG + 3
        BY <1>1, LogFacts DEF BytesInv
      <3>2. QED
        BY <1>4, <3>1, ConstantFacts DEF Offsets, Off
    <2>3. Reserved - Off(i, 0) < TOTAL_SIZE
      BY <1>1, <2>2, LiveByte DEF BytesInv
    <2>4. QED
      BY <2>1, <2>2, <2>3
  <1>7. RingCovers(i, rdKey)
    <2>1. PICK p \in Int, n \in Nat : p = logs[i].pos /\ n = NextOffset(logs[i]) /\ n > 0
      <3>1. /\ logs[i].pos \in Int /\ NextOffset(logs[i]) \in Nat
            /\ NextOffset(logs[i]) >= SIZEOF_LOG + 3
        BY <1>1, LogFacts DEF BytesInv
      <3>2. NextOffset(logs[i]) > 0
        BY <3>1, ConstantFacts
      <3>3. QED
        BY <3>1, <3>2
    <2>2. At(p, a)
      BY <1>1, <1>4, <2>1, ChainFacts DEF BytesInv
    <2>3. DataSize(rdKey, p) = 0
      <3>1. 0 <= a - a /\ a - a < TOTAL_SIZE /\ a - a = 0
        BY <1>2
      <3>2. QED
        BY <1>2, <1>5, <2>2, <3>1, DataSizeIs
    <2>4. QED
      BY <1>1, <1>3, <2>1, <2>3 DEF RingCovers
  <1>8. ASSUME NEW j \in DOMAIN RingLogs, j > i
        PROVE  ~RingCovers(j, rdKey)
    <2>1. j \in 1 .. Len(logs)
      BY <1>3
    <2>2. PICK p \in Int, n \in Nat, b \in Nat :
            p = logs[j].pos /\ n = NextOffset(logs[j]) /\ b = logs[j].start
      BY <2>1, LogFacts DEF BytesInv
    <2>3. At(p, b) /\ b = StartOf(j) /\ b + n <= w
      BY <1>6, <2>1, <2>2, ChainFacts DEF BytesInv
    <2>4. a < b
      <3>1. /\ i + 1 \in 1 .. Len(logs) + 1 /\ j \in 1 .. Len(logs) + 1 /\ i + 1 <= j
        BY <1>1, <1>3, <1>8, <2>1
      <3>2. StartOf(i + 1) <= b
        BY <2>3, <3>1, StartFacts DEF BytesInv
      <3>3. PICK m \in Nat : m = NextOffset(logs[i]) /\ m > 0
        <4>1. NextOffset(logs[i]) \in Nat /\ NextOffset(logs[i]) >= SIZEOF_LOG + 3
          BY <1>1, LogFacts DEF BytesInv
        <4>2. NextOffset(logs[i]) > 0
          BY <4>1, ConstantFacts
        <4>3. QED
          BY <4>1, <4>2
      <3>4. StartOf(i + 1) = a + m
        BY <1>1, <1>4, <3>3, ChainFacts DEF BytesInv
      <3>5. QED
        BY <3>2, <3>3, <3>4
    <2>5. DataSize(rdKey, p) = (a + TOTAL_SIZE) - b
      <3>1. At(rdKey, a + TOTAL_SIZE)
        BY <1>2, <1>5, AtLapUp
      <3>2. 0 <= (a + TOTAL_SIZE) - b /\ (a + TOTAL_SIZE) - b < TOTAL_SIZE
        BY <1>2, <1>6, <2>3, <2>4
      <3>3. PICK c \in Int : c = a + TOTAL_SIZE
        BY <1>2
      <3>4. QED
        BY <1>2, <2>3, <3>1, <3>2, <3>3, DataSizeIs
    <2>6. ~((a + TOTAL_SIZE) - b < n)
      BY <1>2, <1>6, <2>3
    <2>7. QED
      BY <1>3, <2>2, <2>5, <2>6 DEF RingCovers
  <1>9. QED
    BY <1>7, <1>8

(* read_log_key finds the next log. *)
LEMMA ReadKeyRefines ==
  ASSUME RefineInv, BytesInv', NoAbort', QueuesHoldRing, ReadKey
  PROVE  RingStep /\ CountOK'
  <1>1. BytesInv /\ NoAbort
    BY DEF RefineInv, DirtyInv
  <1>2. rpc = "key" /\ MoreKeys
    BY DEF ReadKey
  <1>3. PICK i \in Nat : i = Parsed + 1
    <2>1. Parsed \in Nat
      BY <1>1, QueuedFacts DEF BytesInv
    <2>2. QED
      BY <2>1
  <1>4. i \in 1 .. Len(logs) /\ EntryOK(EntryAt(rdKey), i)
    BY <1>1, <1>2, <1>3, EntryRead
  <1>5. PICK e : e = EntryAt(rdKey)
    OBVIOUS
  <1>6. ~Full(peeding) /\ ~Full(dirtyQueue)
    BY <1>1, <1>2, KeysHaveRoom
  <1>7. /\ dirtyQueue' = Append(dirtyQueue, e)
        /\ rdKey' = Wrap(rdKey + NextOffset(e)) /\ rpc' = rpc
        /\ UNCHANGED <<rd, executed, rwr, head>>
    BY <1>5, <1>6 DEF ReadKey
  <1>8. Back' = Back /\ Back \in Int
    BY <1>1, <1>7, QueuedFacts DEF Back, BytesInv
  <1>9. Parsed' = i
    <2>1. dirtyQueue \in Seq(Entry) /\ Len(dirtyQueue) \in Nat
      BY <1>1, QueueFacts DEF BytesInv
    <2>2. Len(dirtyQueue') = Len(dirtyQueue) + 1
      BY <1>7, <2>1
    <2>3. QED
      BY <1>1, <1>3, <1>8, <2>1, <2>2, ParsedIs, ParsedNext
  <1>10. Freed' = Freed /\ RingParsed' = Append(RingParsed, i)
    <2>1. /\ Freed' = Freed /\ RingParsed = [k \in 1 .. Parsed |-> k]
          /\ RingParsed' = [k \in 1 .. i |-> k]
      BY <1>1, <1>8, <1>9, RingViewAlways, RingViewNext
    <2>2. PICK m \in Nat : m = Parsed /\ i = m + 1
      <3>1. Parsed \in Nat
        BY <1>1, QueuedFacts DEF BytesInv
      <3>2. QED
        BY <1>3, <3>1
    <2>3. Append([k \in 1 .. m |-> k], m + 1) = [k \in 1 .. m + 1 |-> k]
      OBVIOUS
    <2>4. QED
      BY <2>1, <2>2, <2>3
  <1>11. rdKey' = Wrap(rdKey + RingLogs[i].len) /\ i \in DOMAIN RingLogs
    <2>1. i \in DOMAIN logs
      BY <1>1, <1>4, LenLogs DEF BytesInv
    <2>2. NextOffset(logs[i]) = NextOffset(e)
      BY <1>4, <1>5 DEF EntryOK, NextOffset
    <2>3. QED
      BY <1>7, <2>1, <2>2 DEF RingLogs
  <1>12. /\ RingCovers(i, rdKey)
         /\ \A j \in DOMAIN RingLogs : j > i => ~RingCovers(j, rdKey)
    BY <1>1, <1>2, <1>3, NextLogOwned
  <1>13. DataSize(rwr, rdKey) >= SIZEOF_MATE
    BY <1>2 DEF MoreKeys
  <1>14. /\ UNCHANGED <<RingLogs, Reserved, wr, rdCache, fetched, Published, RingArrived>>
         /\ CountOK'
    BY <1>7, ReaderKeeps
  <1>15. Ring!Parse(i)
    BY <1>7, <1>10, <1>11, <1>12, <1>13, <1>14, RingParse
  <1>16. QED
    BY <1>11, <1>14, <1>15, RingNext DEF RingStep

LEMMA StepRefines ==
  ASSUME RefineInv, BytesInv', DirtyInv', QueuesHoldRing, HasLongest, [Next]_vars
  PROVE  RingStep /\ CountOK'
  <1>1. NoAbort'
    BY DEF DirtyInv
  <1>2. CASE Writer
    <2>1. CASE CheckSize \/ CheckAgain \/ (WriteMate /\ ~Fits)
      BY <2>1, CheckRefines
    <2>2. CASE WriteMate /\ Fits
      BY <2>2, WriteMateRefines
    <2>3. CASE PutSending
      BY <2>3, PutSendingRefines
    <2>4. QED
      BY <1>2, <2>1, <2>2, <2>3 DEF Writer
  <1>3. CASE NicWrite
    BY <1>3, NicWriteRefines
  <1>4. CASE \E t \in Threads : Issue(t)
    BY <1>4, IssueRefines
  <1>5. CASE Worker
    BY <1>5, FetchRdRefines, PushWrRefines, LandByteRefines DEF Worker
  <1>6. CASE Reader
    BY <1>1, <1>6, QuietRefines, ReadKeyRefines, ReadValueRefines, ExecuteRefines,
       CleanLogRefines DEF Reader
  <1>7. CASE AllocRing \/ Forward \/ UNCHANGED vars
    BY <1>1, <1>7, QuietRefines
  <1>8. QED
    BY <1>2, <1>3, <1>4, <1>5, <1>6, <1>7 DEF Next

LEMMA InitRefines ==
  ASSUME Init
  PROVE  Ring!Init /\ CountOK
  <1>1. /\ logs = << >> /\ wpc = "idle" /\ todo = [t \in Threads |-> << >>] /\ sending = << >>
        /\ executed = << >> /\ dirtyQueue = << >> /\ rpc = "start" /\ count = 0
        /\ wr = 0 /\ rdCache = 0 /\ fetched = 0 /\ rwr = 0 /\ rdKey = 0 /\ rd = 0
    BY DEF Init
  <1>2. Queued = 0 /\ Len(sending) = 0 /\ Len(dirtyQueue) = 0 /\ Freed = 0 /\ Reserved = 0
    BY <1>1 DEF Queued, Freed, Reserved
  <1>3. todo["nic"] = << >> /\ todo["writer"] = << >>
    BY <1>1 DEF Threads
  <1>4. Published = 0
    BY <1>1, <1>3 DEF Published, Range
  <1>5. RingLogs = << >>
    BY <1>1 DEF RingLogs
  <1>6. RingArrived = {}
    <2>1. RingArrived = 1 .. (0 - 0 - 0)
      BY <1>2, <1>3 DEF RingArrived
    <2>2. QED
      BY <2>1
  <1>7. RingParsed = << >>
    <2>1. RingParsed = [i \in 1 .. 0 |-> executed[i].log] \o [i \in 1 .. 0 |-> dirtyQueue[i].log]
      BY <1>2 DEF RingParsed
    <2>2. [i \in 1 .. 0 |-> executed[i].log] = << >> /\ [i \in 1 .. 0 |-> dirtyQueue[i].log] = << >>
      OBVIOUS
    <2>3. << >> \o << >> = << >>
      OBVIOUS
    <2>4. QED
      BY <2>1, <2>2, <2>3
  <1>8. Ring!Init
    BY <1>1, <1>2, <1>4, <1>5, <1>6, <1>7
       DEF Ring!Init, RingLogs, RingArrived, RingParsed
  <1>9. QED
    BY <1>1, <1>2, <1>8 DEF CountOK

(* The constants LogRing is given meet its assumption, so that what is      *)
(* proved of LogRing holds of what it stands for here.                      *)
LEMMA RingConstants ==
  ASSUME HasLongest
  PROVE  /\ TOTAL_SIZE \in Nat \ {0} /\ SIZEOF_MATE \in Nat \ {0}
         /\ RingLens \subseteq Nat /\ \A n \in RingLens : n >= SIZEOF_MATE
         /\ Longest \in Nat
  <1>1. \A n \in RingLens : n \in Nat /\ n >= SIZEOF_MATE
    <2> TAKE n \in RingLens
    <2>1. PICK s \in Inputs : \E i \in DOMAIN s : n = NextOffset(s[i])
      BY DEF RingLens
    <2>2. PICK i \in DOMAIN s : n = NextOffset(s[i])
      BY <2>1
    <2>3. s[i].klen \in Nat /\ s[i].vlen \in Nat
      BY BufferAssumption
    <2>4. QED
      BY <2>2, <2>3, BufferAssumption DEF NextOffset
  <1>2. Longest \in Nat
    <2>1. PICK s \in Inputs : Longest = Len(s)
      BY DEF HasLongest, Longest
    <2>2. s \in Seq(Range(s))
      BY <2>1, BufferAssumption
    <2>3. QED
      BY <2>1, <2>2, LenProperties
  <1>3. QED
    BY <1>1, <1>2, BufferAssumption

(***************************************************************************)
(* The threads implement the pointer protocol, byte by byte: each of their *)
(* steps is one of LogRing's steps or does not touch what it is about.     *)
(* What is proved of the pointers there holds of the bytes here, for every *)
(* ring, every set of programs with a longest one and every interleaving,  *)
(* as long as no tag is stale and no key is in the ring twice              *)
(* (log_buffer.c:286-719).                                                 *)
(***************************************************************************)
THEOREM LinkImplementsRing ==
  ASSUME QueuesHoldRing, HasLongest
  PROVE  Spec /\ [](TagsFresh /\ KeysOnce) => ImplementsRing
  <1>1. Init => Ring!Init /\ CountOK
    BY InitRefines
  <1>2. RefineInv /\ BytesInv' /\ DirtyInv' /\ [Next]_vars
          => [Ring!Next]_(Ring!vars) /\ CountOK'
    BY StepRefines DEF RingStep
  <1>3. BytesInv /\ DirtyInv /\ CountOK => RefineInv
    BY DEF RefineInv
  <1>4. QED
    BY <1>1, <1>2, <1>3, DirtyInvariant, PTL DEF Spec, ImplementsRing, Ring!Spec

============================================================================
