-------------------------- MODULE LogRing_proofs --------------------------
(***************************************************************************)
(* Proofs about the pointer protocol, for every ring size, every set of    *)
(* log lengths and any number of logs.                                     *)
(***************************************************************************)
EXTENDS LogRing, RingArithmetic, SequenceTheorems

IndInv == TypeOK /\ ParsedInOrder /\ RingInv

LEMMA SizeIsPositive == SIZE \in Int /\ SIZE > 0
  BY RingAssumption

(* The code's data size of two pointers, from the counts they stand for. *)
LEMMA DataSizeIs ==
  ASSUME NEW x \in Int, NEW y \in Int, NEW a \in Int, NEW b \in Int,
         At(x, a), At(y, b), 0 <= a - b, a - b < SIZE
  PROVE  DataSize(x, y) = a - b
  <1>1. SamePos(SIZE, x, a) /\ SamePos(SIZE, y, b)
    BY DEF At, SamePos
  <1>2. Ahead(SIZE, x, y) = a - b
    BY <1>1, SizeIsPositive, ModDistance
  <1> QED
    BY <1>2 DEF DataSize, Ahead

(* A pointer n bytes further on stands for n bytes more. *)
LEMMA AtPlus ==
  ASSUME NEW p \in Int, NEW c \in Int, NEW n \in Int, At(p, c)
  PROVE  At(p + n, c + n)
  BY SizeIsPositive, ModMove DEF At

(* The same when it is reduced modulo the size. *)
LEMMA AtMoves ==
  ASSUME NEW p \in Int, NEW c \in Int, NEW n \in Int, At(p, c)
  PROVE  At((p + n) % SIZE, c + n)
  <1>1. (p + n) % SIZE = (c + n) % SIZE
    BY AtPlus DEF At
  <1>2. (p + n) % SIZE \in 0 .. SIZE - 1
    BY SizeIsPositive, DivMod
  <1>3. ((p + n) % SIZE) % SIZE = (p + n) % SIZE
    BY <1>2, SizeIsPositive, ModInRing
  <1> QED
    BY <1>1, <1>3 DEF At

(* The logs as a sequence: what the provers need of TypeOK. *)
LEMMA LogsAreRecords ==
  ASSUME TypeOK
  PROVE  /\ Len(logs) \in Nat
         /\ DOMAIN logs = 1 .. Len(logs)
         /\ \A i \in 1 .. Len(logs) :
              /\ logs[i] \in [start : Nat, pos : 0 .. SIZE, len : LogLens]
              /\ logs[i].start \in Nat /\ logs[i].pos \in Int
              /\ logs[i].len \in Nat /\ logs[i].len >= MATE
  <1>1. logs \in Seq([start : Nat, pos : 0 .. SIZE, len : LogLens])
    BY DEF TypeOK
  <1>2. /\ Len(logs) \in Nat
        /\ DOMAIN logs = 1 .. Len(logs)
    BY <1>1, LenProperties
  <1>3. ASSUME NEW i \in 1 .. Len(logs)
        PROVE  /\ logs[i] \in [start : Nat, pos : 0 .. SIZE, len : LogLens]
               /\ logs[i].start \in Nat /\ logs[i].pos \in Int
               /\ logs[i].len \in Nat /\ logs[i].len >= MATE
    <2>1. logs[i] \in [start : Nat, pos : 0 .. SIZE, len : LogLens]
      BY <1>1, ElementOfSeq
    <2>2. logs[i].start \in Nat /\ logs[i].pos \in 0 .. SIZE /\ logs[i].len \in LogLens
      BY <2>1
    <2>3. logs[i].pos \in Int
      BY <2>2, SizeIsPositive
    <2>4. logs[i].len \in Nat /\ logs[i].len >= MATE
      <3>1. \A n \in LogLens : n \in Nat /\ n >= MATE
        BY RingAssumption
      <3> QED
        BY <2>2, <3>1
    <2> QED
      BY <2>1, <2>2, <2>3, <2>4
  <1> QED
    BY <1>2, <1>3

(* Counts of bytes at the boundaries of logs. *)
LEMMA StartFacts ==
  ASSUME IndInv
  PROVE  /\ \A i \in 1 .. Len(logs) + 1 : StartOf(i) \in Nat
         /\ \A i \in 1 .. Len(logs) + 1 : StartOf(i) <= reserved
         /\ \A i \in 1 .. Len(logs) : StartOf(i) = logs[i].start
         /\ StartOf(Len(logs) + 1) = reserved
         /\ reserved \in Nat
  <1>1. Len(logs) \in Nat /\ reserved \in Nat
    BY LogsAreRecords DEF IndInv, TypeOK
  <1>2. \A i \in 1 .. Len(logs) : StartOf(i) = logs[i].start
    BY DEF StartOf
  <1>3. StartOf(Len(logs) + 1) = reserved
    BY <1>1 DEF StartOf
  <1>4. \A i \in 1 .. Len(logs) + 1 : StartOf(i) \in Nat
    BY <1>1, LogsAreRecords DEF StartOf, IndInv
  <1>5. \A i \in 1 .. Len(logs) + 1 : StartOf(i) <= StartOf(Len(logs) + 1)
    BY <1>1 DEF IndInv, RingInv, LogsAdjacent
  <1> QED
    BY <1>1, <1>2, <1>3, <1>4, <1>5

(* The stages of a log in order, and less than a lap between any two. *)
LEMMA StageFacts ==
  ASSUME IndInv
  PROVE  /\ cached + 1 \in 1 .. Len(logs) + 1
         /\ executed + 1 \in 1 .. Len(logs) + 1
         /\ Len(parsed) + 1 \in 1 .. Len(logs) + 1
         /\ published + 1 \in 1 .. Len(logs) + 1
         /\ 0 <= StartOf(cached + 1)
         /\ StartOf(cached + 1) <= StartOf(executed + 1)
         /\ StartOf(executed + 1) <= StartOf(Len(parsed) + 1)
         /\ StartOf(Len(parsed) + 1) <= StartOf(published + 1)
         /\ StartOf(published + 1) <= reserved
         /\ reserved - StartOf(cached + 1) < SIZE
  <1>1. /\ Len(logs) \in Nat /\ Len(parsed) \in Nat
        /\ published \in 0 .. Len(logs) /\ executed \in 0 .. Len(parsed)
        /\ cached \in 0 .. executed /\ Len(parsed) <= published
    BY LogsAreRecords DEF IndInv, TypeOK, RingInv, StagesOrdered
  <1>2. /\ cached + 1 \in 1 .. Len(logs) + 1
        /\ executed + 1 \in 1 .. Len(logs) + 1
        /\ Len(parsed) + 1 \in 1 .. Len(logs) + 1
        /\ published + 1 \in 1 .. Len(logs) + 1
    BY <1>1
  <1>3. \A i, j \in 1 .. Len(logs) + 1 : i <= j => StartOf(i) <= StartOf(j)
    BY DEF IndInv, RingInv, LogsAdjacent
  <1>4. /\ StartOf(cached + 1) <= StartOf(executed + 1)
        /\ StartOf(executed + 1) <= StartOf(Len(parsed) + 1)
        /\ StartOf(Len(parsed) + 1) <= StartOf(published + 1)
    BY <1>1, <1>2, <1>3
  <1> QED
    BY <1>2, <1>4, StartFacts DEF IndInv, RingInv, StagesOrdered

(* The data sizes the code computes from pointers are the true ones. *)
LEMMA SizesAreTrue ==
  ASSUME IndInv
  PROVE  /\ DataSize(wr, rdCache) = reserved - StartOf(cached + 1)
         /\ DataSize(wr, rd) = reserved - StartOf(executed + 1)
         /\ DataSize(rwr, rd) = StartOf(published + 1) - StartOf(executed + 1)
         /\ DataSize(rwr, rdKey)
              = StartOf(published + 1) - StartOf(Len(parsed) + 1)
         /\ DataSize(rdKey, rd)
              = StartOf(Len(parsed) + 1) - StartOf(executed + 1)
  <1> DEFINE C == StartOf(cached + 1)
             E == StartOf(executed + 1)
             K == StartOf(Len(parsed) + 1)
             P == StartOf(published + 1)
  <1>1. /\ C \in Int /\ E \in Int /\ K \in Int /\ P \in Int /\ reserved \in Int
        /\ C <= E /\ E <= K /\ K <= P /\ P <= reserved /\ reserved - C < SIZE
    BY StageFacts, StartFacts
  <1>2. /\ wr \in Int /\ rdCache \in Int /\ rwr \in Int
        /\ rd \in Int /\ rdKey \in Int
    BY SizeIsPositive DEF IndInv, TypeOK
  <1>3. /\ At(wr, reserved) /\ At(rdCache, C) /\ At(rwr, P)
        /\ At(rdKey, K) /\ At(rd, E)
    BY DEF IndInv, RingInv, PointersCount
  <1> HIDE DEF C, E, K, P
  <1>4. /\ 0 <= reserved - C /\ reserved - C < SIZE
        /\ 0 <= reserved - E /\ reserved - E < SIZE
        /\ 0 <= P - E /\ P - E < SIZE
        /\ 0 <= P - K /\ P - K < SIZE
        /\ 0 <= K - E /\ K - E < SIZE
    BY <1>1, SizeIsPositive
  <1>5. DataSize(wr, rdCache) = reserved - C
    BY <1>1, <1>2, <1>3, <1>4, DataSizeIs
  <1>6. DataSize(wr, rd) = reserved - E
    BY <1>1, <1>2, <1>3, <1>4, DataSizeIs
  <1>7. DataSize(rwr, rd) = P - E
    BY <1>1, <1>2, <1>3, <1>4, DataSizeIs
  <1>8. DataSize(rwr, rdKey) = P - K
    BY <1>1, <1>2, <1>3, <1>4, DataSizeIs
  <1>9. DataSize(rdKey, rd) = K - E
    BY <1>1, <1>2, <1>3, <1>4, DataSizeIs
  <1> QED
    BY <1>5, <1>6, <1>7, <1>8, <1>9 DEF C, E, K, P

(* What TypeOK and the log's place in the chain say about one log. *)
LEMMA LogFacts ==
  ASSUME IndInv, NEW i \in 1 .. Len(logs)
  PROVE  /\ logs[i].start \in Int /\ logs[i].pos \in Int
         /\ logs[i].len \in Int /\ logs[i].len > 0
         /\ At(logs[i].pos, logs[i].start)
         /\ StartOf(i) = logs[i].start
         /\ StartOf(i + 1) = logs[i].start + logs[i].len
         /\ StartOf(i + 1) <= reserved
  <1>1. /\ logs[i].start \in Nat /\ logs[i].pos \in Int
        /\ logs[i].len \in Nat /\ logs[i].len >= MATE
    BY LogsAreRecords DEF IndInv
  <1>2. /\ StartOf(i + 1) = logs[i].start + logs[i].len
        /\ At(logs[i].pos, logs[i].start)
    BY DEF IndInv, RingInv, LogsAdjacent
  <1>3. i + 1 \in 1 .. Len(logs) + 1
    BY LogsAreRecords DEF IndInv
  <1> QED
    BY <1>1, <1>2, <1>3, StartFacts, RingAssumption

(* What stands at the key pointer is the next log, if it is published. *)
LEMMA NextLogAtKeyPointer ==
  ASSUME IndInv, DataSize(rwr, rdKey) >= MATE,
         NEW i \in DOMAIN logs, Owns(i, rdKey)
  PROVE  i = Len(parsed) + 1 /\ i <= published
  <1> DEFINE m == Len(parsed) + 1
             K == StartOf(m)
  <1>1. /\ Len(logs) \in Nat /\ DOMAIN logs = 1 .. Len(logs)
        /\ m \in Nat /\ published \in 0 .. Len(logs)
        /\ m \in 1 .. Len(logs) + 1 /\ m <= published + 1 /\ i \in 1 .. Len(logs)
    <2>1. Len(logs) \in Nat /\ DOMAIN logs = 1 .. Len(logs)
      BY LogsAreRecords DEF IndInv
    <2>2. Len(parsed) \in Nat /\ published \in 0 .. Len(logs)
      BY DEF IndInv, TypeOK
    <2>3. Len(parsed) <= published
      BY DEF IndInv, RingInv, StagesOrdered
    <2> QED
      BY <2>1, <2>2, <2>3
  <1>2. m <= published
    <2>1. StartOf(published + 1) - K >= MATE
      BY SizesAreTrue
    <2>2. K \in Nat
      BY <1>1, StartFacts
    <2>3. CASE m = published + 1
      <3>1. StartOf(published + 1) - K = 0
        BY <2>2, <2>3
      <3> QED
        BY <2>1, <3>1, RingAssumption
    <2> QED
      BY <1>1, <2>3
  <1>3. m \in 1 .. Len(logs)
    BY <1>1, <1>2
  <1>4. /\ logs[m].pos \in Int /\ logs[m].len \in Int /\ logs[m].len > 0
        /\ K \in Int /\ At(logs[m].pos, K)
        /\ StartOf(m + 1) = K + logs[m].len
    BY <1>3, LogFacts
  <1>5. rdKey \in Int /\ At(rdKey, K)
    BY SizeIsPositive DEF IndInv, TypeOK, RingInv, PointersCount
  <1>6. reserved - K < SIZE /\ reserved \in Int
    <2>1. /\ StartOf(cached + 1) <= StartOf(executed + 1)
          /\ StartOf(executed + 1) <= K
          /\ reserved - StartOf(cached + 1) < SIZE
          /\ cached + 1 \in 1 .. Len(logs) + 1
          /\ executed + 1 \in 1 .. Len(logs) + 1
      BY StageFacts
    <2>2. /\ StartOf(cached + 1) \in Nat /\ StartOf(executed + 1) \in Nat
          /\ reserved \in Nat
      BY <2>1, StartFacts
    <2> QED
      BY <2>1, <2>2, <1>4, SizeIsPositive
  <1> HIDE DEF m, K
  <1>7. Covers(m, rdKey)
    <2>1. DataSize(rdKey, logs[m].pos) = K - K
      BY <1>4, <1>5, SizeIsPositive, DataSizeIs
    <2> QED
      BY <2>1, <1>4 DEF Covers
  <1>8. CASE i < m
    BY <1>1, <1>3, <1>7, <1>8 DEF Owns
  <1>9. CASE i > m
    <2> DEFINE S == logs[i].start
               n == logs[i].len
               q == logs[i].pos
               D == K + SIZE
    <2>1. /\ S \in Int /\ n \in Int /\ n > 0 /\ q \in Int /\ At(q, S)
          /\ StartOf(i) = S /\ S + n <= reserved
      BY <1>1, LogFacts
    <2>2. K + logs[m].len <= S
      <3>1. m + 1 \in 1 .. Len(logs) + 1 /\ i \in 1 .. Len(logs) + 1 /\ m + 1 <= i
        BY <1>1, <1>3, <1>9
      <3>2. StartOf(m + 1) <= StartOf(i)
        BY <3>1 DEF IndInv, RingInv, LogsAdjacent
      <3> QED
        BY <3>2, <1>4, <2>1
    <2> HIDE DEF S, n, q
    <2>3. D \in Int /\ 0 <= D - S /\ D - S < SIZE /\ D - S >= n
      BY <1>4, <1>6, <2>1, <2>2, SizeIsPositive
    <2>4. At(rdKey, D)
      <3>1. (K + SIZE) % SIZE = K % SIZE
        BY <1>4, SizeIsPositive, ModLap
      <3> QED
        BY <3>1, <1>5 DEF At
    <2> HIDE DEF D
    <2>5. DataSize(rdKey, q) = D - S
      BY <1>5, <2>1, <2>3, <2>4, DataSizeIs
    <2>6. ~Covers(i, rdKey)
      BY <2>1, <2>3, <2>5 DEF Covers, n, q
    <2> QED
      BY <2>6 DEF Owns
  <1> QED
    BY <1>1, <1>2, <1>3, <1>8, <1>9 DEF m

----------------------------------------------------------------------------
(* The inductive invariant. *)

LEMMA InitInv == Init => IndInv
  <1> SUFFICES ASSUME Init
               PROVE  IndInv
    OBVIOUS
  <1> USE DEF Init
  <1>1. logs = << >> /\ Len(logs) = 0 /\ parsed = << >> /\ Len(parsed) = 0
    OBVIOUS
  <1>2. TypeOK
    BY <1>1, RingAssumption DEF TypeOK
  <1>3. ParsedInOrder
    BY <1>1 DEF ParsedInOrder
  <1>4. \A i \in 1 .. 1 : StartOf(i) = 0
    BY <1>1 DEF StartOf
  <1>5. LogsAdjacent
    BY <1>1, <1>4 DEF LogsAdjacent
  <1>6. PointersCount /\ StagesOrdered
    BY <1>1, <1>4, RingAssumption DEF PointersCount, StagesOrdered, At
  <1> QED
    BY <1>2, <1>3, <1>5, <1>6 DEF IndInv, RingInv

(* While nothing is reserved the chain of logs stays as it is. *)
LEMMA SameLogs ==
  ASSUME IndInv, logs' = logs, reserved' = reserved
  PROVE  /\ LogsAdjacent'
         /\ \A i : StartOf(i)' = StartOf(i)
  <1>1. \A i : StartOf(i)' = StartOf(i)
    BY DEF StartOf
  <1> QED
    BY <1>1 DEF LogsAdjacent, IndInv, RingInv, At, StartOf

LEMMA ReadRemoteRdInv ==
  ASSUME IndInv, ReadRemoteRd
  PROVE  IndInv'
  <1> USE DEF ReadRemoteRd, reader
  <1>1. LogsAdjacent' /\ \A i : StartOf(i)' = StartOf(i)
    BY SameLogs
  <1>2. TypeOK'
    BY DEF TypeOK, IndInv
  <1>3. ParsedInOrder'
    BY DEF ParsedInOrder, IndInv
  <1>4. PointersCount'
    BY <1>1 DEF PointersCount, At, IndInv, RingInv
  <1>5. StagesOrdered'
    <2>1. reserved - StartOf(executed + 1) < SIZE
      BY StageFacts, StartFacts, SizeIsPositive
    <2> QED
      BY <1>1, <2>1 DEF StagesOrdered, IndInv, RingInv
  <1> QED
    BY <1>1, <1>2, <1>3, <1>4, <1>5 DEF IndInv, RingInv

LEMMA PublishInv ==
  ASSUME IndInv, Publish
  PROVE  IndInv'
  <1> USE DEF Publish, writer, reader
  <1>1. LogsAdjacent' /\ \A i : StartOf(i)' = StartOf(i)
    BY SameLogs
  <1>2. published' = Len(logs) /\ Len(logs) \in Nat /\ published \in Nat
    <2>1. Len(logs) \in Nat
      BY LogsAreRecords DEF IndInv
    <2>2. published \in 0 .. Len(logs) /\ published >= Len(logs) - 1
      BY DEF IndInv, TypeOK, RingInv, StagesOrdered
    <2> QED
      BY <2>1, <2>2
  <1>3. TypeOK'
    BY <1>2 DEF TypeOK, IndInv
  <1>4. ParsedInOrder'
    BY DEF ParsedInOrder, IndInv
  <1>5. PointersCount'
    BY <1>1, <1>2, StartFacts DEF PointersCount, At, IndInv, RingInv
  <1>6. StagesOrdered'
    <2>1. Len(parsed) <= published /\ Len(parsed) \in Nat
      BY DEF StagesOrdered, IndInv, RingInv, TypeOK
    <2>2. Len(parsed') <= published' /\ published' >= Len(logs') - 1
      BY <1>2, <2>1
    <2> QED
      BY <1>1, <2>2 DEF StagesOrdered, IndInv, RingInv
  <1> QED
    BY <1>1, <1>3, <1>4, <1>5, <1>6 DEF IndInv, RingInv

LEMMA ArriveInv ==
  ASSUME IndInv, NEW i \in 1 .. published, Arrive(i)
  PROVE  IndInv'
  <1> USE DEF Arrive, writer, reader
  <1>1. LogsAdjacent' /\ \A j : StartOf(j)' = StartOf(j)
    BY SameLogs
  <1>2. TypeOK'
    BY DEF TypeOK, IndInv
  <1>3. ParsedInOrder'
    BY DEF ParsedInOrder, IndInv
  <1>4. PointersCount' /\ StagesOrdered'
    BY <1>1 DEF PointersCount, At, StagesOrdered, IndInv, RingInv
  <1> QED
    BY <1>1, <1>2, <1>3, <1>4 DEF IndInv, RingInv

LEMMA ParseInv ==
  ASSUME IndInv, NEW i \in DOMAIN logs, Parse(i)
  PROVE  IndInv'
  <1>1. LogsAdjacent' /\ \A j : StartOf(j)' = StartOf(j)
    BY SameLogs DEF Parse, writer
  <1>2. /\ i = Len(parsed) + 1 /\ i <= published /\ i \in 1 .. Len(logs)
        /\ Len(parsed) \in Nat /\ parsed \in Seq(Nat)
    <2>1. i = Len(parsed) + 1 /\ i <= published
      BY NextLogAtKeyPointer DEF Parse
    <2>2. i \in 1 .. Len(logs)
      BY LogsAreRecords DEF IndInv
    <2> QED
      BY <2>1, <2>2 DEF IndInv, TypeOK
  <1>3. parsed' = Append(parsed, i) /\ Len(parsed') = i /\ parsed' \in Seq(Nat)
    BY <1>2 DEF Parse
  <1>4. rdKey' \in 0 .. SIZE - 1 /\ At(rdKey', StartOf(i + 1))
    <2>1. /\ rdKey \in Int /\ At(rdKey, StartOf(i))
      BY <1>2, SizeIsPositive DEF IndInv, TypeOK, RingInv, PointersCount
    <2>2. /\ StartOf(i) \in Int /\ logs[i].len \in Int
          /\ StartOf(i + 1) = StartOf(i) + logs[i].len
      BY <1>2, LogFacts
    <2>3. rdKey' = (rdKey + logs[i].len) % SIZE
      BY DEF Parse
    <2>4. At(rdKey', StartOf(i) + logs[i].len)
      BY <2>1, <2>2, <2>3, AtMoves
    <2>5. rdKey' \in 0 .. SIZE - 1
      BY <2>1, <2>2, <2>3, SizeIsPositive, DivMod
    <2> QED
      BY <2>2, <2>4, <2>5
  <1>5. TypeOK'
    <2>1. executed \in 0 .. Len(parsed')
      BY <1>2, <1>3 DEF TypeOK, IndInv
    <2> QED
      BY <1>3, <1>4, <2>1 DEF TypeOK, IndInv, Parse, writer
  <1>6. ParsedInOrder'
    <2> SUFFICES ASSUME NEW k \in 1 .. Len(parsed')
                 PROVE  parsed'[k] = k
      BY DEF ParsedInOrder
    <2>1. CASE k = i
      BY <2>1, <1>2, <1>3
    <2>2. CASE k # i
      <3>1. k \in 1 .. Len(parsed)
        BY <2>2, <1>2, <1>3
      <3> QED
        BY <3>1, <1>2, <1>3 DEF IndInv, ParsedInOrder
    <2> QED
      BY <2>1, <2>2
  <1>7. PointersCount'
    BY <1>1, <1>3, <1>4 DEF PointersCount, At, IndInv, RingInv, Parse, writer
  <1>8. StagesOrdered'
    BY <1>1, <1>2, <1>3 DEF StagesOrdered, IndInv, RingInv, Parse, writer
  <1> QED
    BY <1>1, <1>5, <1>6, <1>7, <1>8 DEF IndInv, RingInv

LEMMA ExecuteInv ==
  ASSUME IndInv, Execute
  PROVE  IndInv'
  <1> DEFINE k == executed + 1
  <1>1. LogsAdjacent' /\ \A j : StartOf(j)' = StartOf(j)
    BY SameLogs DEF Execute, writer
  <1>2. /\ k \in 1 .. Len(parsed) /\ k \in 1 .. Len(logs) /\ parsed[k] = k
    <2>1. k \in 1 .. Len(parsed)
      <3>1. Len(parsed) \in Nat
        BY DEF IndInv, TypeOK
      <3>2. executed \in 0 .. Len(parsed) /\ executed < Len(parsed)
        BY DEF Execute, IndInv, TypeOK
      <3> QED
        BY <3>1, <3>2
    <2>2. k \in 1 .. Len(logs)
      BY <2>1, LogsAreRecords DEF IndInv, TypeOK, RingInv, StagesOrdered
    <2> QED
      BY <2>1, <2>2 DEF IndInv, ParsedInOrder
  <1>3. rd' \in 0 .. SIZE - 1 /\ At(rd', StartOf(k + 1))
    <2>1. rd \in Int /\ At(rd, StartOf(k))
      BY SizeIsPositive DEF IndInv, TypeOK, RingInv, PointersCount
    <2>2. /\ StartOf(k) \in Int /\ logs[k].len \in Int
          /\ StartOf(k + 1) = StartOf(k) + logs[k].len
      BY <1>2, LogFacts
    <2>3. rd' = (rd + logs[k].len) % SIZE
      BY <1>2 DEF Execute
    <2>4. At(rd', StartOf(k) + logs[k].len)
      BY <2>1, <2>2, <2>3, AtMoves
    <2>5. rd' \in 0 .. SIZE - 1
      BY <2>1, <2>2, <2>3, SizeIsPositive, DivMod
    <2> QED
      BY <2>2, <2>4, <2>5
  <1>4. TypeOK'
    BY <1>2, <1>3 DEF TypeOK, IndInv, Execute, writer
  <1>5. ParsedInOrder'
    BY DEF ParsedInOrder, IndInv, Execute
  <1>6. PointersCount'
    BY <1>1, <1>3 DEF PointersCount, At, IndInv, RingInv, Execute, writer
  <1>7. StagesOrdered'
    BY <1>1 DEF StagesOrdered, IndInv, RingInv, Execute, writer
  <1> QED
    BY <1>1, <1>4, <1>5, <1>6, <1>7 DEF IndInv, RingInv

(* A write of less than a lap leaves the pointer inside the ring. *)
LEMMA AdvanceIs ==
  ASSUME NEW p \in 0 .. SIZE, NEW n \in Nat, n < SIZE, NEW c \in Int, At(p, c)
  PROVE  Advance(p, n) \in 0 .. SIZE /\ At(Advance(p, n), c + n)
  <1>1. SIZE \in Int /\ SIZE > 0 /\ p \in Int /\ n \in Int
    BY SizeIsPositive
  <1>2. (p + n) % SIZE = (c + n) % SIZE
    <2>1. At(p + n, c + n)
      BY <1>1, AtPlus
    <2> QED
      BY <2>1 DEF At
  <1>3. CASE p + n > SIZE
    <2> DEFINE x == p + n - SIZE
    <2>1. x \in 0 .. SIZE /\ x \in Int /\ x + SIZE = p + n
      BY <1>1, <1>3
    <2> HIDE DEF x
    <2>2. (x + SIZE) % SIZE = x % SIZE
      BY <1>1, <2>1, ModLap
    <2>3. At(x, c + n)
      BY <1>2, <2>1, <2>2 DEF At
    <2>4. Advance(p, n) = x
      BY <1>3 DEF Advance, x
    <2> QED
      BY <2>1, <2>3, <2>4
  <1>4. CASE p + n <= SIZE
    <2>1. Advance(p, n) = p + n /\ p + n \in 0 .. SIZE
      BY <1>1, <1>4 DEF Advance
    <2> QED
      BY <2>1, <1>2 DEF At
  <1> QED
    BY <1>1, <1>3, <1>4

LEMMA ReserveInv ==
  ASSUME IndInv, NEW n \in LogLens, Reserve(n)
  PROVE  IndInv'
  <1>0. PICK L \in Nat : L = Len(logs)
    BY LogsAreRecords DEF IndInv
  <1> DEFINE new == [start |-> reserved, pos |-> wr, len |-> n]
  <1>1. /\ L = Len(logs) /\ published = L /\ reserved \in Nat /\ n \in Nat /\ n > 0
        /\ wr \in 0 .. SIZE /\ wr \in Int
        /\ logs \in Seq([start : Nat, pos : 0 .. SIZE, len : LogLens])
    <2>1. n \in Nat /\ n > 0
      BY RingAssumption
    <2> QED
      BY <1>0, <2>1, SizeIsPositive DEF Reserve, IndInv, TypeOK
  <1>2. n < SIZE /\ reserved + n - StartOf(cached + 1) < SIZE
    <2>1. n <= SIZE - 1 - (reserved - StartOf(cached + 1))
      BY SizesAreTrue DEF Reserve, FreeSize
    <2>2. /\ StartOf(cached + 1) \in Nat
          /\ StartOf(cached + 1) <= reserved
      BY StageFacts, StartFacts
    <2> QED
      BY <1>1, <2>1, <2>2, SizeIsPositive
  <1>3. /\ logs' = Append(logs, new) /\ reserved' = reserved + n
        /\ wr' = Advance(wr, n)
        /\ UNCHANGED <<rdCache, cached, rwr, published, arrived,
                       parsed, rdKey, executed, rd>>
    BY DEF Reserve, reader
  <1>4. /\ new \in [start : Nat, pos : 0 .. SIZE, len : LogLens]
        /\ new.start = reserved /\ new.pos = wr /\ new.len = n
    BY <1>1
  <1> HIDE DEF new
  <1>5. /\ logs' \in Seq([start : Nat, pos : 0 .. SIZE, len : LogLens])
        /\ Len(logs') = L + 1
        /\ \A i \in 1 .. L : logs'[i] = logs[i]
        /\ logs'[L + 1] = new
    BY <1>1, <1>3, <1>4
  <1>6. /\ \A i \in 1 .. L + 1 : StartOf(i)' = StartOf(i)
        /\ StartOf(L + 2)' = reserved + n
    <2>1. ASSUME NEW i \in 1 .. L
          PROVE  StartOf(i)' = StartOf(i)
      <3>1. i \in 1 .. Len(logs) /\ i \in 1 .. Len(logs')
        BY <1>1, <1>5
      <3>2. logs'[i].start = logs[i].start
        BY <1>5
      <3> QED
        BY <3>1, <3>2 DEF StartOf
    <2>2. StartOf(L + 1)' = reserved /\ StartOf(L + 1) = reserved
      BY <1>1, <1>4, <1>5 DEF StartOf
    <2>3. StartOf(L + 2)' = reserved + n
      BY <1>1, <1>3, <1>5 DEF StartOf
    <2> QED
      BY <1>1, <2>1, <2>2, <2>3
  <1>7. wr' \in 0 .. SIZE /\ At(wr', reserved')
    <2>1. At(wr, reserved)
      BY DEF IndInv, RingInv, PointersCount
    <2> QED
      BY <1>1, <1>2, <1>3, <2>1, AdvanceIs
  <1>8. TypeOK'
    BY <1>1, <1>3, <1>5, <1>7 DEF TypeOK, IndInv
  <1>9. ParsedInOrder'
    BY <1>3 DEF ParsedInOrder, IndInv
  <1>10. LogsAdjacent'
    <2>1. StartOf(1)' = 0
      BY <1>1, <1>6 DEF IndInv, RingInv, LogsAdjacent
    <2>2. ASSUME NEW i \in 1 .. L + 1
          PROVE  /\ StartOf(i + 1)' = logs'[i].start + logs'[i].len
                 /\ At(logs'[i].pos, logs'[i].start)
      <3>1. CASE i = L + 1
        <4>1. At(wr, reserved)
          BY DEF IndInv, RingInv, PointersCount
        <4>2. i + 1 = L + 2
          BY <3>1, <1>1
        <4> QED
          BY <3>1, <4>1, <4>2, <1>4, <1>5, <1>6
      <3>2. CASE i # L + 1
        <4>1. i \in 1 .. L /\ i + 1 \in 1 .. L + 1
          BY <3>2, <1>1
        <4>2. /\ StartOf(i + 1) = logs[i].start + logs[i].len
              /\ At(logs[i].pos, logs[i].start)
          BY <4>1, <1>1, LogFacts
        <4> QED
          BY <4>1, <4>2, <1>5, <1>6
      <3> QED
        BY <3>1, <3>2
    <2>3. ASSUME NEW i \in 1 .. L + 2, NEW j \in 1 .. L + 2, i <= j
          PROVE  StartOf(i)' <= StartOf(j)'
      <3>1. CASE j \in 1 .. L + 1
        <4>1. i \in 1 .. L + 1
          BY <3>1, <2>3, <1>1
        <4>2. StartOf(i) <= StartOf(j)
          BY <1>1, <3>1, <4>1, <2>3 DEF IndInv, RingInv, LogsAdjacent
        <4> QED
          BY <3>1, <4>1, <4>2, <1>6
      <3>2. CASE j = L + 2 /\ i \in 1 .. L + 1
        <4>1. StartOf(i) <= reserved /\ StartOf(i) \in Nat
          BY <1>1, <3>2, StartFacts
        <4> QED
          BY <3>2, <4>1, <1>1, <1>6
      <3>3. CASE j = L + 2 /\ i = L + 2
        BY <3>3, <1>1, <1>6
      <3> QED
        BY <3>1, <3>2, <3>3, <1>1
    <2> QED
      BY <1>1, <1>5, <2>1, <2>2, <2>3 DEF LogsAdjacent, At
  <1>11. PointersCount'
    <2>1. /\ StartOf(cached + 1)' = StartOf(cached + 1)
          /\ StartOf(published + 1)' = StartOf(published + 1)
          /\ StartOf(Len(parsed) + 1)' = StartOf(Len(parsed) + 1)
          /\ StartOf(executed + 1)' = StartOf(executed + 1)
      BY <1>1, <1>3, <1>6, StageFacts DEF StartOf
    <2> QED
      BY <1>3, <1>7, <2>1 DEF PointersCount, At, IndInv, RingInv
  <1>12. StagesOrdered'
    <2>1. StartOf(cached + 1)' = StartOf(cached + 1)
      BY <1>1, <1>3, <1>6, StageFacts DEF StartOf
    <2>2. reserved' - StartOf(cached + 1)' < SIZE
      <3> DEFINE C == StartOf(cached + 1)
      <3>1. C \in Nat
        BY StageFacts, StartFacts
      <3>2. StartOf(cached + 1)' = C /\ reserved + n - C < SIZE
        BY <1>2, <2>1
      <3> HIDE DEF C
      <3> QED
        BY <1>1, <1>3, <3>1, <3>2
    <2>3. Len(parsed') <= published' /\ published' >= Len(logs') - 1
      BY <1>1, <1>3, <1>5 DEF StagesOrdered, IndInv, RingInv
    <2> QED
      BY <2>2, <2>3 DEF StagesOrdered
  <1> QED
    BY <1>8, <1>9, <1>10, <1>11, <1>12 DEF IndInv, RingInv

LEMMA NextInv == IndInv /\ [Next]_vars => IndInv'
  <1> SUFFICES ASSUME IndInv, [Next]_vars
               PROVE  IndInv'
    OBVIOUS
  <1>1. CASE UNCHANGED vars
    BY <1>1 DEF vars, IndInv, TypeOK, ParsedInOrder, RingInv, LogsAdjacent,
                PointersCount, StagesOrdered, StartOf, At
  <1>2. CASE Next
    BY <1>2, ReadRemoteRdInv, ReserveInv, PublishInv, ArriveInv, ParseInv,
       ExecuteInv DEF Next
  <1> QED
    BY <1>1, <1>2

----------------------------------------------------------------------------
(* Pointers stay in the ring and the stages of a log are sets of logs that *)
(* were written, for every size of the ring.                               *)
THEOREM RingTypes == Spec => []TypeOK
  <1>1. IndInv => TypeOK
    BY DEF IndInv
  <1> QED
    BY <1>1, InitInv, NextInv, PTL DEF Spec

(* Every reachable state is well typed and satisfies the inductive         *)
(* invariant.                                                              *)
THEOREM RingInvariant == Spec => [](TypeOK /\ RingInv)
  <1>1. IndInv => TypeOK /\ RingInv
    BY DEF IndInv
  <1> QED
    BY <1>1, InitInv, NextInv, PTL DEF Spec

(* read_log_key finds every log exactly once and in the order written. *)
THEOREM LogsParsedInOrder == Spec => []ParsedInOrder
  <1>1. IndInv => ParsedInOrder
    BY DEF IndInv
  <1> QED
    BY <1>1, InitInv, NextInv, PTL DEF Spec

(* The bytes of a log not executed yet are never reserved again. *)
THEOREM LiveLogsDisjoint == Spec => []NoOverlap
  <1>1. ASSUME IndInv, NEW i \in executed + 1 .. Len(logs),
               NEW j \in executed + 1 .. Len(logs), i < j,
               NEW a \in BytesOf(i), NEW b \in BytesOf(j)
        PROVE  a % SIZE # b % SIZE
    <2> DEFINE E == StartOf(executed + 1)
    <2>1. /\ Len(logs) \in Nat /\ executed \in Nat
          /\ i \in 1 .. Len(logs) /\ j \in 1 .. Len(logs)
      BY <1>1, LogsAreRecords DEF IndInv, TypeOK
    <2>2. /\ logs[i].start \in Int /\ logs[i].len \in Int
          /\ logs[j].start \in Int /\ logs[j].len \in Int
          /\ StartOf(i) = logs[i].start /\ StartOf(j) = logs[j].start
          /\ StartOf(i + 1) = logs[i].start + logs[i].len
          /\ logs[j].start + logs[j].len <= reserved
      BY <1>1, <2>1, LogFacts
    <2>3. E <= StartOf(i) /\ StartOf(i + 1) <= StartOf(j)
      <3>1. \A x, y \in 1 .. Len(logs) + 1 : x <= y => StartOf(x) <= StartOf(y)
        BY <1>1 DEF IndInv, RingInv, LogsAdjacent
      <3>2. /\ executed + 1 \in 1 .. Len(logs) + 1 /\ i \in 1 .. Len(logs) + 1
            /\ i + 1 \in 1 .. Len(logs) + 1 /\ j \in 1 .. Len(logs) + 1
            /\ executed + 1 <= i /\ i + 1 <= j
        BY <1>1, <2>1
      <3> QED
        BY <3>1, <3>2
    <2>4. reserved \in Int /\ E \in Int /\ reserved - E < SIZE
      BY <1>1, StageFacts, StartFacts, SizeIsPositive
    <2>5. /\ a \in logs[i].start .. logs[i].start + logs[i].len - 1
          /\ b \in logs[j].start .. logs[j].start + logs[j].len - 1
      BY DEF BytesOf
    <2> HIDE DEF E
    <2> DEFINE si == logs[i].start
               ni == logs[i].len
               sj == logs[j].start
               nj == logs[j].len
    <2>6. /\ a \in Int /\ b \in Int /\ E <= a /\ a < b /\ b < reserved
      <3>1. /\ si \in Int /\ ni \in Int /\ sj \in Int /\ nj \in Int
            /\ E <= si /\ si + ni <= sj /\ sj + nj <= reserved
            /\ a \in si .. si + ni - 1 /\ b \in sj .. sj + nj - 1
        BY <2>2, <2>3, <2>5
      <3> HIDE DEF si, ni, sj, nj
      <3> QED
        BY <3>1, <2>4
    <2>7. a - b < SIZE /\ b - a < SIZE /\ a # b
      BY <2>4, <2>6, SizeIsPositive
    <2> QED
      BY <2>6, <2>7, SizeIsPositive, ModInjective
  <1>2. IndInv => NoOverlap
    <2> SUFFICES ASSUME IndInv, NEW i \in executed + 1 .. Len(logs),
                        NEW j \in executed + 1 .. Len(logs), i # j,
                        NEW a \in BytesOf(i), NEW b \in BytesOf(j)
                 PROVE  a % SIZE # b % SIZE
      BY DEF NoOverlap
    <2>1. i < j \/ j < i
      BY LogsAreRecords DEF IndInv, TypeOK
    <2> QED
      BY <1>1, <2>1
  <1> QED
    BY <1>2, InitInv, NextInv, PTL DEF Spec

(* The writer never believes in more free space than there is. *)
THEOREM StaleReadPointerSafe == Spec => []StaleCheckIsSafe
  <1>1. IndInv => StaleCheckIsSafe
    <2> SUFFICES ASSUME IndInv
                 PROVE  StaleCheckIsSafe
      OBVIOUS
    <2> DEFINE C == StartOf(cached + 1)
               E == StartOf(executed + 1)
    <2>1. C \in Int /\ E \in Int /\ reserved \in Int /\ C <= E
      BY StageFacts, StartFacts
    <2>2. DataSize(wr, rdCache) = reserved - C /\ DataSize(wr, rd) = reserved - E
      BY SizesAreTrue
    <2> HIDE DEF C, E
    <2> QED
      BY <2>1, <2>2, SizeIsPositive DEF StaleCheckIsSafe, FreeSize
  <1> QED
    BY <1>1, InitInv, NextInv, PTL DEF Spec

(* rb_read's size test never refuses what read_log_key wants to copy. *)
THEOREM ReadsNeverRefused == Spec => []ReadsWithinData
  <1>1. IndInv => ReadsWithinData
    <2> SUFFICES ASSUME IndInv
                 PROVE  ReadsWithinData
      OBVIOUS
    <2> DEFINE E == StartOf(executed + 1)
               K == StartOf(Len(parsed) + 1)
               P == StartOf(published + 1)
    <2>1. E \in Int /\ K \in Int /\ P \in Int
      BY StageFacts, StartFacts
    <2>2. /\ DataSize(rwr, rdKey) = P - K /\ DataSize(rdKey, rd) = K - E
          /\ DataSize(rwr, rd) = P - E
      BY SizesAreTrue
    <2> HIDE DEF E, K, P
    <2> QED
      BY <2>1, <2>2 DEF ReadsWithinData
  <1> QED
    BY <1>1, InitInv, NextInv, PTL DEF Spec

=============================================================================
