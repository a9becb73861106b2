-------------------------- MODULE LogBuffer_proofs --------------------------
(***************************************************************************)
(* Proofs about one link of the chain, byte by byte, for every size of the *)
(* ring and of the queues and for any logs.                                *)
(***************************************************************************)
EXTENDS LogBuffer, RingArithmetic, SequenceTheorems, FiniteSetTheorems

Keys == UNION {{n[i].key : i \in DOMAIN n} : n \in Inputs}
Cells == Nat \X Nat
LogRec == [start : Nat, pos : 0 .. TOTAL_SIZE, key : Keys,
           klen : Nat \ {0}, vlen : Nat \ {0, 1}]
ByteOps == [op : {"bytes"}, log : Nat, from : Nat, n : Nat, at : Nat]
Ops == {[op |-> "rd"], [op |-> "wr"]} \cup ByteOps
Entry == [log : Nat, pos : 0 .. TOTAL_SIZE - 1, klen : Nat, vlen : Nat,
          key : Keys \cup {""}, keyCut : BOOLEAN, value : Seq(Cells)]
Result == [log : Nat, value : Seq(Cells)]

HeadTypes ==
  /\ names \in Inputs
  /\ wpc \in {"idle", "checked", "mate", "put", "crash"}
  /\ count \in 0 .. REPEAT
  /\ wpc \in {"checked", "mate", "put"} => count < REPEAT
  /\ wpc = "put" => Len(logs) > 0
  /\ wr \in 0 .. TOTAL_SIZE
  /\ rdCache \in 0 .. TOTAL_SIZE - 1
  /\ logs \in Seq(LogRec)
  /\ sending \in Seq(1 .. Len(logs))

(* A thread waits in the work list only with a call to make, and once. *)
WorkTypes ==
  /\ todo \in [Threads -> Seq(Ops)]
  /\ \A t \in Threads : \A k \in DOMAIN todo[t] :
       todo[t][k].op = "bytes" => todo[t][k].log \in 1 .. Len(logs)
  /\ work \in Seq(Threads)
  /\ \A i, j \in DOMAIN work : work[i] = work[j] => i = j
  /\ \A i \in DOMAIN work : todo[work[i]] # << >>

MemTypes ==
  /\ mem \in [0 .. TOTAL_SIZE - 1 -> Cells]
  /\ \A p \in 0 .. TOTAL_SIZE - 1 : mem[p] = Zero \/ mem[p][1] \in 1 .. Len(logs)
  /\ rwr \in 0 .. TOTAL_SIZE

TailTypes ==
  /\ class \in Classes
  /\ ring \in {"none", "there", "pointers", "ready", "failed"}
  /\ rpc \in {"start", "addr", "key", "value", "exec", "clean", "done", "abort", "wild"}
  /\ readNum \in 0 .. READ_LIMIT
  /\ {rd, rdKey} \subseteq 0 .. TOTAL_SIZE - 1
  /\ peeding \in Seq(Entry) /\ executing \in Seq(Entry) /\ dirtyQueue \in Seq(Entry)
  /\ executed \in Seq(Result)
  /\ forward \in Seq(Entry) /\ forwarded \in Seq(Result)

Types == HeadTypes /\ WorkTypes /\ MemTypes /\ TailTypes

(* Every log that is parsed and not yet cleaned is in dirty_queue, and the *)
(* reader ends with the last log.                                          *)
PipeOK ==
  /\ rpc # "abort" =>
       Len(dirtyQueue) = Len(peeding) + Len(executing) + (IF rpc = "clean" THEN 1 ELSE 0)
  /\ rpc \in {"start", "addr", "key", "value", "clean", "wild"} => executing = << >>
  /\ rpc = "exec" => Len(executing) = 1
  /\ Len(executed) <= REPEAT
  /\ rpc \in {"start", "addr", "key", "value", "exec", "wild"} => Len(executed) < REPEAT

LinkInv == Types /\ PipeOK

----------------------------------------------------------------------------
LEMMA ConstantFacts ==
  /\ TOTAL_SIZE \in Int /\ TOTAL_SIZE > 0
  /\ SIZEOF_LOG \in Nat /\ SIZEOF_LOG > 0
  /\ SIZEOF_MATE \in Nat /\ SIZEOF_MATE > 0 /\ SIZEOF_MATE <= SIZEOF_LOG
  /\ QUEUE_SIZE \in Nat /\ READ_LIMIT \in Nat \ {0}
  BY BufferAssumption

LEMMA WrapInRing ==
  ASSUME NEW p \in Int
  PROVE  Wrap(p) \in 0 .. TOTAL_SIZE - 1
  BY ConstantFacts, DivMod DEF Wrap

LEMMA FreeSizeBounded ==
  ASSUME NEW w \in Int, NEW r \in Int
  PROVE  FreeSize(w, r) \in 0 .. TOTAL_SIZE - 1
  <1>1. DataSize(w, r) \in 0 .. TOTAL_SIZE - 1
    BY WrapInRing DEF DataSize
  <1>2. QED
    BY <1>1, ConstantFacts DEF FreeSize

(* What the writer is given. *)
LEMMA NameFacts ==
  ASSUME HeadTypes
  PROVE  /\ REPEAT \in Nat \ {0}
         /\ \A i \in 1 .. REPEAT : /\ names[i].klen \in Nat \ {0}
                                   /\ names[i].vlen \in Nat \ {0, 1}
                                   /\ names[i].key \in Keys
                                   /\ NextOffset(names[i]) \in Nat
  <1>1. /\ names \in Inputs /\ names \in Seq(Range(names)) /\ names # << >>
        /\ \A i \in DOMAIN names : names[i].klen \in Nat \ {0} /\ names[i].vlen \in Nat \ {0, 1}
    BY BufferAssumption DEF HeadTypes
  <1>2. DOMAIN names = 1 .. REPEAT /\ REPEAT \in Nat \ {0}
    BY <1>1, LenProperties, EmptySeq DEF REPEAT
  <1>3. \A i \in DOMAIN names : names[i].key \in Keys
    BY <1>1 DEF Keys
  <1>4. QED
    BY <1>1, <1>2, <1>3, ConstantFacts DEF NextOffset

(* The parts of a write: two at the end of the ring, one elsewhere. *)
LEMMA TwoParts ==
  ASSUME NEW i \in Nat, NEW f \in Nat, NEW n \in Nat, NEW at \in 0 .. TOTAL_SIZE,
         at + n > TOTAL_SIZE
  PROVE  \E a, b \in ByteOps :
           /\ Bytes(i, f, n, at) = <<a, b>>
           /\ a.log = i /\ a.from = f /\ a.n = TOTAL_SIZE - at /\ a.at = at
           /\ b.log = i /\ b.from = f + (TOTAL_SIZE - at)
           /\ b.n = n - (TOTAL_SIZE - at) /\ b.at = 0
  <1> DEFINE a == [op |-> "bytes", log |-> i, from |-> f,
                   n |-> TOTAL_SIZE - at, at |-> at]
             b == [op |-> "bytes", log |-> i, from |-> f + (TOTAL_SIZE - at),
                   n |-> n - (TOTAL_SIZE - at), at |-> 0]
  <1>1. Bytes(i, f, n, at) = <<a, b>>
    BY DEF Bytes
  <1>2. a \in ByteOps /\ b \in ByteOps
    BY ConstantFacts DEF ByteOps
  <1>3. QED
    BY <1>1, <1>2

LEMMA OnePart ==
  ASSUME NEW i \in Nat, NEW f \in Nat, NEW n \in Nat, NEW at \in 0 .. TOTAL_SIZE,
         at + n <= TOTAL_SIZE
  PROVE  \E a \in ByteOps :
           /\ Bytes(i, f, n, at) = <<a>>
           /\ a.log = i /\ a.from = f /\ a.n = n /\ a.at = at
  <1> DEFINE a == [op |-> "bytes", log |-> i, from |-> f, n |-> n, at |-> at]
  <1>1. ~(at + n > TOTAL_SIZE) /\ a \in ByteOps
    BY ConstantFacts DEF ByteOps
  <1>2. Bytes(i, f, n, at) = <<a>>
    BY <1>1 DEF Bytes
  <1>3. QED
    BY <1>1, <1>2

(* b is a list of parts of a write for log i. *)
PartsOf(i, b) ==
  b \in Seq(ByteOps) /\ b # << >> /\ \A k \in DOMAIN b : b[k].log = i

LEMMA BytesTypes ==
  ASSUME NEW i \in Nat, NEW f \in Nat, NEW n \in Nat, NEW at \in 0 .. TOTAL_SIZE
  PROVE  PartsOf(i, Bytes(i, f, n, at))
  <1>1. CASE at + n > TOTAL_SIZE
    <2>1. PICK a, b \in ByteOps : /\ Bytes(i, f, n, at) = <<a, b>>
                                 /\ a.log = i /\ b.log = i
      BY <1>1, TwoParts
    <2>2. <<a, b>> \in Seq(ByteOps) /\ <<a, b>> # << >>
      BY <2>1
    <2>3. \A k \in DOMAIN <<a, b>> : <<a, b>>[k].log = i
      BY <2>1
    <2>4. QED
      BY <2>1, <2>2, <2>3 DEF PartsOf
  <1>2. CASE at + n <= TOTAL_SIZE
    <2>1. PICK a \in ByteOps : Bytes(i, f, n, at) = <<a>> /\ a.log = i
      BY <1>2, OnePart
    <2>2. <<a>> \in Seq(ByteOps) /\ <<a>> # << >> /\ \A k \in DOMAIN <<a>> : <<a>>[k].log = i
      BY <2>1
    <2>3. QED
      BY <2>1, <2>2 DEF PartsOf
  <1>3. QED
    BY <1>1, <1>2, ConstantFacts

LEMMA InitTypes == Init => LinkInv
  <1> SUFFICES ASSUME Init PROVE LinkInv
    OBVIOUS
  <1>1. HeadTypes
    <2>1. names \in Inputs /\ REPEAT \in Nat
      BY BufferAssumption, LenProperties DEF Init, REPEAT
    <2>2. QED
      BY <2>1, EmptySeq, ConstantFacts DEF Init, HeadTypes
  <1>2. WorkTypes
    <2>1. todo = [t \in Threads |-> << >>] /\ work = << >>
      BY DEF Init
    <2>2. todo \in [Threads -> Seq(Ops)] /\ \A t \in Threads : DOMAIN todo[t] = {}
      BY <2>1, EmptySeq
    <2>3. work \in Seq(Threads) /\ DOMAIN work = {}
      BY <2>1, EmptySeq
    <2>4. QED
      BY <2>2, <2>3 DEF WorkTypes
  <1>3. MemTypes
    BY ConstantFacts DEF Init, MemTypes, Cells, Zero
  <1>4. TailTypes
    BY ConstantFacts, EmptySeq DEF Init, TailTypes
  <1>5. PipeOK
    <2>1. REPEAT \in Nat \ {0}
      BY <1>1, NameFacts
    <2>2. QED
      BY <2>1, EmptySeq DEF Init, PipeOK
  <1>6. QED
    BY <1>1, <1>2, <1>3, <1>4, <1>5 DEF LinkInv, Types

----------------------------------------------------------------------------
(* Steps of the head node leave the reader alone. *)

LEMMA TailStays ==
  ASSUME LinkInv, UNCHANGED <<tail, names>>
  PROVE  TailTypes' /\ PipeOK'
  <1>1. TailTypes'
    BY DEF LinkInv, Types, TailTypes, tail
  <1>2. PipeOK'
    BY DEF LinkInv, PipeOK, tail, REPEAT
  <1>3. QED
    BY <1>1, <1>2

LEMMA OpsFacts ==
  ASSUME LinkInv, NEW t \in Threads
  PROVE  /\ todo[t] \in Seq(Ops) /\ Len(todo[t]) \in Nat
         /\ DOMAIN todo[t] = 1 .. Len(todo[t])
         /\ \A k \in DOMAIN todo[t] : todo[t][k] \in Ops
         /\ todo[t] # << >> => 1 \in DOMAIN todo[t] /\ Head(todo[t]) = todo[t][1]
  <1>1. todo[t] \in Seq(Ops)
    BY DEF LinkInv, Types, WorkTypes
  <1>2. QED
    BY <1>1

(* A thread that is not waiting is given calls to make. *)
LEMMA LoadedTypes ==
  ASSUME LinkInv, NEW t \in Threads, todo[t] = << >>,
         NEW q \in Seq(Ops), q # << >>, todo' = [todo EXCEPT ![t] = q], work' = work,
         Len(logs) \in Nat, Len(logs') \in Nat, Len(logs') >= Len(logs),
         \A k \in DOMAIN q : q[k].op = "bytes" => q[k].log \in 1 .. Len(logs')
  PROVE  WorkTypes'
  <1>1. todo \in [Threads -> Seq(Ops)] /\ work \in Seq(Threads)
    BY DEF LinkInv, Types, WorkTypes
  <1>2. \A u \in Threads : todo'[u] = IF u = t THEN q ELSE todo[u]
    BY <1>1
  <1>3. \A u \in Threads : \A k \in DOMAIN todo[u] :
          todo[u][k].op = "bytes" => todo[u][k].log \in 1 .. Len(logs')
    BY DEF LinkInv, Types, WorkTypes
  <1>4. todo' \in [Threads -> Seq(Ops)]
    BY <1>1
  <1>5. \A i \in DOMAIN work : work[i] \in Threads /\ todo'[work[i]] # << >>
    BY <1>1, <1>2 DEF LinkInv, Types, WorkTypes
  <1>6. QED
    BY <1>1, <1>2, <1>3, <1>4, <1>5 DEF LinkInv, Types, WorkTypes

LEMMA FetchTypes ==
  ASSUME LinkInv, todo["writer"] = << >>, work' = work, logs' = logs,
         todo' = [todo EXCEPT !["writer"] = Fetch]
  PROVE  WorkTypes'
  <1>1. PICK q \in Seq(Ops) : /\ q = Fetch /\ q # << >>
                             /\ \A k \in DOMAIN q : q[k].op # "bytes"
    <2>1. [op |-> "rd"] \in Ops
      BY DEF Ops
    <2>2. Fetch \in Seq(Ops) /\ Fetch # << >>
      BY <2>1 DEF Fetch
    <2>3. \A k \in DOMAIN Fetch : Fetch[k].op # "bytes"
      BY DEF Fetch
    <2>4. QED
      BY <2>2, <2>3
  <1>2. Len(logs) \in Nat /\ Len(logs') \in Nat /\ Len(logs') >= Len(logs)
    BY DEF LinkInv, Types, HeadTypes
  <1>3. "writer" \in Threads
    BY DEF Threads
  <1>4. QED
    BY <1>1, <1>2, <1>3, LoadedTypes

(* The thread at the head of the list. *)
LEMMA WorkHead ==
  ASSUME LinkInv, work # << >>
  PROVE  /\ Head(work) = work[1] /\ Head(work) \in Threads /\ 1 \in DOMAIN work
         /\ todo[Head(work)] # << >>
         /\ Head(todo[Head(work)]) = todo[Head(work)][1]
         /\ 1 \in DOMAIN todo[Head(work)]
         /\ todo[Head(work)][1] \in Ops
         /\ todo[Head(work)][1].op = "bytes" =>
              /\ todo[Head(work)][1] \in ByteOps
              /\ todo[Head(work)][1].log \in 1 .. Len(logs)
  <1>1. work \in Seq(Threads)
    BY DEF LinkInv, Types, WorkTypes
  <1>2. Head(work) = work[1] /\ Head(work) \in Threads /\ 1 \in DOMAIN work
    BY <1>1
  <1>3. todo[Head(work)] # << >>
    BY <1>2 DEF LinkInv, Types, WorkTypes
  <1>4. PICK t \in Threads : t = Head(work)
    BY <1>2
  <1>5. 1 \in DOMAIN todo[t] /\ Head(todo[t]) = todo[t][1] /\ todo[t][1] \in Ops
    BY <1>3, <1>4, OpsFacts
  <1>6. todo[t][1].op = "bytes" => /\ todo[t][1] \in ByteOps
                                   /\ todo[t][1].log \in 1 .. Len(logs)
    <2>1. todo[t][1].op = "bytes" => todo[t][1] \in ByteOps
      BY <1>5 DEF Ops
    <2>2. QED
      BY <1>5, <2>1 DEF LinkInv, Types, WorkTypes
  <1>7. QED
    BY <1>2, <1>3, <1>4, <1>5, <1>6

LEMMA DoneTypes ==
  ASSUME LinkInv, work # << >>, Done(Head(work)), logs' = logs
  PROVE  WorkTypes'
  <1>1. PICK t \in Threads : t = work[1] /\ t = Head(work) /\ todo[t] # << >>
    BY WorkHead
  <1>2. /\ todo \in [Threads -> Seq(Ops)] /\ work \in Seq(Threads)
        /\ todo' = [todo EXCEPT ![t] = Tail(todo[t])] /\ work' = Tail(work)
    BY <1>1 DEF LinkInv, Types, WorkTypes, Done
  <1>3. todo[t] \in Seq(Ops)
    BY <1>2
  <1>4. /\ Tail(todo[t]) \in Seq(Ops)
        /\ \A k \in DOMAIN Tail(todo[t]) : /\ k + 1 \in DOMAIN todo[t]
                                          /\ Tail(todo[t])[k] = todo[t][k + 1]
    BY <1>1, <1>3
  <1>5. /\ work' \in Seq(Threads)
        /\ \A k \in DOMAIN work' : /\ k \in Nat /\ k + 1 \in DOMAIN work
                                   /\ work'[k] = work[k + 1] /\ k + 1 # 1
        /\ 1 \in DOMAIN work
    <2>1. /\ Tail(work) \in Seq(Threads) /\ Len(Tail(work)) = Len(work) - 1
          /\ \A k \in 1 .. Len(Tail(work)) : Tail(work)[k] = work[k + 1]
      BY <1>2, HeadTailProperties
    <2>2. /\ Len(work) \in Nat /\ Len(work) >= 1 /\ DOMAIN work = 1 .. Len(work)
          /\ DOMAIN Tail(work) = 1 .. (Len(work) - 1)
      BY <1>2, <2>1
    <2>3. /\ 1 \in DOMAIN work
          /\ \A k \in DOMAIN Tail(work) : k \in Nat /\ k + 1 \in DOMAIN work /\ k + 1 # 1
      BY <2>2
    <2>4. \A k \in DOMAIN Tail(work) : Tail(work)[k] = work[k + 1]
      BY <2>1, <2>2
    <2>5. QED
      BY <1>2, <2>1, <2>3, <2>4
  <1>6. \A k \in DOMAIN work' : work'[k] # t /\ work'[k] \in Threads
    BY <1>1, <1>2, <1>5 DEF LinkInv, Types, WorkTypes
  <1>7. todo' \in [Threads -> Seq(Ops)]
    BY <1>2, <1>4
  <1>8. \A u \in Threads : \A k \in DOMAIN todo'[u] :
          todo'[u][k].op = "bytes" => todo'[u][k].log \in 1 .. Len(logs')
    BY <1>2, <1>4 DEF LinkInv, Types, WorkTypes
  <1>9. \A i, j \in DOMAIN work' : work'[i] = work'[j] => i = j
    <2> TAKE i, j \in DOMAIN work'
    <2>1. work[i + 1] = work[j + 1] => i + 1 = j + 1
      BY <1>5 DEF LinkInv, Types, WorkTypes
    <2>2. QED
      BY <1>5, <2>1
  <1>10. \A i \in DOMAIN work' : todo'[work'[i]] # << >>
    BY <1>2, <1>5, <1>6 DEF LinkInv, Types, WorkTypes
  <1>11. QED
    BY <1>5, <1>7, <1>8, <1>9, <1>10 DEF WorkTypes

LEMMA CheckSizeTypes ==
  ASSUME LinkInv, CheckSize
  PROVE  LinkInv'
  <1>1. HeadTypes'
    BY DEF LinkInv, Types, HeadTypes, CheckSize, REPEAT
  <1>2. WorkTypes'
    BY FetchTypes DEF CheckSize, WriterReady
  <1>3. MemTypes'
    BY DEF LinkInv, Types, MemTypes, CheckSize
  <1>4. QED
    BY <1>1, <1>2, <1>3, TailStays DEF LinkInv, Types, CheckSize

LEMMA CheckAgainTypes ==
  ASSUME LinkInv, CheckAgain
  PROVE  LinkInv'
  <1>1. HeadTypes'
    BY DEF LinkInv, Types, HeadTypes, CheckAgain, REPEAT, WriterReady
  <1>2. WorkTypes'
    <2>1. CASE Fits
      BY <2>1, FetchTypes DEF CheckAgain, WriterReady
    <2>2. CASE ~Fits
      BY <2>2 DEF LinkInv, Types, WorkTypes, CheckAgain
    <2>3. QED
      BY <2>1, <2>2
  <1>3. MemTypes'
    BY DEF LinkInv, Types, MemTypes, CheckAgain
  <1>4. QED
    BY <1>1, <1>2, <1>3, TailStays DEF LinkInv, Types, CheckAgain

(* Where a log that fits leaves the write pointer. *)
LEMMA AdvanceTwice ==
  ASSUME NEW p \in 0 .. TOTAL_SIZE, NEW m \in Nat, NEW n \in Nat, m + n < TOTAL_SIZE
  PROVE  Advance(Advance(p, m), n) \in 0 .. TOTAL_SIZE
  <1>1. Advance(p, m) \in 0 .. TOTAL_SIZE
    BY ConstantFacts DEF Advance
  <1>2. QED
    BY <1>1, ConstantFacts DEF Advance

(* The log rb_write_mate writes. *)
LEMMA NewLog ==
  ASSUME LinkInv, WriteMate, Fits
  PROVE  /\ count + 1 \in 1 .. REPEAT
         /\ NextOffset(names[count + 1]) \in 1 .. TOTAL_SIZE - 1
         /\ Reserved \in Nat
         /\ logs' \in Seq(LogRec) /\ Len(logs) \in Nat /\ Len(logs') = Len(logs) + 1
         /\ \A i \in 1 .. Len(logs) : logs'[i] = logs[i]
         /\ logs'[Len(logs) + 1] = [start |-> Reserved, pos |-> wr,
              key |-> names[count + 1].key,
              klen |-> names[count + 1].klen, vlen |-> names[count + 1].vlen]
  <1>1. count + 1 \in 1 .. REPEAT /\ HeadTypes
    <2>1. HeadTypes /\ REPEAT \in Nat
      BY NameFacts DEF LinkInv, Types
    <2>2. QED
      BY <2>1 DEF HeadTypes, WriteMate, WriterReady
  <1>2. /\ names[count + 1].klen \in Nat \ {0} /\ names[count + 1].vlen \in Nat \ {0, 1}
        /\ names[count + 1].key \in Keys /\ NextOffset(names[count + 1]) \in Nat
    BY <1>1, NameFacts
  <1>3. NextOffset(names[count + 1]) \in 1 .. TOTAL_SIZE - 1
    <2>1. FreeSize(wr, rdCache) \in 0 .. TOTAL_SIZE - 1
      <3>1. wr \in Int /\ rdCache \in Int
        BY <1>1, ConstantFacts DEF HeadTypes
      <3>2. QED
        BY <3>1, FreeSizeBounded
    <2>2. NextOffset(names[count + 1]) >= 1
      BY <1>2, ConstantFacts DEF NextOffset
    <2>3. QED
      BY <1>2, <2>1, <2>2, ConstantFacts DEF Fits
  <1>4. logs \in Seq(LogRec) /\ Len(logs) \in Nat /\ DOMAIN logs = 1 .. Len(logs)
    BY <1>1 DEF HeadTypes
  <1>5. Reserved \in Nat
    <2>1. CASE logs = << >>
      BY <2>1 DEF Reserved
    <2>2. CASE logs # << >>
      <3>1. Len(logs) \in 1 .. Len(logs)
        BY <1>4, <2>2, EmptySeq
      <3>2. logs[Len(logs)] \in LogRec
        BY <1>4, <3>1
      <3>3. QED
        BY <2>2, <3>2, ConstantFacts DEF Reserved, LogRec, NextOffset
    <2>3. QED
      BY <2>1, <2>2
  <1>6. PICK r \in LogRec : r = [start |-> Reserved, pos |-> wr,
              key |-> names[count + 1].key,
              klen |-> names[count + 1].klen, vlen |-> names[count + 1].vlen]
    BY <1>1, <1>2, <1>5 DEF LogRec, HeadTypes
  <1>7. logs' = Append(logs, r)
    BY <1>6 DEF WriteMate
  <1>8. QED
    BY <1>1, <1>3, <1>4, <1>5, <1>6, <1>7, AppendProperties

LEMMA MateBytes ==
  ASSUME LinkInv, NEW m \in Nat
  PROVE  \E b \in Seq(ByteOps) : /\ b = Bytes(Len(logs) + 1, 0, m, wr) /\ b # << >>
                                 /\ \A k \in DOMAIN b : b[k].log = Len(logs) + 1
  <1>1. Len(logs) + 1 \in Nat /\ 0 \in Nat /\ wr \in 0 .. TOTAL_SIZE
    BY DEF LinkInv, Types, HeadTypes
  <1>2. PICK i \in Nat, f \in Nat, w \in 0 .. TOTAL_SIZE :
          i = Len(logs) + 1 /\ f = 0 /\ w = wr
    BY <1>1
  <1>3. PartsOf(i, Bytes(i, f, m, w))
    BY BytesTypes
  <1>4. QED
    BY <1>2, <1>3 DEF PartsOf

LEMMA WriteMateTypes ==
  ASSUME LinkInv, WriteMate
  PROVE  LinkInv'
  <1>1. CASE ~Fits
    <2>1. HeadTypes'
      BY <1>1 DEF LinkInv, Types, HeadTypes, WriteMate, REPEAT
    <2>2. WorkTypes' /\ MemTypes'
      BY <1>1 DEF LinkInv, Types, WorkTypes, MemTypes, WriteMate
    <2>3. QED
      BY <2>1, <2>2, TailStays DEF LinkInv, Types, WriteMate
  <1>2. CASE Fits
    <2>1. /\ count + 1 \in 1 .. REPEAT
          /\ NextOffset(names[count + 1]) \in 1 .. TOTAL_SIZE - 1
          /\ logs' \in Seq(LogRec) /\ Len(logs) \in Nat /\ Len(logs') = Len(logs) + 1
      BY <1>2, NewLog
    <2> PICK l : l = names[count + 1]
      OBVIOUS
    <2> PICK m : m = SIZEOF_LOG + l.klen
      OBVIOUS
    <2>2. l.klen \in Nat /\ l.vlen \in Nat /\ m \in Nat /\ m + l.vlen < TOTAL_SIZE
      <3>1. l.klen \in Nat /\ l.vlen \in Nat
        BY <2>1, NameFacts DEF LinkInv, Types
      <3>2. NextOffset(names[count + 1]) = m + l.vlen
        BY DEF NextOffset
      <3>3. m \in Nat
        BY <3>1, ConstantFacts
      <3>4. m + l.vlen \in 1 .. TOTAL_SIZE - 1
        BY <2>1, <3>2
      <3>5. QED
        BY <3>1, <3>3, <3>4, ConstantFacts
    <2> PICK q : q = Bytes(Len(logs) + 1, 0, m, wr) \o Push
      OBVIOUS
    <2>3. wr' \in 0 .. TOTAL_SIZE
      <3>1. wr \in 0 .. TOTAL_SIZE /\ wr' = Advance(Advance(wr, m), l.vlen)
        BY <1>2 DEF LinkInv, Types, HeadTypes, WriteMate
      <3>2. QED
        BY <2>2, <3>1, AdvanceTwice
    <2>4. HeadTypes'
      <3>1. sending' \in Seq(1 .. Len(logs'))
        <4>1. sending' = sending /\ sending \in Seq(1 .. Len(logs))
          BY DEF LinkInv, Types, HeadTypes, WriteMate
        <4>2. 1 .. Len(logs) \subseteq 1 .. Len(logs')
          BY <2>1
        <4>3. QED
          BY <4>1, <4>2, SeqMonotonic
      <3>2. wpc' = "put" /\ wpc = "mate" /\ UNCHANGED <<names, count, rdCache>>
        BY <1>2 DEF WriteMate, WriterReady
      <3>3. QED
        BY <2>1, <2>3, <3>1, <3>2 DEF LinkInv, Types, HeadTypes, REPEAT
    <2>5. WorkTypes'
      <3>1. PICK b \in Seq(ByteOps) : /\ b = Bytes(Len(logs) + 1, 0, m, wr) /\ b # << >>
                                      /\ \A k \in DOMAIN b : b[k].log = Len(logs) + 1
        BY <2>2, MateBytes
      <3>2. b \in Seq(Ops) /\ Push \in Seq(Ops) /\ Push # << >>
        <4>1. ByteOps \subseteq Ops
          BY DEF Ops
        <4>2. QED
          BY <3>1, <4>1, SeqMonotonic DEF Push, Ops
      <3>3. q \in Seq(Ops) /\ q # << >>
        BY <3>1, <3>2
      <3>4. \A k \in DOMAIN q : q[k].op = "bytes" => q[k].log \in 1 .. Len(logs')
        <4>1. \A k \in DOMAIN q : \/ k \in DOMAIN b /\ q[k] = b[k]
                                  \/ q[k] = [op |-> "wr"]
          BY <3>1, <3>2 DEF Push
        <4>2. Len(logs') \in 1 .. Len(logs')
          BY <2>1
        <4>3. ASSUME NEW k \in DOMAIN q, q[k].op = "bytes"
              PROVE  q[k].log = Len(logs')
          <5>1. k \in DOMAIN b /\ q[k] = b[k]
            BY <4>1, <4>3
          <5>2. QED
            BY <2>1, <3>1, <5>1
        <4>4. QED
          BY <4>2, <4>3
      <3>5. /\ todo["writer"] = << >> /\ "writer" \in Threads /\ work' = work
            /\ todo' = [todo EXCEPT !["writer"] = q]
        BY <1>2 DEF WriteMate, WriterReady, Threads
      <3>6. Len(logs') \in Nat /\ Len(logs') >= Len(logs)
        BY <2>1
      <3>7. QED
        BY <2>1, <3>3, <3>4, <3>5, <3>6, LoadedTypes
    <2>6. MemTypes'
      BY <2>1 DEF LinkInv, Types, MemTypes, WriteMate
    <2>7. QED
      BY <2>4, <2>5, <2>6, TailStays DEF LinkInv, Types, WriteMate
  <1>3. QED
    BY <1>1, <1>2

LEMMA PutSendingTypes ==
  ASSUME LinkInv, PutSending
  PROVE  LinkInv'
  <1>1. HeadTypes'
    <2>1. REPEAT \in Nat /\ HeadTypes
      BY NameFacts DEF LinkInv, Types
    <2>2. logs' = logs /\ wpc' = "idle" /\ wpc = "put" /\ UNCHANGED <<names, wr, rdCache>>
      BY DEF PutSending, WriterReady
    <2>3. count' \in 0 .. REPEAT
      BY <2>1, <2>2 DEF HeadTypes, PutSending
    <2>4. sending' \in Seq(1 .. Len(logs))
      <3>1. CASE Full(sending)
        BY <2>1, <3>1 DEF HeadTypes, PutSending
      <3>2. CASE ~Full(sending)
        <4>1. Len(logs) \in 1 .. Len(logs)
          BY <2>1, <2>2 DEF HeadTypes
        <4>2. sending \in Seq(1 .. Len(logs)) /\ sending' = Append(sending, Len(logs))
          BY <2>1, <3>2 DEF HeadTypes, PutSending
        <4>3. QED
          BY <4>1, <4>2, AppendProperties
      <3>3. QED
        BY <3>1, <3>2
    <2>5. QED
      BY <2>1, <2>2, <2>3, <2>4 DEF HeadTypes, REPEAT
  <1>2. WorkTypes' /\ MemTypes'
    BY DEF LinkInv, Types, WorkTypes, MemTypes, PutSending
  <1>3. QED
    BY <1>1, <1>2, TailStays DEF LinkInv, Types, PutSending

LEMMA NicBytes ==
  ASSUME LinkInv, NEW x \in 1 .. Len(logs)
  PROVE  /\ logs[x] \in LogRec
         /\ Wrap(logs[x].pos + ValueOffset(logs[x])) \in 0 .. TOTAL_SIZE - 1
         /\ \E b \in Seq(ByteOps) :
              /\ b = Bytes(x, ValueOffset(logs[x]), logs[x].vlen,
                           Wrap(logs[x].pos + ValueOffset(logs[x])))
              /\ b # << >> /\ \A k \in DOMAIN b : b[k].log = x
  <1>1. logs[x] \in LogRec
    BY DEF LinkInv, Types, HeadTypes
  <1>2. /\ logs[x].pos \in 0 .. TOTAL_SIZE /\ logs[x].klen \in Nat /\ logs[x].vlen \in Nat
        /\ ValueOffset(logs[x]) \in Nat
    BY <1>1, ConstantFacts DEF LogRec, ValueOffset
  <1>3. Wrap(logs[x].pos + ValueOffset(logs[x])) \in 0 .. TOTAL_SIZE - 1
    <2>1. logs[x].pos + ValueOffset(logs[x]) \in Int
      BY <1>2, ConstantFacts
    <2>2. QED
      BY <2>1, WrapInRing
  <1>4. Wrap(logs[x].pos + ValueOffset(logs[x])) \in 0 .. TOTAL_SIZE
    BY <1>3, ConstantFacts
  <1>5. PICK j \in Nat, u \in Nat, v \in Nat, w \in 0 .. TOTAL_SIZE :
          /\ j = x /\ u = ValueOffset(logs[x]) /\ v = logs[x].vlen
          /\ w = Wrap(logs[x].pos + ValueOffset(logs[x]))
    BY <1>2, <1>4
  <1>6. j \in Nat /\ u \in Nat /\ v \in Nat /\ w \in 0 .. TOTAL_SIZE
    BY <1>5
  <1>7. PartsOf(j, Bytes(j, u, v, w))
    BY <1>6, BytesTypes
  <1>8. QED
    BY <1>1, <1>3, <1>5, <1>7 DEF PartsOf

(* The log NIC_thread takes. *)
LEMMA SendingHead ==
  ASSUME LinkInv, sending # << >>
  PROVE  /\ Head(sending) = sending[1] /\ Head(sending) \in 1 .. Len(logs)
         /\ Tail(sending) \in Seq(1 .. Len(logs)) /\ Len(logs) \in Nat
  <1>1. sending \in Seq(1 .. Len(logs)) /\ Len(logs) \in Nat
    BY DEF LinkInv, Types, HeadTypes
  <1>2. QED
    BY <1>1

LEMMA NicWriteTypes ==
  ASSUME LinkInv, NicWrite
  PROVE  LinkInv'
  <1>1. PICK i \in 1 .. Len(logs) : i = Head(sending)
    BY SendingHead DEF NicWrite
  <1>2. PICK b \in Seq(ByteOps) :
          /\ b = Bytes(i, ValueOffset(logs[i]), logs[i].vlen,
                       Wrap(logs[i].pos + ValueOffset(logs[i])))
          /\ b # << >> /\ \A k \in DOMAIN b : b[k].log = i
    BY NicBytes
  <1>3. HeadTypes'
    BY SendingHead DEF LinkInv, Types, HeadTypes, NicWrite, REPEAT
  <1>4. WorkTypes'
    <2>1. b \in Seq(Ops)
      <3>1. ByteOps \subseteq Ops
        BY DEF Ops
      <3>2. QED
        BY <1>2, <3>1, SeqMonotonic
    <2>2. /\ todo["nic"] = << >> /\ "nic" \in Threads /\ work' = work /\ logs' = logs
          /\ todo' = [todo EXCEPT !["nic"] = b]
      BY <1>1, <1>2 DEF NicWrite, Threads
    <2>3. Len(logs) \in Nat /\ Len(logs') \in Nat /\ Len(logs') >= Len(logs)
      BY <2>2 DEF LinkInv, Types, HeadTypes
    <2>4. \A k \in DOMAIN b : b[k].op = "bytes" => b[k].log \in 1 .. Len(logs')
      BY <1>1, <1>2, <2>2
    <2>5. QED
      BY <1>2, <2>1, <2>2, <2>3, <2>4, LoadedTypes
  <1>5. MemTypes'
    BY DEF LinkInv, Types, MemTypes, NicWrite
  <1>6. QED
    BY <1>3, <1>4, <1>5, TailStays DEF LinkInv, Types, NicWrite

LEMMA IssueTypes ==
  ASSUME LinkInv, NEW t \in Threads, Issue(t)
  PROVE  LinkInv'
  <1>1. HeadTypes' /\ MemTypes'
    BY DEF LinkInv, Types, HeadTypes, MemTypes, Issue, REPEAT
  <1>2. WorkTypes'
    <2>1. work \in Seq(Threads) /\ work' = Append(work, t) /\ todo' = todo /\ logs' = logs
      BY DEF LinkInv, Types, WorkTypes, Issue
    <2>2. \A i \in DOMAIN work : work[i] # t
      BY DEF Issue, Range
    <2>3. /\ work' \in Seq(Threads) /\ Len(work) \in Nat
          /\ DOMAIN work = 1 .. Len(work) /\ DOMAIN work' = 1 .. (Len(work) + 1)
          /\ \A i \in DOMAIN work : work'[i] = work[i]
          /\ work'[Len(work) + 1] = t
      BY <2>1
    <2>4. \A i \in DOMAIN work' : i \in DOMAIN work \/ i = Len(work) + 1
      BY <2>3
    <2>5. \A i, j \in DOMAIN work' : work'[i] = work'[j] => i = j
      BY <2>2, <2>3, <2>4 DEF LinkInv, Types, WorkTypes
    <2>6. \A i \in DOMAIN work' : todo'[work'[i]] # << >>
      BY <2>1, <2>3, <2>4 DEF LinkInv, Types, WorkTypes, Issue
    <2>7. QED
      BY <2>1, <2>3, <2>5, <2>6 DEF LinkInv, Types, WorkTypes
  <1>3. QED
    BY <1>1, <1>2, TailStays DEF LinkInv, Types, Issue

LEMMA FetchRdTypes ==
  ASSUME LinkInv, FetchRd
  PROVE  LinkInv'
  <1>1. HeadTypes'
    BY DEF LinkInv, Types, HeadTypes, TailTypes, FetchRd, REPEAT
  <1>2. WorkTypes'
    BY DoneTypes DEF FetchRd
  <1>3. MemTypes'
    BY DEF LinkInv, Types, MemTypes, FetchRd
  <1>4. QED
    BY <1>1, <1>2, <1>3, TailStays DEF LinkInv, Types, FetchRd

LEMMA PushWrTypes ==
  ASSUME LinkInv, PushWr
  PROVE  LinkInv'
  <1>1. HeadTypes'
    BY DEF LinkInv, Types, HeadTypes, PushWr, REPEAT
  <1>2. WorkTypes'
    BY DoneTypes DEF PushWr
  <1>3. MemTypes'
    BY DEF LinkInv, Types, HeadTypes, MemTypes, PushWr
  <1>4. QED
    BY <1>1, <1>2, <1>3, TailStays DEF LinkInv, Types, PushWr

LEMMA FurtherTypes ==
  ASSUME NEW o \in ByteOps, o.n > 1
  PROVE  /\ Further(o) \in ByteOps /\ Further(o).op = "bytes" /\ Further(o).log = o.log
         /\ Further(o).from = o.from + 1 /\ Further(o).at = o.at + 1
         /\ Further(o).n = o.n - 1
  <1>1. o.log \in Nat /\ o.from \in Nat /\ o.n \in Nat /\ o.at \in Nat
    BY DEF ByteOps
  <1>2. o.n - 1 \in Nat /\ o.from + 1 \in Nat /\ o.at + 1 \in Nat
    BY <1>1
  <1>3. QED
    BY <1>1, <1>2 DEF ByteOps, Further

LEMMA LandByteStep ==
  ASSUME LinkInv, LandByte
  PROVE  \E t \in Threads : \E o \in ByteOps :
           /\ work # << >> /\ t = work[1] /\ t = Head(work) /\ o = todo[t][1]
           /\ o.log \in 1 .. Len(logs) /\ todo[t] # << >>
           /\ mem' = IF o.n = 0 THEN mem ELSE [mem EXCEPT ![o.at] = <<o.log, o.from>>]
           /\ \/ o.n <= 1 /\ Done(t)
              \/ /\ o.n > 1 /\ work' = work
                 /\ todo' = [todo EXCEPT ![t] = [@ EXCEPT ![1] = Further(o)]]
           /\ wpc' \in {wpc, "crash"} /\ (o.n # 0 => wpc' = wpc)
  <1>1. work # << >>
    BY DEF LandByte
  <1>2. PICK t \in Threads : t = work[1] /\ t = Head(work)
    BY <1>1, WorkHead
  <1>3. Head(todo[t]) = todo[t][1] /\ todo[t][1].op = "bytes" /\ todo[t] # << >>
    BY <1>1, <1>2, WorkHead DEF LandByte
  <1>4. PICK o \in ByteOps : o = todo[t][1] /\ o.log \in 1 .. Len(logs)
    BY <1>1, <1>2, <1>3, WorkHead
  <1>5. o.n \in Nat
    BY DEF ByteOps
  <1>6. \/ o.n <= 1 /\ Done(t)
        \/ /\ o.n > 1 /\ work' = work
           /\ todo' = [todo EXCEPT ![t] = [@ EXCEPT ![1] = Further(o)]]
    <2>1. CASE o.n <= 1
      BY <1>2, <1>3, <1>4, <2>1 DEF LandByte
    <2>2. CASE o.n > 1
      <3>1. ~(o.n <= 1)
        BY <1>5, <2>2
      <3>2. QED
        BY <1>2, <1>3, <1>4, <2>2, <3>1 DEF LandByte
    <2>3. QED
      BY <1>5, <2>1, <2>2
  <1>7. /\ mem' = IF o.n = 0 THEN mem ELSE [mem EXCEPT ![o.at] = <<o.log, o.from>>]
        /\ wpc' \in {wpc, "crash"} /\ (o.n # 0 => wpc' = wpc)
    BY <1>2, <1>3, <1>4 DEF LandByte
  <1>8. QED
    BY <1>1, <1>2, <1>3, <1>4, <1>6, <1>7

LEMMA LandByteTypes ==
  ASSUME LinkInv, LandByte
  PROVE  LinkInv'
  <1>1. PICK t \in Threads, o \in ByteOps :
           /\ work # << >> /\ t = work[1] /\ t = Head(work) /\ o = todo[t][1]
           /\ o.log \in 1 .. Len(logs) /\ todo[t] # << >>
           /\ mem' = IF o.n = 0 THEN mem ELSE [mem EXCEPT ![o.at] = <<o.log, o.from>>]
           /\ \/ o.n <= 1 /\ Done(t)
              \/ /\ o.n > 1 /\ work' = work
                 /\ todo' = [todo EXCEPT ![t] = [@ EXCEPT ![1] = Further(o)]]
           /\ wpc' \in {wpc, "crash"} /\ (o.n # 0 => wpc' = wpc)
    BY LandByteStep
  <1>2. UNCHANGED <<names, count, wr, rdCache, fetched, logs, sending, rwr, tail>>
    BY DEF LandByte
  <1>3. HeadTypes'
    BY <1>1, <1>2 DEF LinkInv, Types, HeadTypes, REPEAT
  <1>4. WorkTypes'
    <2>1. CASE Done(t)
      BY <1>1, <1>2, <2>1, DoneTypes
    <2>2. CASE /\ o.n > 1 /\ work' = work
               /\ todo' = [todo EXCEPT ![t] = [@ EXCEPT ![1] = Further(o)]]
      <3>1. todo \in [Threads -> Seq(Ops)] /\ todo[t] \in Seq(Ops)
        BY DEF LinkInv, Types, WorkTypes
      <3>2. /\ Len(todo[t]) \in Nat /\ 1 \in 1 .. Len(todo[t])
            /\ DOMAIN todo[t] = 1 .. Len(todo[t])
        BY <1>1, <3>1
      <3>3. Further(o) \in Ops /\ Further(o).log \in 1 .. Len(logs)
        BY <1>1, <2>2, FurtherTypes DEF Ops
      <3>4. PICK q : q = [todo[t] EXCEPT ![1] = Further(o)]
        OBVIOUS
      <3>5. /\ q \in Seq(Ops) /\ DOMAIN q = DOMAIN todo[t] /\ q # << >>
            /\ \A k \in DOMAIN q : q[k] = IF k = 1 THEN Further(o) ELSE todo[t][k]
        BY <3>1, <3>2, <3>3, <3>4
      <3>6. \A u \in Threads : todo'[u] = IF u = t THEN q ELSE todo[u]
        BY <2>2, <3>1, <3>4
      <3>7. todo' \in [Threads -> Seq(Ops)]
        BY <2>2, <3>1, <3>4, <3>5
      <3>8. \A u \in Threads : \A k \in DOMAIN todo'[u] :
              todo'[u][k].op = "bytes" => todo'[u][k].log \in 1 .. Len(logs')
        BY <1>2, <3>3, <3>5, <3>6 DEF LinkInv, Types, WorkTypes
      <3>9. \A i \in DOMAIN work : todo'[work[i]] # << >>
        BY <3>5, <3>6 DEF LinkInv, Types, WorkTypes
      <3>10. QED
        BY <2>2, <3>7, <3>8, <3>9 DEF LinkInv, Types, WorkTypes
    <2>3. QED
      BY <1>1, <2>1, <2>2
  <1>5. MemTypes'
    <2>1. <<o.log, o.from>> \in Cells /\ o.log \in Nat /\ Len(logs) \in Nat
      BY DEF ByteOps, Cells, LinkInv, Types, HeadTypes
    <2>2. mem' \in [0 .. TOTAL_SIZE - 1 -> Cells]
      BY <1>1, <2>1 DEF LinkInv, Types, MemTypes
    <2>3. \A p \in 0 .. TOTAL_SIZE - 1 : mem'[p] = mem[p] \/ mem'[p] = <<o.log, o.from>>
      BY <1>1 DEF LinkInv, Types, MemTypes
    <2>4. <<o.log, o.from>>[1] = o.log
      OBVIOUS
    <2>5. QED
      BY <1>1, <1>2, <2>2, <2>3, <2>4 DEF LinkInv, Types, MemTypes
  <1>6. QED
    BY <1>2, <1>3, <1>4, <1>5, TailStays DEF LinkInv, Types

----------------------------------------------------------------------------
(* Steps of the next node leave the head node alone. *)

LEMMA HeadStays ==
  ASSUME LinkInv, UNCHANGED <<head, mem, rwr>>
  PROVE  HeadTypes' /\ WorkTypes' /\ MemTypes'
  <1>1. HeadTypes'
    BY DEF LinkInv, Types, HeadTypes, head, REPEAT
  <1>2. WorkTypes'
    BY DEF LinkInv, Types, WorkTypes, head
  <1>3. MemTypes'
    BY DEF LinkInv, Types, MemTypes, head
  <1>4. QED
    BY <1>1, <1>2, <1>3

(* The cells of the ring. *)
LEMMA CellAt ==
  ASSUME LinkInv, NEW p \in Int
  PROVE  mem[Wrap(p)] \in Cells
  BY WrapInRing DEF LinkInv, Types, MemTypes

(* The log a cell belongs to. *)
LEMMA LogOfTypes ==
  ASSUME LinkInv, NEW p \in 0 .. TOTAL_SIZE - 1
  PROVE  /\ LogOf(mem[p]).klen \in Nat /\ LogOf(mem[p]).vlen \in Nat
         /\ LogOf(mem[p]).key \in Keys \cup {""}
         /\ mem[p][1] \in Nat
  <1>1. /\ (mem[p] = Zero \/ mem[p][1] \in 1 .. Len(logs)) /\ mem[p] \in Cells
        /\ logs \in Seq(LogRec)
    BY DEF LinkInv, Types, MemTypes, HeadTypes
  <1>2. CASE mem[p] = Zero
    BY <1>2 DEF LogOf, NoLog, Zero
  <1>3. CASE mem[p] # Zero
    <2>1. logs[mem[p][1]] \in LogRec /\ mem[p][1] \in Nat
      BY <1>1, <1>3 DEF Cells
    <2>2. QED
      BY <1>3, <2>1 DEF LogOf, LogRec
  <1>4. QED
    BY <1>2, <1>3

LEMMA EntryTypes ==
  ASSUME LinkInv
  PROVE  EntryAt(rdKey) \in Entry
  <1>1. rdKey \in 0 .. TOTAL_SIZE - 1
    BY DEF LinkInv, Types, TailTypes
  <1>2. /\ LogOf(mem[rdKey]).klen \in Nat /\ LogOf(mem[rdKey]).vlen \in Nat
        /\ LogOf(mem[rdKey]).key \in Keys \cup {""}
        /\ mem[rdKey][1] \in Nat
    BY <1>1, LogOfTypes
  <1>3. NoLog.klen \in Nat /\ NoLog.vlen \in Nat /\ NoLog.key \in Keys \cup {""}
    BY DEF NoLog
  <1> PICK l : l = IF Refused(SIZEOF_MATE) THEN NoLog ELSE LogOf(mem[rdKey])
    OBVIOUS
  <1>4. l.klen \in Nat /\ l.vlen \in Nat /\ l.key \in Keys \cup {""}
    BY <1>2, <1>3
  <1>5. PICK cut \in BOOLEAN : cut = (Wrap(rdKey + SIZEOF_LOG) + l.klen >= TOTAL_SIZE)
    <2>1. (Wrap(rdKey + SIZEOF_LOG) + l.klen >= TOTAL_SIZE) \in BOOLEAN
      OBVIOUS
    <2>2. QED
      BY <2>1, Zenon
  <1>6. PICK key : key = IF cut /\ Refused(l.klen) THEN NoLog.key ELSE l.key
    OBVIOUS
  <1>7. key \in Keys \cup {""}
    BY <1>3, <1>4, <1>6
  <1>8. EntryAt(rdKey) = [log |-> mem[rdKey][1], pos |-> rdKey, klen |-> l.klen,
          vlen |-> l.vlen, key |-> key, keyCut |-> cut, value |-> << >>]
    BY <1>5, <1>6 DEF EntryAt
  <1>9. << >> \in Seq(Cells)
    OBVIOUS
  <1>10. [log |-> mem[rdKey][1], pos |-> rdKey, klen |-> l.klen,
          vlen |-> l.vlen, key |-> key, keyCut |-> cut, value |-> << >>] \in Entry
    BY <1>1, <1>2, <1>4, <1>5, <1>7, <1>9, Zenon DEF Entry
  <1>11. QED
    BY <1>8, <1>10

LEMMA EntryFacts ==
  ASSUME NEW e \in Entry
  PROVE  /\ e.log \in Nat /\ e.pos \in Nat /\ e.klen \in Nat /\ e.vlen \in Nat
         /\ e.value \in Seq(Cells)
         /\ ValueOffset(e) \in Nat /\ NextOffset(e) \in Nat
         /\ ValuePos(e) \in 0 .. TOTAL_SIZE - 1
  <1>1. e.log \in Nat /\ e.pos \in Nat /\ e.klen \in Nat /\ e.vlen \in Nat
    <2>1. e.log \in Nat /\ e.pos \in 0 .. TOTAL_SIZE - 1 /\ e.klen \in Nat /\ e.vlen \in Nat
      BY Zenon DEF Entry
    <2>2. QED
      BY <2>1, ConstantFacts
  <1>2. e.value \in Seq(Cells)
    BY DEF Entry
  <1>3. ValueOffset(e) \in Nat /\ NextOffset(e) \in Nat
    BY <1>1, ConstantFacts DEF ValueOffset, NextOffset
  <1>4. e.pos + ValueOffset(e) \in Int
    BY <1>1, <1>3
  <1>5. ValuePos(e) \in 0 .. TOTAL_SIZE - 1
    BY <1>4, WrapInRing DEF ValuePos
  <1>6. QED
    BY <1>1, <1>2, <1>3, <1>5

LEMMA ValueTypes ==
  ASSUME LinkInv, NEW e \in Entry
  PROVE  ValueBytes(e) \in Seq(Cells) /\ ValueCopy(e) \in Seq(Cells)
  <1>1. e.vlen \in Nat /\ ValuePos(e) \in 0 .. TOTAL_SIZE - 1
    BY EntryFacts
  <1>2. \A o \in 1 .. e.vlen : mem[Wrap(ValuePos(e) + o - 1)] \in Cells
    <2> TAKE o \in 1 .. e.vlen
    <2>1. ValuePos(e) + o - 1 \in Int
      BY <1>1, ConstantFacts
    <2>2. QED
      BY <2>1, CellAt
  <1>3. ValueBytes(e) \in Seq(Cells)
    BY <1>1, <1>2, IsASeq DEF ValueBytes
  <1>4. [o \in 1 .. e.vlen |-> Zero] \in Seq(Cells)
    BY <1>1, IsASeq DEF Zero, Cells
  <1>5. QED
    BY <1>3, <1>4 DEF ValueCopy

(* Lengths of the reader's queues. *)
LEMMA QueueFacts ==
  ASSUME LinkInv
  PROVE  /\ Len(peeding) \in Nat /\ Len(executing) \in Nat /\ Len(dirtyQueue) \in Nat
         /\ Len(executed) \in Nat /\ Len(forward) \in Nat /\ Len(forwarded) \in Nat
         /\ peeding \in Seq(Entry) /\ executing \in Seq(Entry)
         /\ dirtyQueue \in Seq(Entry) /\ forward \in Seq(Entry)
         /\ executed \in Seq(Result) /\ forwarded \in Seq(Result)
         /\ REPEAT \in Nat \ {0}
  BY NameFacts DEF LinkInv, Types, TailTypes

LEMMA AllocRingTypes ==
  ASSUME LinkInv, AllocRing
  PROVE  LinkInv'
  <1>1. TailTypes'
    BY DEF LinkInv, Types, TailTypes, AllocRing, Idle
  <1>2. PipeOK'
    BY DEF LinkInv, PipeOK, AllocRing, Idle, head, REPEAT
  <1>3. QED
    BY <1>1, <1>2, HeadStays DEF LinkInv, Types, AllocRing

LEMMA StartReaderTypes ==
  ASSUME LinkInv, StartReader
  PROVE  LinkInv'
  <1>1. TailTypes'
    BY DEF LinkInv, Types, TailTypes, StartReader, Idle
  <1>2. PipeOK'
    BY DEF LinkInv, PipeOK, StartReader, Idle, head, REPEAT
  <1>3. QED
    BY <1>1, <1>2, HeadStays DEF LinkInv, Types, StartReader

LEMMA ReadKeyTypes ==
  ASSUME LinkInv, ReadKey
  PROVE  LinkInv'
  <1>1. PICK e \in Entry : e = EntryAt(rdKey)
    BY EntryTypes
  <1>2. /\ dirtyQueue' = IF Full(dirtyQueue) THEN dirtyQueue ELSE Append(dirtyQueue, e)
        /\ Full(peeding) => rpc' = "abort" /\ UNCHANGED <<peeding, rdKey, readNum>>
        /\ ~Full(peeding) => /\ peeding' = Append(peeding, e)
                             /\ rdKey' = Wrap(rdKey + NextOffset(e))
                             /\ readNum' = readNum + 1 /\ rpc' = rpc
        /\ UNCHANGED <<rd, executing, executed, class, ring, forward, forwarded, head>>
        /\ rpc = "key" /\ readNum < READ_LIMIT
    BY <1>1 DEF ReadKey, MoreKeys
  <1>3. TailTypes'
    <2>1. dirtyQueue' \in Seq(Entry) /\ peeding' \in Seq(Entry)
      <3>1. Append(dirtyQueue, e) \in Seq(Entry) /\ Append(peeding, e) \in Seq(Entry)
        BY QueueFacts, AppendProperties
      <3>2. QED
        BY <1>2, <3>1, QueueFacts
    <2>2. rdKey' \in 0 .. TOTAL_SIZE - 1 /\ readNum' \in 0 .. READ_LIMIT
      <3>1. rdKey \in 0 .. TOTAL_SIZE - 1 /\ readNum \in 0 .. READ_LIMIT /\ NextOffset(e) \in Nat
        BY <1>1, EntryFacts DEF LinkInv, Types, TailTypes
      <3>2. rdKey + NextOffset(e) \in Int
        BY <3>1, ConstantFacts
      <3>3. Wrap(rdKey + NextOffset(e)) \in 0 .. TOTAL_SIZE - 1
        BY <3>2, WrapInRing
      <3>4. QED
        BY <1>2, <3>1, <3>3, ConstantFacts
    <2>3. rpc' \in {"key", "abort"}
      BY <1>2
    <2>4. QED
      BY <1>2, <2>1, <2>2, <2>3 DEF LinkInv, Types, TailTypes
  <1>4. PipeOK'
    <2>1. Len(dirtyQueue) = Len(peeding) /\ executing = << >> /\ Len(executed) < REPEAT
      BY <1>2, QueueFacts DEF LinkInv, PipeOK
    <2>2. REPEAT' = REPEAT /\ executing' = executing /\ executed' = executed
      BY <1>2 DEF head, REPEAT
    <2>3. CASE Full(peeding)
      BY <1>2, <2>1, <2>2, <2>3, QueueFacts DEF PipeOK
    <2>4. CASE ~Full(peeding)
      <3>1. ~Full(dirtyQueue)
        BY <2>1, <2>4 DEF Full
      <3>2. Len(dirtyQueue') = Len(dirtyQueue) + 1 /\ Len(peeding') = Len(peeding) + 1
        BY <1>1, <1>2, <2>4, <3>1, QueueFacts
      <3>3. rpc' = "key" /\ Len(executing') = 0
        BY <1>2, <2>1, <2>4
      <3>4. QED
        BY <2>1, <2>2, <3>2, <3>3, QueueFacts DEF PipeOK
    <2>5. QED
      BY <2>3, <2>4
  <1>5. QED
    BY <1>3, <1>4, HeadStays DEF LinkInv, Types, ReadKey

LEMMA ReadKeyReturnTypes ==
  ASSUME LinkInv, ReadKeyReturn
  PROVE  LinkInv'
  <1>1. TailTypes'
    BY ConstantFacts DEF LinkInv, Types, TailTypes, ReadKeyReturn
  <1>2. PipeOK'
    BY DEF LinkInv, PipeOK, ReadKeyReturn, head, REPEAT
  <1>3. QED
    BY <1>1, <1>2, HeadStays DEF LinkInv, Types, ReadKeyReturn

LEMMA NoValueTypes ==
  ASSUME LinkInv, NoValue
  PROVE  LinkInv'
  <1>1. TailTypes'
    BY DEF LinkInv, Types, TailTypes, NoValue
  <1>2. PipeOK'
    BY DEF LinkInv, PipeOK, NoValue, head, REPEAT
  <1>3. QED
    BY <1>1, <1>2, HeadStays DEF LinkInv, Types, NoValue

(* The entry read_log_value puts into executing_queue. *)
LEMMA WithValue ==
  ASSUME NEW e \in Entry, NEW v \in Seq(Cells)
  PROVE  [e EXCEPT !.value = v] \in Entry /\ [e EXCEPT !.value = v].log = e.log
  BY Zenon DEF Entry

LEMMA ReadValueTypes ==
  ASSUME LinkInv, ReadValue
  PROVE  LinkInv'
  <1>1. peeding # << >> /\ rpc = "value"
    BY DEF ReadValue
  <1>2. PICK e \in Entry : e = Head(peeding)
    BY <1>1, QueueFacts
  <1>3. PICK f \in Entry : f = [e EXCEPT !.value = ValueCopy(e)]
    BY ValueTypes, WithValue
  <1>4. /\ Full(executing) => rpc' = "abort" /\ UNCHANGED <<executing, peeding>>
        /\ ~Full(executing) => /\ executing' = Append(executing, f)
                               /\ peeding' = Tail(peeding) /\ rpc' = "exec"
        /\ UNCHANGED <<rd, rdKey, readNum, dirtyQueue, executed, class, ring, forward,
                       forwarded, head>>
    BY <1>2, <1>3 DEF ReadValue
  <1>5. TailTypes'
    <2>1. executing' \in Seq(Entry) /\ peeding' \in Seq(Entry)
      <3>1. Append(executing, f) \in Seq(Entry)
        BY QueueFacts, AppendProperties
      <3>2. Tail(peeding) \in Seq(Entry)
        BY <1>1, QueueFacts
      <3>3. QED
        BY <1>4, <3>1, <3>2, QueueFacts
    <2>2. rpc' \in {"exec", "abort"}
      BY <1>4
    <2>3. QED
      BY <1>4, <2>1, <2>2 DEF LinkInv, Types, TailTypes
  <1>6. PipeOK'
    <2>1. executing = << >> /\ Len(dirtyQueue) = Len(peeding) /\ Len(executed) < REPEAT
      BY <1>1, QueueFacts DEF LinkInv, PipeOK
    <2>2. REPEAT' = REPEAT /\ dirtyQueue' = dirtyQueue /\ executed' = executed
      BY <1>4 DEF head, REPEAT
    <2>3. CASE Full(executing)
      BY <1>4, <2>1, <2>2, <2>3, QueueFacts DEF PipeOK
    <2>4. CASE ~Full(executing)
      <3>1. Len(executing') = 1 /\ Len(peeding') = Len(peeding) - 1
        BY <1>1, <1>3, <1>4, <2>1, <2>4, QueueFacts
      <3>2. QED
        BY <1>4, <2>1, <2>2, <2>4, <3>1, QueueFacts DEF PipeOK
    <2>5. QED
      BY <2>3, <2>4
  <1>7. QED
    BY <1>5, <1>6, HeadStays DEF LinkInv, Types, ReadValue

(* The entry send_log sees, and what top_log hands to the application. *)
LEMMA ExecuteStep ==
  ASSUME LinkInv, Execute
  PROVE  \E e \in Entry : \E r \in Result :
           /\ e = Head(executing) /\ r.log = e.log
           /\ executed' = Append(executed, r)
           /\ forward' = IF class = "TAIL" \/ Full(forward) THEN forward
                         ELSE Append(forward, e)
           /\ executing' = Tail(executing) /\ rpc' = "clean" /\ rpc = "exec"
           /\ executing # << >>
           /\ UNCHANGED <<rd, rdKey, readNum, peeding, dirtyQueue, class, ring, forwarded,
                          head>>
  <1>1. rpc = "exec" /\ Len(executing) = 1
    BY DEF Execute, LinkInv, PipeOK
  <1>2. executing # << >>
    BY <1>1
  <1>3. PICK e \in Entry : e = Head(executing)
    BY <1>2, QueueFacts
  <1>4. PICK v \in Seq(Cells) : v = IF e.value # << >> THEN e.value ELSE ValueBytes(e)
    BY ValueTypes, EntryFacts
  <1>5. PICK r \in Result : r = [log |-> e.log, value |-> v]
    BY EntryFacts DEF Result
  <1>6. executed' = Append(executed, r)
    BY <1>3, <1>4, <1>5 DEF Execute
  <1>7. r.log = e.log
    BY <1>5
  <1>8. QED
    BY <1>1, <1>2, <1>3, <1>6, <1>7 DEF Execute, SendLog

LEMMA ExecuteTypes ==
  ASSUME LinkInv, Execute
  PROVE  LinkInv'
  <1>1. PICK e \in Entry, r \in Result :
           /\ e = Head(executing) /\ r.log = e.log
           /\ executed' = Append(executed, r)
           /\ forward' = IF class = "TAIL" \/ Full(forward) THEN forward
                         ELSE Append(forward, e)
           /\ executing' = Tail(executing) /\ rpc' = "clean" /\ rpc = "exec"
           /\ executing # << >>
           /\ UNCHANGED <<rd, rdKey, readNum, peeding, dirtyQueue, class, ring, forwarded,
                          head>>
    BY ExecuteStep
  <1>2. Append(executed, r) \in Seq(Result) /\ Len(Append(executed, r)) = Len(executed) + 1
    BY QueueFacts, AppendProperties
  <1>3. Append(forward, e) \in Seq(Entry)
    BY QueueFacts, AppendProperties
  <1>4. Tail(executing) \in Seq(Entry) /\ Len(executing') = Len(executing) - 1
    BY <1>1, QueueFacts
  <1>5. TailTypes'
    <2>1. executed' \in Seq(Result) /\ forward' \in Seq(Entry) /\ executing' \in Seq(Entry)
      BY <1>1, <1>2, <1>3, <1>4, QueueFacts
    <2>2. QED
      BY <1>1, <2>1 DEF LinkInv, Types, TailTypes
  <1>6. PipeOK'
    <2>1. /\ Len(executing) = 1 /\ Len(executed) < REPEAT
          /\ Len(dirtyQueue) = Len(peeding) + 1
      <3>1. rpc = "exec" /\ rpc # "clean" /\ rpc # "abort"
        BY <1>1
      <3>2. /\ Len(executing) = 1 /\ Len(executed) < REPEAT
            /\ Len(dirtyQueue) = Len(peeding) + Len(executing) + 0
        BY <3>1 DEF LinkInv, PipeOK
      <3>3. QED
        BY <3>2, QueueFacts
    <2>2. executing' = << >> /\ Len(executing') = 0
      <3>1. executing' \in Seq(Entry) /\ Len(executing') = 0
        BY <1>1, <1>4, <2>1
      <3>2. QED
        BY <3>1, EmptySeq
    <2>3. /\ Len(executed') = Len(executed) + 1
          /\ REPEAT' = REPEAT /\ dirtyQueue' = dirtyQueue /\ peeding' = peeding
      BY <1>1, <1>2 DEF head, REPEAT
    <2>4. rpc' = "clean" /\ Len(executed) + 1 <= REPEAT
      BY <1>1, <2>1, QueueFacts
    <2>5. Len(dirtyQueue') = Len(peeding') + Len(executing') + 1
      BY <2>1, <2>2, <2>3, QueueFacts
    <2>6. QED
      BY <2>2, <2>3, <2>4, <2>5 DEF PipeOK
  <1>7. QED
    BY <1>1, <1>5, <1>6, HeadStays DEF LinkInv, Types, Execute

LEMMA CleanLogTypes ==
  ASSUME LinkInv, CleanLog
  PROVE  LinkInv'
  <1>1. rpc = "clean" /\ Len(dirtyQueue) = Len(peeding) + 1 /\ executing = << >>
    BY QueueFacts DEF CleanLog, LinkInv, PipeOK
  <1>2. dirtyQueue # << >>
    BY <1>1, QueueFacts
  <1>3. PICK e \in Entry : e = Head(dirtyQueue)
    BY <1>2, QueueFacts
  <1>4. /\ dirtyQueue' = Tail(dirtyQueue)
        /\ \/ rpc' = "abort" /\ rd' = rd
           \/ /\ rd' = Wrap(rd + NextOffset(e))
              /\ rpc' = IF Len(executed) = REPEAT THEN "done" ELSE "key"
        /\ UNCHANGED <<rdKey, readNum, peeding, executing, executed, class, ring, forward,
                       forwarded, head>>
    BY <1>2, <1>3 DEF CleanLog
  <1>5. Tail(dirtyQueue) \in Seq(Entry) /\ Len(dirtyQueue') = Len(peeding)
    BY <1>1, <1>2, <1>4, QueueFacts
  <1>6. TailTypes'
    <2>1. rd \in 0 .. TOTAL_SIZE - 1 /\ NextOffset(e) \in Nat
      BY EntryFacts DEF LinkInv, Types, TailTypes
    <2>2. rd + NextOffset(e) \in Int
      BY <2>1, ConstantFacts
    <2>3. Wrap(rd + NextOffset(e)) \in 0 .. TOTAL_SIZE - 1
      BY <2>2, WrapInRing
    <2>4. rd' \in 0 .. TOTAL_SIZE - 1 /\ rpc' \in {"abort", "done", "key"}
      BY <1>4, <2>1, <2>3
    <2>5. QED
      BY <1>4, <1>5, <2>4 DEF LinkInv, Types, TailTypes
  <1>7. PipeOK'
    <2>1. REPEAT' = REPEAT /\ Len(executed) <= REPEAT
      BY <1>4 DEF head, REPEAT, LinkInv, PipeOK
    <2>2. QED
      BY <1>1, <1>4, <1>5, <2>1, QueueFacts DEF PipeOK
  <1>8. QED
    BY <1>6, <1>7, HeadStays DEF LinkInv, Types, CleanLog

LEMMA ForwardTypes ==
  ASSUME LinkInv, Forward
  PROVE  LinkInv'
  <1>1. PICK e \in Entry : e = Head(forward)
    BY QueueFacts DEF Forward
  <1>2. << >> \in Seq(Cells) /\ e.value \in Seq(Cells) /\ ValueBytes(e) \in Seq(Cells)
    BY ValueTypes, EntryFacts
  <1>3. PICK r \in Result : r.log = e.log /\ forwarded' = Append(forwarded, r)
    <2> PICK v : v = IF ~\E i \in DOMAIN dirtyQueue : dirtyQueue[i].log = e.log THEN << >>
                     ELSE IF e.value # << >> THEN e.value ELSE ValueBytes(e)
      OBVIOUS
    <2>1. v \in Seq(Cells) /\ e.log \in Nat
      BY <1>2, EntryFacts
    <2>2. [log |-> e.log, value |-> v] \in Result
      BY <2>1 DEF Result
    <2>3. forwarded' = Append(forwarded, [log |-> e.log, value |-> v])
      BY <1>1 DEF Forward
    <2>4. QED
      BY <2>2, <2>3
  <1>4. /\ forward' = Tail(forward) /\ forward # << >>
        /\ UNCHANGED <<class, ring, rd, rdKey, rpc, readNum, peeding, executing,
                       dirtyQueue, executed, head>>
    BY DEF Forward
  <1>5. Append(forwarded, r) \in Seq(Result)
    BY QueueFacts, AppendProperties
  <1>6. Tail(forward) \in Seq(Entry)
    BY <1>4, QueueFacts
  <1>7. TailTypes'
    BY <1>3, <1>4, <1>5, <1>6 DEF LinkInv, Types, TailTypes
  <1>8. PipeOK'
    BY <1>4 DEF LinkInv, PipeOK, head, REPEAT
  <1>9. QED
    BY <1>4, <1>7, <1>8, HeadStays DEF LinkInv, Types, Forward

LEMMA StepKeepsInv == LinkInv /\ [Next]_vars => LinkInv'
  <1> SUFFICES ASSUME LinkInv, [Next]_vars PROVE LinkInv'
    OBVIOUS
  <1>1. CASE Writer
    BY <1>1, CheckSizeTypes, CheckAgainTypes, WriteMateTypes, PutSendingTypes DEF Writer
  <1>2. CASE NicWrite
    BY <1>2, NicWriteTypes
  <1>3. CASE \E t \in Threads : Issue(t)
    BY <1>3, IssueTypes
  <1>4. CASE Worker
    BY <1>4, FetchRdTypes, PushWrTypes, LandByteTypes DEF Worker
  <1>5. CASE AllocRing
    BY <1>5, AllocRingTypes
  <1>6. CASE Reader
    BY <1>6, StartReaderTypes, ReadKeyTypes, ReadKeyReturnTypes, NoValueTypes,
       ReadValueTypes, ExecuteTypes, CleanLogTypes DEF Reader
  <1>7. CASE Forward
    BY <1>7, ForwardTypes
  <1>8. CASE UNCHANGED vars
    <2>1. UNCHANGED <<head, mem, rwr>> /\ UNCHANGED <<tail, names>>
      BY <1>8 DEF vars, head, tail
    <2>2. QED
      BY <2>1, HeadStays, TailStays DEF LinkInv, Types
  <1>9. QED
    BY <1>1, <1>2, <1>3, <1>4, <1>5, <1>6, <1>7, <1>8 DEF Next

LEMMA LinkInvariant == Spec => []LinkInv
  BY InitTypes, StepKeepsInv, PTL DEF Spec

(* Two threads take part, and each waits in the work list once at most. *)
LEMMA WorkBounded ==
  ASSUME LinkInv
  PROVE  Len(work) <= Cardinality(Threads)
  <1>1. Cardinality(Threads) = 2
    <2>1. IsFiniteSet({"writer"}) /\ Cardinality({"writer"}) = 1
      BY FS_Singleton
    <2>2. "nic" \notin {"writer"} /\ Threads = {"writer"} \cup {"nic"}
      BY DEF Threads
    <2>3. Cardinality({"writer"} \cup {"nic"}) = Cardinality({"writer"}) + 1
      BY <2>1, <2>2, FS_AddElement
    <2>4. QED
      BY <2>1, <2>2, <2>3
  <1>2. /\ work \in Seq(Threads) /\ Len(work) \in Nat
        /\ \A i, j \in DOMAIN work : work[i] = work[j] => i = j
    BY DEF LinkInv, Types, WorkTypes
  <1>3. ASSUME Len(work) >= 3
        PROVE  FALSE
    <2>1. 1 \in DOMAIN work /\ 2 \in DOMAIN work /\ 3 \in DOMAIN work
      BY <1>2, <1>3
    <2>2. /\ work[1] \in {"writer", "nic"} /\ work[2] \in {"writer", "nic"}
          /\ work[3] \in {"writer", "nic"}
      BY <1>2, <2>1 DEF Threads
    <2>3. work[1] # work[2] /\ work[2] # work[3] /\ work[1] # work[3]
      BY <1>2, <2>1
    <2>4. QED
      BY <2>2, <2>3
  <1>4. QED
    BY <1>1, <1>2, <1>3

----------------------------------------------------------------------------
(***************************************************************************)
(* The pointers of both nodes stay in the ring, on its end at most where a *)
(* write ended there, the counters stay in their limits and no queue names *)
(* a log that was never written, whatever the sizes and the logs           *)
(* (log_buffer.c:340-341, 404-416, 577).                                   *)
(***************************************************************************)
THEOREM LinkTypes == Spec => []TypeOK
  <1>1. LinkInv => TypeOK
    <2> SUFFICES ASSUME LinkInv PROVE TypeOK
      OBVIOUS
    <2>1. Range(sending) \subseteq DOMAIN logs
      <3>1. sending \in Seq(1 .. Len(logs)) /\ logs \in Seq(LogRec)
        BY DEF LinkInv, Types, HeadTypes
      <3>2. DOMAIN logs = 1 .. Len(logs)
        BY <3>1
      <3>3. \A i \in DOMAIN sending : sending[i] \in 1 .. Len(logs)
        BY <3>1
      <3>4. QED
        BY <3>2, <3>3 DEF Range
    <2>2. Range(work) \subseteq Threads
      <3>1. work \in Seq(Threads)
        BY DEF LinkInv, Types, WorkTypes
      <3>2. \A i \in DOMAIN work : work[i] \in Threads
        BY <3>1
      <3>3. QED
        BY <3>2 DEF Range
    <2>3. DOMAIN mem = 0 .. TOTAL_SIZE - 1 /\ rwr \in 0 .. TOTAL_SIZE
      BY DEF LinkInv, Types, MemTypes
    <2>4. QED
      BY <2>1, <2>2, <2>3, WorkBounded
         DEF LinkInv, Types, HeadTypes, TailTypes, TypeOK
  <1>2. QED
    BY <1>1, LinkInvariant, PTL

=============================================================================
