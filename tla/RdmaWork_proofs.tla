-------------------------- MODULE RdmaWork_proofs --------------------------
(***************************************************************************)
(* Proofs about the calls on the neighbour's memory, for any number of     *)
(* threads and any programs in which a send is a thread's last call.       *)
(***************************************************************************)
EXTENDS RdmaWork, FiniteSetTheorems, SequenceTheorems, TLAPS

Vals == {None, Zeros, NoMem, Unread, "ok", "error"} \cup {c.val : c \in Calls}
Requests == [thread : Threads, call : Calls, rkey : BOOLEAN]
Answers == [thread : Threads, call : Calls,
            kind : {"completion", "answer", "error"}, val : Vals]

Types ==
  /\ pc \in [Threads -> Nat]
  /\ waiting \in [Threads -> BOOLEAN]
  /\ done \in [Threads -> BOOLEAN]
  /\ recv \in [Threads -> BOOLEAN]
  /\ local \in [Threads -> Vals]
  /\ known \subseteq inTable
  /\ effect \in [Threads -> Vals]
  /\ workList \in Seq(Threads)
  /\ wpc \in {"idle", "start", "wait", "sent", "crash"}
  /\ cur \in Threads
  /\ taskDone \in BOOLEAN
  /\ writeFlag \in [Addrs -> BOOLEAN]
  /\ copied \in [Addrs -> 0 .. 3]
  /\ inTable \subseteq Addrs
  /\ conn \in BOOLEAN
  /\ sq \in Seq(Requests)
  /\ cq \in Seq(Answers)
  /\ cqpc \in {"poll", "flag", "over"}
  /\ mem \in [Addrs -> Vals \ {None}]

(* A thread in a call: what it asked for is allowed, what it waits for has *)
(* happened when its flags say so.                                         *)
CallerOK(t) ==
  /\ pc[t] <= Len(Program[t])
  /\ waiting[t] => pc[t] < Len(Program[t])
  /\ waiting[t] /\ ~IsAlloc(CallOf(t)) => CallOf(t).addr \in known
  /\ ~waiting[t] => effect[t] = None
  /\ waiting[t] /\ recv[t] =>
       effect[t] # None /\ (CallOf(t).op = "sendr" => local[t] = effect[t])
  /\ waiting[t] /\ done[t] =>
       /\ effect[t] # None
       /\ ~(t = cur /\ wpc \in {"start", "wait", "crash"})
       /\ CallOf(t).op = "sendr" => local[t] = effect[t]
       /\ IsAlloc(CallOf(t)) => Given(CallOf(t)) \subseteq inTable
  /\ effect[t] # None =>
       /\ ~IsRead(CallOf(t)) => effect[t] = "ok"
       /\ CallOf(t).op = "read" => local[t] = effect[t]
  /\ waiting[t] /\ effect[t] = None /\ CallOf(t).op = "malloc" =>
       copied[CallOf(t).addr] = 0
  /\ waiting[t] /\ effect[t] = None /\ CallOf(t).op = "read" => local[t] = Unread

CallersOK == \A t \in Threads : CallerOK(t)

(* The list holds each waiting thread at most once, and the worker's own *)
(* work is not in it.                                                    *)
WorkOK ==
  /\ \A i, j \in DOMAIN workList : workList[i] = workList[j] => i = j
  /\ \A i \in DOMAIN workList :
       /\ waiting[workList[i]]
       /\ effect[workList[i]] = None
       /\ wpc \in {"start", "wait", "crash"} => cur # workList[i]
  /\ wpc \in {"start", "wait", "crash"} => waiting[cur]
  /\ wpc \in {"start", "crash"} => effect[cur] = None
  /\ wpc = "wait" /\ CallOf(cur).op \in {"read", "write"} /\ taskDone =>
       effect[cur] # None

(* The send whose frame the worker is about to write to once more. *)
SentCall == Program[cur][IF waiting[cur] THEN pc[cur] + 1 ELSE pc[cur]]

SentOK ==
  wpc = "sent" =>
    /\ waiting[cur] => done[cur]
    /\ ~waiting[cur] => pc[cur] > 0
    /\ IsSend(SentCall)

(* write_flag is set only for the address the worker is busy with. *)
FlagsOK ==
  \A a \in Addrs : writeFlag[a] =>
    \/ /\ wpc = "wait"
       /\ CallOf(cur).op \in {"write", "sendw", "sendr"}
       /\ CallOf(cur).addr = a
       /\ CallOf(cur).op = "write" => ~taskDone
    \/ wpc = "sent" /\ SentCall.addr = a
    \/ wpc = "crash"

(* An entry of the completion queue that the worker no longer waits for: a *)
(* malloc's answer of which the last field is not copied.                  *)
Left(m) ==
  /\ m.kind = "answer"
  /\ m.call.op = "malloc"
  /\ copied[m.call.addr] = 2
  /\ \E k \in DOMAIN Program[m.thread] :
       /\ m.call = Program[m.thread][k]
       /\ \/ k <= pc[m.thread]
          \/ k = pc[m.thread] + 1 /\ waiting[m.thread] /\ effect[m.thread] # None

(* The entry it waits for. *)
Mine(m) ==
  /\ wpc = "wait"
  /\ m.thread = cur
  /\ m.call = CallOf(cur)
  /\ \/ /\ m.kind = "completion"
        /\ m.call.op \in {"read", "write"}
        /\ effect[cur] # None
        /\ ~taskDone
     \/ /\ m.kind = "answer"
        /\ IsAlloc(m.call) \/ IsSend(m.call)
        /\ effect[cur] # None
        /\ m.val = effect[cur]
        /\ IF m.call.op = "malloc" THEN copied[m.call.addr] <= 2 ELSE ~recv[cur]
     \/ /\ m.kind = "error"
        /\ effect[cur] = None

SqOK ==
  /\ Len(sq) <= 1
  /\ sq # << >> =>
       /\ wpc = "wait"
       /\ sq[1].thread = cur
       /\ sq[1].call = CallOf(cur)
       /\ effect[cur] = None
       /\ CallOf(cur).op = "write" => writeFlag[CallOf(cur).addr]
       /\ \A i \in DOMAIN cq : i = 1 /\ Left(cq[i])

CqOK ==
  /\ \A i \in DOMAIN cq : (i = 1 /\ Left(cq[i])) \/ (i = Len(cq) /\ Mine(cq[i]))
  /\ \A i \in DOMAIN cq :
       i = 2 => /\ Left(cq[1])
                /\ cq[2].kind = "answer" /\ cq[2].call.op = "malloc" =>
                     copied[cq[2].call.addr] = 0
  /\ cqpc = "flag" => /\ cq # << >>
                      /\ cq[1].kind = "completion"
                      /\ cq[1].call.op = "write"
                      /\ ~writeFlag[cq[1].call.addr]
  /\ \A i \in DOMAIN cq :
       /\ cq[i].kind = "completion"
       /\ cq[i].call.op = "write"
       /\ i > 1 \/ cqpc # "flag"
       => writeFlag[cq[i].call.addr]

Inv ==
  /\ Types
  /\ CallersOK
  /\ WorkOK
  /\ SentOK
  /\ FlagsOK
  /\ SqOK
  /\ CqOK


----------------------------------------------------------------------------

(* The rest of a sequence with one or two entries. *)
LEMMA TailOfOne ==
  ASSUME NEW S, NEW s \in Seq(S), Len(s) = 1
  PROVE  s # << >> /\ Tail(s) = << >> /\ DOMAIN s = {1}
  <1>1. s # << >>
    BY EmptySeq
  <1>2. Tail(s) \in Seq(S) /\ Len(Tail(s)) = 0
    BY <1>1, HeadTailProperties
  <1>3. Tail(s) = << >>
    BY <1>2, EmptySeq
  <1>4. DOMAIN s = 1 .. 1
    BY LenProperties
  <1>5. QED
    BY <1>1, <1>3, <1>4

LEMMA TailOfTwo ==
  ASSUME NEW S, NEW s \in Seq(S), Len(s) = 2
  PROVE  /\ Tail(s) \in Seq(S) /\ Len(Tail(s)) = 1
         /\ DOMAIN Tail(s) = {1} /\ Tail(s)[1] = s[2]
  <1>1. s # << >>
    BY EmptySeq
  <1>2. /\ Tail(s) \in Seq(S) /\ Len(Tail(s)) = 1
        /\ \A i \in 1 .. Len(Tail(s)) : Tail(s)[i] = s[i + 1]
    BY <1>1, HeadTailProperties
  <1>3. 1 \in 1 .. 1
    OBVIOUS
  <1>4. Tail(s)[1] = s[1 + 1]
    BY <1>2, <1>3
  <1>5. DOMAIN Tail(s) = {1}
    BY <1>2, TailOfOne
  <1>6. QED
    BY <1>2, <1>4, <1>5

(* Every call of a program is one of Calls, with an address of its own. *)
LEMMA ProgramCalls ==
  ASSUME NEW t \in Threads, NEW k \in 1 .. Len(Program[t])
  PROVE  /\ DOMAIN Program[t] = 1 .. Len(Program[t])
         /\ Len(Program[t]) \in Nat
         /\ Program[t][k] \in Calls
  <1>1. Program[t] \in Seq(Calls)
    BY ProgramAssumption
  <1>2. QED
    BY <1>1

LEMMA CallFacts ==
  ASSUME NEW c \in Calls
  PROVE  /\ c.op \in {"malloc", "buff", "read", "write", "sendw", "sendr"}
         /\ c.addr \in Addrs
         /\ c.val \in Vals
         /\ Given(c) \subseteq Addrs
         /\ c.op \in {"write", "sendw"} => c.val # None
  BY ProgramAssumption DEF Addrs, Vals, Given

(* The call of a thread that is in one. *)
LEMMA CallOfFacts ==
  ASSUME NEW t \in Threads, Types, CallerOK(t), waiting[t] \/ pc[t] < Len(Program[t])
  PROVE  /\ pc[t] + 1 \in 1 .. Len(Program[t])
         /\ DOMAIN Program[t] = 1 .. Len(Program[t])
         /\ CallOf(t) \in Calls
  <1>1. Program[t] \in Seq(Calls)
    BY ProgramAssumption
  <1>2. pc[t] + 1 \in 1 .. Len(Program[t])
    BY <1>1 DEF Types, CallerOK
  <1>3. QED
    BY <1>1, <1>2 DEF CallOf

(* An entry of the completion queue stays what it was. *)
LEMMA LeftStays ==
  ASSUME Types, NEW m \in Answers, Left(m),
         copied'[m.call.addr] = copied[m.call.addr],
         \/ /\ pc'[m.thread] = pc[m.thread]
            /\ waiting'[m.thread] = waiting[m.thread] /\ effect'[m.thread] = effect[m.thread]
         \/ pc'[m.thread] = pc[m.thread] /\ effect[m.thread] = None
         \/ pc'[m.thread] = pc[m.thread] + 1
  PROVE  Left(m)'
  <1>1. PICK k \in DOMAIN Program[m.thread] :
          /\ m.call = Program[m.thread][k]
          /\ \/ k <= pc[m.thread]
             \/ k = pc[m.thread] + 1 /\ waiting[m.thread] /\ effect[m.thread] # None
    BY DEF Left
  <1>2. m.thread \in Threads /\ k \in Int /\ pc[m.thread] \in Nat
    BY ProgramAssumption DEF Answers, Types
  <1>3. \/ k <= pc'[m.thread]
        \/ k = pc'[m.thread] + 1 /\ waiting'[m.thread] /\ effect'[m.thread] # None
    BY <1>1, <1>2
  <1>4. QED
    BY <1>1, <1>3 DEF Left

(* What is in the completion queue. *)
LEMMA CqEntries ==
  ASSUME Types, NEW i \in DOMAIN cq
  PROVE  /\ cq[i] \in Answers
         /\ cq[i].call \in Calls
         /\ cq[i].call.addr \in Addrs
         /\ cq[i].thread \in Threads
         /\ i \in Nat
  <1>1. cq[i] \in Answers /\ i \in Nat
    BY DEF Types
  <1>2. QED
    BY <1>1, CallFacts DEF Answers

InCq(m) == \E i \in DOMAIN cq : cq[i] = m

LEMMA CqStays ==
  ASSUME Types, CqOK, UNCHANGED <<cq, cqpc, writeFlag>>,
         \A m \in Answers : InCq(m) /\ Left(m) => Left(m)',
         \A m \in Answers : InCq(m) /\ Mine(m) => Mine(m)',
         \A a \in Addrs : copied[a] = 0 => copied'[a] = 0
  PROVE  CqOK'
  <1>1. ASSUME NEW i \in DOMAIN cq
        PROVE  /\ Left(cq[i]) => Left(cq[i])'
               /\ Mine(cq[i]) => Mine(cq[i])'
               /\ copied[cq[i].call.addr] = 0 => copied'[cq[i].call.addr] = 0
    <2>1. PICK m \in Answers : m = cq[i]
      BY CqEntries
    <2>2. cq'[i] = m
      BY <2>1
    <2>3. QED
      BY <2>1, <2>2, CqEntries DEF InCq, Left, Mine
  <1>2. \A i \in DOMAIN cq : i = 2 => 1 \in DOMAIN cq
    BY DEF Types
  <1>3. QED
    BY <1>1, <1>2 DEF CqOK

LEMMA CqAtMostTwo ==
  ASSUME Types, CqOK
  PROVE  Len(cq) \in 0 .. 2 /\ \A i \in DOMAIN cq : i <= 2
  <1>1. cq \in Seq(Answers)
    BY DEF Types
  <1>2. Len(cq) \in Nat /\ DOMAIN cq = 1 .. Len(cq)
    BY <1>1
  <1>3. Len(cq) > 2 => 2 \in DOMAIN cq /\ 2 # Len(cq)
    BY <1>2
  <1>4. ~(Len(cq) > 2)
    BY <1>3 DEF CqOK
  <1>5. QED
    BY <1>2, <1>4

(* A thread whose last call was a send that the worker is not through with *)
(* calls no more.                                                          *)
LEMMA SendCannotBeFollowed ==
  ASSUME SendsLast, Types, CallersOK, SentOK, wpc = "sent", ~waiting[cur]
  PROVE  ~(pc[cur] < Len(Program[cur]))
  <1>1. pc[cur] \in DOMAIN Program[cur]
    BY ProgramAssumption DEF SentOK, Types, CallersOK, CallerOK
  <1>2. QED
    BY <1>1 DEF SendsLast, SentOK, SentCall, Types

LEMMA TakePreserves ==
  ASSUME Inv, Take
  PROVE  Inv'
  <1>1. Types'
    BY DEF Inv, Types, Take, callers, infos, network
  <1>2. workList # << >> /\ cur' = workList[1]
    BY DEF Inv, Types, Take
  <1>3. \A i \in DOMAIN workList' : /\ i + 1 \in DOMAIN workList
                                   /\ workList'[i] = workList[i + 1]
                                   /\ i \in Nat
    BY DEF Inv, Types, Take
  <1>4. 1 \in DOMAIN workList /\ \A i \in DOMAIN workList : i \in Nat
    BY <1>2 DEF Inv, Types
  <1>5. waiting[cur'] /\ effect[cur'] = None
    BY <1>2, <1>4 DEF Inv, WorkOK
  <1>6. CallersOK'
    BY <1>5 DEF Inv, Types, CallersOK, CallerOK, CallOf, Take, callers, infos
  <1>7. WorkOK'
    <2>1. \A i, j \in DOMAIN workList' : workList'[i] = workList'[j] => i = j
      BY <1>3, SMT DEF Inv, WorkOK
    <2>2. \A i \in DOMAIN workList' : cur' # workList'[i]
      <3>1. \A i, j \in DOMAIN workList : workList[i] = workList[j] => i = j
        BY DEF Inv, WorkOK
      <3>2. ASSUME NEW i \in DOMAIN workList' PROVE workList[i + 1] # workList[1]
        <4>1. i + 1 \in DOMAIN workList /\ i \in Nat
          BY <1>3
        <4>2. i + 1 # 1
          <5>1. DOMAIN workList' = 1 .. Len(workList')
            BY <1>1 DEF Types
          <5>2. QED
            BY <5>1
        <4>3. QED
          BY <1>4, <3>1, <4>1, <4>2
      <3>3. QED
        BY <1>2, <1>3, <3>2
    <2>3. \A i \in DOMAIN workList' : waiting'[workList'[i]] /\ effect'[workList'[i]] = None
      BY <1>3 DEF Inv, WorkOK, Take, callers
    <2>4. QED
      BY <1>5, <2>1, <2>2, <2>3 DEF WorkOK, Take, callers
  <1>8. SentOK'
    BY DEF Inv, SentOK, Take
  <1>9. FlagsOK'
    BY DEF Inv, FlagsOK, Take, infos
  <1>10. SqOK'
    BY DEF Inv, SqOK, Take, infos, callers, network
  <1>11. CqOK'
    BY DEF Inv, CqOK, Left, Mine, Take, infos, callers, network
  <1>12. QED
    BY <1>1, <1>6, <1>7, <1>8, <1>9, <1>10, <1>11 DEF Inv

LEMMA CallPreserves ==
  ASSUME SendsLast, Inv, NEW t \in Threads, Call(t)
  PROVE  Inv'
  <1> DEFINE c == CallOf(t)
  <1>0. /\ c \in Calls /\ c.addr \in Addrs
        /\ c.op = "malloc" => IsAlloc(c) /\ Given(c) = {c.addr}
        /\ c.op = "read" => IsRead(c)
    BY CallOfFacts, CallFacts DEF Inv, Call, CallersOK, IsAlloc, IsRead, Given
  <1>1. Types'
    <2>1. c.val \in Vals /\ Unread \in Vals
      BY <1>0, CallFacts DEF Vals
    <2>2. local' \in [Threads -> Vals]
      BY <2>1 DEF Inv, Types, Call
    <2>3. QED
      BY <1>0, <2>2 DEF Inv, Types, Call, network
  <1>2. ~waiting[t] /\ effect[t] = None
    BY DEF Inv, CallersOK, CallerOK, Call
  <1>3. \A u \in Threads : CallOf(u)' = CallOf(u)
    BY DEF CallOf, Call
  <1>4. \A i \in DOMAIN workList : workList[i] # t
    BY <1>2 DEF Inv, WorkOK
  <1>5. CallersOK'
    <2> SUFFICES ASSUME NEW u \in Threads PROVE CallerOK(u)'
      BY DEF CallersOK
    <2>1. CallerOK(u)
      BY DEF Inv, CallersOK
    <2>2. CASE u = t
      BY <1>0, <1>2, <1>3, <2>1, <2>2 DEF Inv, Types, CallerOK, Call
    <2>3. CASE u # t
      <3>1. \A a \in Addrs : copied[a] = 0 => copied'[a] = 0
        BY DEF Call
      <3>2. waiting[u] => CallOf(u).addr \in Addrs
        BY <2>1, CallOfFacts, CallFacts DEF Inv
      <3>3. QED
        BY <1>3, <2>1, <2>3, <3>1, <3>2 DEF Inv, Types, CallerOK, Call
    <2>4. QED
      BY <2>2, <2>3
  <1>6. WorkOK'
    <2>1. /\ workList \in Seq(Threads) /\ workList' = Append(workList, t)
          /\ waiting \in [Threads -> BOOLEAN] /\ waiting' = [waiting EXCEPT ![t] = TRUE]
          /\ UNCHANGED <<effect, wpc, cur, taskDone>>
      BY DEF Inv, Types, Call
    <2>2. /\ DOMAIN workList' = 1 .. (Len(workList) + 1) /\ Len(workList) \in Nat
          /\ DOMAIN workList = 1 .. Len(workList)
          /\ \A i \in DOMAIN workList : workList'[i] = workList[i] /\ workList[i] \in Threads
          /\ workList'[Len(workList) + 1] = t
      BY <2>1
    <2>3. \A i \in DOMAIN workList' : i \in DOMAIN workList \/ i = Len(workList) + 1
      BY <2>2
    <2>4. \A i, j \in DOMAIN workList' : workList'[i] = workList'[j] => i = j
      BY <1>4, <2>2, <2>3 DEF Inv, WorkOK
    <2>5. wpc \in {"start", "wait", "crash"} => cur \in Threads /\ cur # t
      BY <1>2 DEF Inv, Types, WorkOK
    <2>6. \A u \in Threads : waiting[u] => waiting'[u]
      BY <2>1
    <2>7. waiting'[t]
      BY <2>1
    <2>8. \A i \in DOMAIN workList' :
            /\ waiting'[workList'[i]] /\ effect[workList'[i]] = None
            /\ wpc \in {"start", "wait", "crash"} => cur # workList'[i]
      BY <1>2, <2>2, <2>3, <2>5, <2>6, <2>7 DEF Inv, WorkOK
    <2>9. wpc \in {"start", "wait", "crash"} => waiting'[cur] /\ CallOf(cur)' = CallOf(cur)
      <3>1. CallOf(cur)' = CallOf(cur)
        BY DEF CallOf, Call
      <3>2. QED
        BY <2>5, <2>6, <3>1 DEF Inv, WorkOK
    <2>10. QED
      BY <2>1, <2>4, <2>8, <2>9 DEF Inv, WorkOK
  <1>7. wpc \in {"start", "wait", "crash"} => cur # t
    BY <1>2 DEF Inv, WorkOK
  <1>8. SentOK' /\ FlagsOK'
    <2>1. wpc = "sent" => cur # t
      BY <1>2, SendCannotBeFollowed DEF Inv, Call
    <2>2. wpc = "sent" => SentCall' = SentCall
      BY <2>1 DEF Inv, Types, SentCall, Call
    <2>3. QED
      BY <1>3, <2>1, <2>2 DEF Inv, SentOK, FlagsOK, Types, Call
  <1>9. ASSUME NEW m \in Answers, Left(m) PROVE Left(m)'
    <2>1. m.call \in Calls /\ m.call.addr \in Addrs /\ m.thread \in Threads
      BY CallFacts DEF Answers
    <2>2. PICK k \in DOMAIN Program[m.thread] :
            /\ m.call = Program[m.thread][k]
            /\ \/ k <= pc[m.thread]
               \/ k = pc[m.thread] + 1 /\ waiting[m.thread] /\ effect[m.thread] # None
      BY <1>9 DEF Left
    <2>3. m.call.op = "malloc"
      BY <1>9 DEF Left
    <2>4. ~(c.op = "malloc" /\ c.addr = m.call.addr)
      <3>1. pc[t] \in Nat /\ pc[t] + 1 \in DOMAIN Program[t]
        BY CallOfFacts DEF Inv, Types, CallersOK, Call
      <3>2. ~(t = m.thread /\ pc[t] + 1 = k)
        BY <1>2, <2>2, <3>1
      <3>3. QED
        BY <2>1, <2>2, <2>3, <3>1, <3>2, ProgramAssumption DEF CallOf
    <2>5. copied'[m.call.addr] = copied[m.call.addr]
      <3>1. CASE c.op = "malloc"
        BY <2>1, <2>4, <3>1 DEF Call, Given, Inv, Types
      <3>2. CASE c.op # "malloc"
        <4>1. m.call.addr \notin {"buff", "mate"}
          BY <2>1, <2>3, ProgramAssumption
        <4>2. IsAlloc(c) => Given(c) = {"buff", "mate"}
          BY <3>2 DEF IsAlloc, Given
        <4>3. QED
          BY <2>1, <4>1, <4>2 DEF Call, Inv, Types
      <3>3. QED
        BY <3>1, <3>2
    <2>6. /\ pc'[m.thread] = pc[m.thread]
          /\ effect'[m.thread] = effect[m.thread]
          /\ waiting'[m.thread] = waiting[m.thread] \/ effect[m.thread] = None
      BY <1>2, <2>1 DEF Call, Inv, Types
    <2>7. QED
      BY <1>9, <2>5, <2>6, LeftStays DEF Inv
  <1>10. SqOK'
    BY <1>3, <1>7, <1>9, CqEntries DEF Inv, SqOK, Types, Call, network
  <1>11. CqOK'
    <2>1. \A a \in Addrs : copied[a] \in 0 .. 3
      BY DEF Inv, Types
    <2>2. \A a \in Addrs : copied'[a] = 0 \/ copied'[a] = copied[a]
      BY DEF Call
    <2>3. ASSUME NEW m \in Answers, Mine(m) PROVE Mine(m)'
      <3>1. cur # t
        BY <1>7, <2>3 DEF Mine
      <3>2. m.call.addr \in Addrs
        BY CallFacts DEF Answers
      <3>3. copied[m.call.addr] <= 2 => copied'[m.call.addr] <= 2
        BY <2>1, <2>2, <3>2
      <3>4. QED
        BY <1>3, <2>3, <3>1, <3>3 DEF Mine, Inv, Types, Call, network
    <2>4. QED
      BY <1>9, <2>2, <2>3, CqStays DEF Inv, Call, network
  <1>12. QED
    BY <1>1, <1>5, <1>6, <1>8, <1>10, <1>11 DEF Inv

LEMMA CallRefusedPreserves ==
  ASSUME SendsLast, Inv, NEW t \in Threads, CallRefused(t)
  PROVE  Inv'
  <1>1. Types'
    BY DEF Inv, Types, CallRefused, worker, infos, network
  <1>2. ~waiting[t] /\ effect[t] = None
    BY DEF Inv, CallersOK, CallerOK, CallRefused
  <1>3. \A u \in Threads : u # t => CallOf(u)' = CallOf(u)
    BY DEF CallOf, CallRefused, Inv, Types
  <1>4. CallersOK'
    <2> SUFFICES ASSUME NEW u \in Threads PROVE CallerOK(u)'
      BY DEF CallersOK
    <2>1. CallerOK(u)
      BY DEF Inv, CallersOK
    <2>2. CASE u = t
      BY <1>2, <2>1, <2>2, ProgramAssumption DEF Inv, Types, CallerOK, CallRefused
    <2>3. CASE u # t
      BY <1>3, <2>1, <2>3 DEF Inv, Types, CallerOK, CallRefused, worker, infos
    <2>4. QED
      BY <2>2, <2>3
  <1>5. wpc # "idle" => cur # t
    BY <1>2, SendCannotBeFollowed DEF Inv, CallRefused, WorkOK, Types
  <1>6. WorkOK'
    BY <1>3, <1>5 DEF Inv, Types, WorkOK, CallRefused, worker
  <1>7. SentOK' /\ FlagsOK'
    <2>1. wpc = "sent" => SentCall' = SentCall
      BY <1>5 DEF Inv, Types, SentCall, CallRefused, worker
    <2>2. wpc = "wait" => CallOf(cur)' = CallOf(cur)
      BY <1>3, <1>5 DEF Inv, Types, CallRefused, worker
    <2>3. QED
      BY <1>5, <2>1, <2>2 DEF Inv, SentOK, FlagsOK, Types, CallRefused, worker, infos
  <1>8. ASSUME NEW m \in Answers, Left(m) PROVE Left(m)'
    <2>1. m.thread \in Threads
      BY DEF Answers
    <2>2. QED
      BY <1>8, <2>1, LeftStays DEF Inv, Types, CallRefused, infos
  <1>9. SqOK'
    BY <1>3, <1>5, <1>8, CqEntries DEF Inv, SqOK, Types, CallRefused, network, worker, infos
  <1>10. CqOK'
    <2>1. ASSUME NEW m \in Answers, Mine(m) PROVE Mine(m)'
      BY <1>3, <1>5, <2>1 DEF Mine, Inv, Types, CallRefused, network, worker, infos
    <2>2. QED
      BY <1>8, <2>1, CqStays DEF Inv, CallRefused, network, infos
  <1>11. QED
    BY <1>1, <1>4, <1>6, <1>7, <1>9, <1>10 DEF Inv

LEMMA ReturnPreserves ==
  ASSUME Inv, NEW t \in Threads, Return(t)
  PROVE  Inv'
  <1>1. /\ waiting[t] /\ effect[t] # None /\ pc[t] < Len(Program[t])
        /\ ~(t = cur /\ wpc \in {"start", "wait", "crash"})
        /\ IsAlloc(CallOf(t)) => Given(CallOf(t)) \subseteq inTable
    BY DEF Inv, CallersOK, CallerOK, Return
  <1>2. Types'
    BY <1>1 DEF Inv, Types, Return, worker, infos, network, Vals
  <1>3. \A u \in Threads : u # t => CallOf(u)' = CallOf(u)
    BY DEF CallOf, Return, Inv, Types
  <1>4. CallersOK'
    <2> SUFFICES ASSUME NEW u \in Threads PROVE CallerOK(u)'
      BY DEF CallersOK
    <2>1. CallerOK(u)
      BY DEF Inv, CallersOK
    <2>2. CASE u = t
      BY <1>1, <2>1, <2>2, ProgramAssumption DEF Inv, Types, CallerOK, Return
    <2>3. CASE u # t
      BY <1>3, <2>1, <2>3 DEF Inv, Types, CallerOK, Return, worker, infos
    <2>4. QED
      BY <2>2, <2>3
  <1>5. \A i \in DOMAIN workList : workList[i] # t
    BY <1>1 DEF Inv, WorkOK
  <1>6. WorkOK'
    BY <1>1, <1>3, <1>5 DEF Inv, Types, WorkOK, Return, worker
  <1>7. SentOK' /\ FlagsOK'
    <2>1. SentCall' = SentCall
      BY <1>1 DEF Inv, Types, SentCall, Return, worker
    <2>2. wpc = "wait" => CallOf(cur)' = CallOf(cur)
      BY <1>1, <1>3 DEF Inv, Types, Return, worker
    <2>3. QED
      BY <2>1, <2>2 DEF Inv, SentOK, FlagsOK, Types, Return, worker, infos
  <1>8. ASSUME NEW m \in Answers, Left(m) PROVE Left(m)'
    <2>1. m.thread \in Threads
      BY DEF Answers
    <2>2. QED
      BY <1>8, <2>1, LeftStays DEF Inv, Types, Return, infos
  <1>9. SqOK'
    BY <1>1, <1>3, <1>8, CqEntries DEF Inv, SqOK, Types, Return, network, worker, infos
  <1>10. CqOK'
    <2>1. ASSUME NEW m \in Answers, Mine(m) PROVE Mine(m)'
      BY <1>1, <1>3, <2>1 DEF Mine, Inv, Types, Return, network, worker, infos
    <2>2. QED
      BY <1>8, <2>1, CqStays DEF Inv, Return, network, infos
  <1>11. QED
    BY <1>2, <1>4, <1>6, <1>7, <1>9, <1>10 DEF Inv

(* Before the worker posts, nothing of its own is in the queues. *)
LEMMA NothingPosted ==
  ASSUME Inv, wpc # "wait"
  PROVE  /\ sq = << >>
         /\ \A i \in DOMAIN cq : i = 1 /\ Left(cq[i])
         /\ cqpc # "flag"
  BY DEF Inv, SqOK, CqOK, Mine, Types, Left

(* What Post does: a request of the worker is sent, or lost. *)
LEMMA Posted ==
  ASSUME NEW c \in Calls, cur \in Threads, Post(c), sq = << >>
  PROVE  /\ sq' \in Seq(Requests)
         /\ Len(sq') <= 1
         /\ sq' # << >> => sq'[1].thread = cur /\ sq'[1].call = c
  <1> DEFINE r == [thread |-> cur, call |-> c,
                   rkey |-> IsAlloc(c) \/ IsSend(c) \/ copied[c.addr] = 3]
  <1>1. r \in Requests /\ r.thread = cur /\ r.call = c
    BY DEF Requests
  <1>2. sq' = Append(sq, r) \/ sq' = sq
    BY DEF Post
  <1>3. CASE sq' = sq
    BY <1>3
  <1>4. CASE sq' = Append(sq, r)
    <2>1. sq' = <<r>>
      BY <1>4
    <2>2. QED
      BY <1>1, <2>1
  <1>5. QED
    BY <1>2, <1>3, <1>4

LEMMA AllocStartPreserves ==
  ASSUME Inv, AllocStart
  PROVE  Inv'
  <1> DEFINE c == CallOf(cur)
  <1>1. waiting[cur] /\ effect[cur] = None /\ cur \in Threads /\ wpc = "start"
    BY DEF Inv, WorkOK, AllocStart, Types
  <1>2. c \in Calls
    BY <1>1, CallOfFacts DEF Inv, CallersOK
  <1>3. sq = << >> /\ \A i \in DOMAIN cq : i = 1 /\ Left(cq[i])
    BY <1>1, NothingPosted
  <1>4. /\ sq' \in Seq(Requests)
        /\ Len(sq') <= 1
        /\ sq' # << >> => sq'[1].thread = cur /\ sq'[1].call = c
    BY <1>1, <1>2, <1>3, Posted DEF AllocStart
  <1>5. CallOf(cur)' = c
    BY DEF CallOf, AllocStart, callers
  <1>6. Types'
    BY <1>4 DEF Inv, Types, AllocStart, callers, infos
  <1>7. CallersOK'
    BY <1>1 DEF Inv, CallersOK, CallerOK, CallOf, AllocStart, callers, infos
  <1>8. WorkOK'
    BY <1>1, <1>5 DEF Inv, WorkOK, AllocStart, callers, IsAlloc
  <1>9. SentOK' /\ FlagsOK'
    BY <1>1 DEF Inv, SentOK, FlagsOK, AllocStart, callers, infos
  <1>10. ASSUME NEW m \in Answers, Left(m) PROVE Left(m)'
    BY <1>10 DEF Left, AllocStart, callers, infos
  <1>11. SqOK'
    <2>1. \A i \in DOMAIN cq' : i = 1 /\ Left(cq[i])'
      BY <1>3, <1>10, CqEntries DEF Inv, AllocStart
    <2>2. c.op # "write"
      BY DEF AllocStart, IsAlloc
    <2>3. QED
      BY <1>1, <1>4, <1>5, <2>1, <2>2 DEF SqOK, AllocStart, callers
  <1>12. CqOK'
    <2>1. \A m \in Answers : ~Mine(m)
      BY <1>1 DEF Mine
    <2>2. QED
      BY <1>10, <2>1, CqStays DEF Inv, AllocStart, infos
  <1>13. QED
    BY <1>6, <1>7, <1>8, <1>9, <1>11, <1>12 DEF Inv

LEMMA AllocFinishPreserves ==
  ASSUME Inv, AllocFinish
  PROVE  Inv'
  <1> DEFINE c == CallOf(cur)
  <1>1. waiting[cur] /\ cur \in Threads /\ wpc = "wait" /\ IsAlloc(c)
    BY DEF Inv, WorkOK, AllocFinish, Types, IsAlloc
  <1>2. c \in Calls /\ c.addr \in Addrs /\ Given(c) \subseteq Addrs
    BY <1>1, CallOfFacts, CallFacts DEF Inv, CallersOK
  <1>3. effect[cur] # None
    <2>1. CASE c.op = "malloc" /\ copied[c.addr] >= 2
      BY <1>1, <1>2, <2>1 DEF Inv, CallersOK, CallerOK
    <2>2. CASE recv[cur]
      BY <1>1, <2>2 DEF Inv, CallersOK, CallerOK
    <2>3. QED
      BY <2>1, <2>2 DEF AllocFinish
  <1>4. sq = << >>
    BY <1>3 DEF Inv, SqOK
  <1>5. CallOf(cur)' = c /\ \A u \in Threads : CallOf(u)' = CallOf(u)
    BY DEF CallOf, AllocFinish
  <1>6. Types'
    BY <1>2 DEF Inv, Types, AllocFinish, network
  <1>7. CallersOK'
    <2> SUFFICES ASSUME NEW u \in Threads PROVE CallerOK(u)'
      BY DEF CallersOK
    <2>1. CallerOK(u)
      BY DEF Inv, CallersOK
    <2>2. CASE u = cur
      BY <1>1, <1>3, <1>5, <2>1, <2>2 DEF Inv, Types, CallerOK, AllocFinish, IsAlloc
    <2>3. CASE u # cur
      BY <1>5, <2>1, <2>3 DEF Inv, Types, CallerOK, AllocFinish
    <2>4. QED
      BY <2>2, <2>3
  <1>8. WorkOK'
    BY DEF Inv, WorkOK, AllocFinish
  <1>9. SentOK' /\ FlagsOK'
    BY <1>1 DEF Inv, SentOK, FlagsOK, AllocFinish, IsAlloc
  <1>10. ASSUME NEW m \in Answers, Left(m) PROVE Left(m)'
    BY <1>10 DEF Left, AllocFinish
  <1>11. SqOK'
    BY <1>4 DEF SqOK, AllocFinish, network
  <1>12. ASSUME NEW i \in DOMAIN cq PROVE i = 1 /\ Left(cq[i])
    <2>1. cq[i] \in Answers /\ i \in Nat
      BY CqEntries DEF Inv
    <2>2. CASE i = Len(cq) /\ Mine(cq[i])
      <3>1. /\ cq[i].thread = cur /\ cq[i].call = c
            /\ cq[i].kind = "answer"
            /\ IF c.op = "malloc" THEN copied[c.addr] <= 2 ELSE ~recv[cur]
        BY <1>1, <1>3, <2>2 DEF Mine, IsAlloc
      <3>2. c.op = "malloc" /\ copied[c.addr] = 2
        <4>1. copied[c.addr] \in 0 .. 3
          BY <1>2 DEF Inv, Types
        <4>2. QED
          BY <3>1, <4>1 DEF AllocFinish
      <3>3. Left(cq[i])
        <4>1. pc[cur] + 1 \in DOMAIN Program[cur] /\ c = Program[cur][pc[cur] + 1]
          BY <1>1, CallOfFacts DEF Inv, CallersOK, CallOf
        <4>2. QED
          BY <1>1, <1>3, <3>1, <3>2, <4>1 DEF Left
      <3>4. i # 2
        BY <3>1, <3>2 DEF Inv, CqOK
      <3>5. i <= 2
        BY CqAtMostTwo DEF Inv
      <3>6. QED
        BY <2>1, <3>3, <3>4, <3>5 DEF Inv, Types
    <2>3. QED
      BY <2>2 DEF Inv, CqOK
  <1>13. CqOK'
    <2>1. cqpc # "flag"
      BY <1>12 DEF Inv, CqOK, Types, Left
    <2>2. \A i \in DOMAIN cq' : i = 1 /\ Left(cq[i])'
      BY <1>10, <1>12, CqEntries DEF Inv, AllocFinish, network
    <2>3. QED
      BY <2>1, <2>2 DEF CqOK, AllocFinish, network, Left
  <1>14. QED
    BY <1>6, <1>7, <1>8, <1>9, <1>11, <1>13 DEF Inv

LEMMA RwStartPreserves ==
  ASSUME Inv, RwStart
  PROVE  Inv'
  <1> DEFINE c == CallOf(cur)
  <1>1. waiting[cur] /\ effect[cur] = None /\ cur \in Threads /\ wpc = "start"
    BY DEF Inv, WorkOK, RwStart, Types
  <1>2. c \in Calls /\ c.addr \in Addrs
    BY <1>1, CallOfFacts, CallFacts DEF Inv, CallersOK
  <1>3. Known(c.addr)
    BY <1>1 DEF Inv, CallersOK, CallerOK, RwStart, Types, Known
  <1>4. /\ ~IsAlloc(c) /\ ~writeFlag[c.addr] /\ Post(c)
        /\ writeFlag' = IF c.op = "read" THEN writeFlag
                                         ELSE [writeFlag EXCEPT ![c.addr] = TRUE]
        /\ taskDone' = FALSE /\ wpc' = "wait" /\ done' = done
    BY <1>3 DEF RwStart
  <1>5. sq = << >> /\ \A i \in DOMAIN cq : i = 1 /\ Left(cq[i])
    BY <1>1, NothingPosted
  <1>6. /\ sq' \in Seq(Requests)
        /\ Len(sq') <= 1
        /\ sq' # << >> => sq'[1].thread = cur /\ sq'[1].call = c
    BY <1>1, <1>2, <1>4, <1>5, Posted
  <1>7. CallOf(cur)' = c
    BY DEF CallOf, RwStart
  <1>8. Types'
    BY <1>4, <1>6 DEF Inv, Types, RwStart
  <1>9. CallersOK'
    BY <1>1, <1>4 DEF Inv, CallersOK, CallerOK, CallOf, RwStart
  <1>10. WorkOK'
    BY <1>1, <1>4, <1>7 DEF Inv, WorkOK, RwStart
  <1>11. \A a \in Addrs : writeFlag'[a] => a = c.addr /\ c.op # "read"
    BY <1>1, <1>2, <1>4 DEF Inv, FlagsOK, Types
  <1>12. SentOK' /\ FlagsOK'
    <2>1. c.op \in {"read", "write", "sendw", "sendr"}
      BY <1>2, <1>4, CallFacts DEF IsAlloc
    <2>2. cur' = cur
      BY DEF RwStart
    <2>3. QED
      BY <1>4, <1>7, <1>11, <2>1, <2>2 DEF SentOK, FlagsOK
  <1>13. ASSUME NEW m \in Answers, Left(m) PROVE Left(m)'
    BY <1>13 DEF Left, RwStart
  <1>14. SqOK'
    <2>1. \A i \in DOMAIN cq' : i = 1 /\ Left(cq[i])'
      BY <1>5, <1>13, CqEntries DEF Inv, RwStart
    <2>2. c.op = "write" => writeFlag'[c.addr]
      BY <1>2, <1>4 DEF Inv, Types
    <2>3. QED
      BY <1>1, <1>4, <1>6, <1>7, <2>1, <2>2 DEF SqOK, RwStart
  <1>15. CqOK'
    <2>1. \A i \in DOMAIN cq' : i = 1 /\ Left(cq[i])'
      BY <1>5, <1>13, CqEntries DEF Inv, RwStart
    <2>2. cqpc' # "flag"
      BY <1>1, NothingPosted DEF RwStart
    <2>3. QED
      BY <2>1, <2>2 DEF CqOK, Left
  <1>16. QED
    BY <1>8, <1>9, <1>10, <1>12, <1>14, <1>15 DEF Inv

(* A post that fails: a read is over, a write ends the process. *)
LEMMA PostFailsRead ==
  ASSUME Inv, cur \in Threads, wpc = "start", waiting[cur], effect[cur] = None,
         CallOf(cur).op = "read", local[cur] = Unread,
         sq = << >>, cqpc # "flag", \A i \in DOMAIN cq : i = 1 /\ Left(cq[i]),
         \A a \in Addrs : ~writeFlag[a], \A u \in Threads : CallOf(u)' = CallOf(u),
         wpc' = "idle", writeFlag' = writeFlag,
         done' = [done EXCEPT ![cur] = TRUE], effect' = [effect EXCEPT ![cur] = Unread],
         UNCHANGED <<pc, waiting, recv, local, known, workList, cur, taskDone>>,
         UNCHANGED <<copied, inTable, network, mem>>
  PROVE  Inv'
  <1>1. /\ effect'[cur] = Unread /\ Unread # None /\ Unread \in Vals
        /\ \A u \in Threads : u # cur => effect'[u] = effect[u] /\ done'[u] = done[u]
    BY DEF Inv, Types, Unread, None, Vals
  <1>2. Types'
    BY <1>1 DEF Inv, Types, network
  <1>3. CallersOK'
    <2> SUFFICES ASSUME NEW u \in Threads PROVE CallerOK(u)'
      BY DEF CallersOK
    <2>1. CallerOK(u)
      BY DEF Inv, CallersOK
    <2>2. CASE u = cur
      BY <1>1, <2>1, <2>2 DEF CallerOK, IsAlloc, IsRead, Inv, Types
    <2>3. CASE u # cur
      BY <1>1, <2>1, <2>3 DEF CallerOK
    <2>4. QED
      BY <2>2, <2>3
  <1>4. WorkOK'
    <2>1. \A i \in DOMAIN workList : workList[i] \in Threads /\ workList[i] # cur
      BY DEF Inv, Types, WorkOK
    <2>2. QED
      BY <1>1, <2>1 DEF Inv, WorkOK
  <1>5. SentOK' /\ FlagsOK' /\ SqOK'
    BY DEF SentOK, FlagsOK, SqOK, network
  <1>6. CqOK'
    <2>1. ASSUME NEW m \in Answers, Left(m) PROVE Left(m)'
      <3>1. m.thread \in Threads
        BY DEF Answers
      <3>2. QED
        BY <1>1, <2>1, <3>1, LeftStays DEF Inv
    <2>2. \A i \in DOMAIN cq' : i = 1 /\ Left(cq[i])'
      BY <2>1, CqEntries DEF Inv, network
    <2>3. QED
      BY <2>2 DEF CqOK, Left, network
  <1>7. QED
    BY <1>2, <1>3, <1>4, <1>5, <1>6 DEF Inv

LEMMA PostFailsWrite ==
  ASSUME Inv, cur \in Threads, wpc = "start", waiting[cur], effect[cur] = None,
         CallOf(cur).addr \in Addrs,
         sq = << >>, cqpc # "flag", \A i \in DOMAIN cq : i = 1 /\ Left(cq[i]),
         \A u \in Threads : CallOf(u)' = CallOf(u),
         wpc' = "crash", writeFlag' = [writeFlag EXCEPT ![CallOf(cur).addr] = TRUE],
         UNCHANGED <<done, effect>>,
         UNCHANGED <<pc, waiting, recv, local, known, workList, cur, taskDone>>,
         UNCHANGED <<copied, inTable, network, mem>>
  PROVE  Inv'
  <1>1. Types'
    BY DEF Inv, Types, network
  <1>2. CallersOK'
    BY DEF Inv, CallersOK, CallerOK
  <1>3. WorkOK'
    BY DEF Inv, WorkOK
  <1>4. SentOK' /\ FlagsOK' /\ SqOK'
    BY DEF SentOK, FlagsOK, SqOK, network
  <1>5. CqOK'
    <2>1. ASSUME NEW m \in Answers, Left(m) PROVE Left(m)'
      BY <2>1 DEF Left
    <2>2. \A i \in DOMAIN cq' : i = 1 /\ Left(cq[i])'
      BY <2>1, CqEntries DEF Inv, network
    <2>3. QED
      BY <2>2 DEF CqOK, Left, network
  <1>6. QED
    BY <1>1, <1>2, <1>3, <1>4, <1>5 DEF Inv

LEMMA PostFailsPreserves ==
  ASSUME Inv, PostFails
  PROVE  Inv'
  <1> DEFINE c == CallOf(cur)
  <1>1. waiting[cur] /\ effect[cur] = None /\ cur \in Threads /\ wpc = "start"
    BY DEF Inv, WorkOK, PostFails, Types
  <1>2. c \in Calls /\ c.addr \in Addrs
    BY <1>1, CallOfFacts, CallFacts DEF Inv, CallersOK
  <1>3. sq = << >> /\ cqpc # "flag" /\ \A i \in DOMAIN cq : i = 1 /\ Left(cq[i])
    BY <1>1, NothingPosted
  <1>4. \A u \in Threads : CallOf(u)' = CallOf(u)
    BY DEF CallOf, PostFails
  <1>5. \A u \in Threads : u # cur => effect'[u] = effect[u] /\ done'[u] = done[u]
    BY DEF PostFails, Inv, Types
  <1>6. /\ UNCHANGED <<pc, waiting, recv, local, known, workList, cur, taskDone>>
        /\ UNCHANGED <<copied, inTable, network, mem>>
    BY DEF PostFails
  <1>7. c.op \in {"read", "write"} /\ (c.op = "read" => local[cur] = Unread)
    BY <1>1 DEF PostFails, Inv, CallersOK, CallerOK
  <1>8. CASE c.op = "read"
    <2>1. /\ wpc' = "idle" /\ writeFlag' = writeFlag
          /\ done' = [done EXCEPT ![cur] = TRUE]
          /\ effect' = [effect EXCEPT ![cur] = Unread]
      BY <1>8 DEF PostFails
    <2>2. effect'[cur] = Unread /\ Unread # None /\ Unread \in Vals
      BY <1>1, <2>1 DEF Inv, Types, Unread, None, Vals
    <2>3. \A a \in Addrs : ~writeFlag[a]
      BY <1>1 DEF Inv, FlagsOK
    <2>4. QED
      BY <1>1, <1>3, <1>4, <1>5, <1>6, <1>7, <1>8, <2>1, <2>2, <2>3, PostFailsRead
  <1>9. CASE c.op = "write"
    <2>1. /\ wpc' = "crash" /\ writeFlag' = [writeFlag EXCEPT ![c.addr] = TRUE]
          /\ UNCHANGED <<done, effect>>
      BY <1>9 DEF PostFails
    <2>2. QED
      BY <1>1, <1>2, <1>3, <1>4, <1>6, <2>1, PostFailsWrite
  <1>10. QED
    BY <1>7, <1>8, <1>9

(* The worker goes on: only answers it does not wait for are left. *)
LEMMA RwFinishPreserves ==
  ASSUME Inv, RwFinish
  PROVE  Inv'
  <1> DEFINE c == CallOf(cur)
  <1>1. waiting[cur] /\ cur \in Threads /\ wpc = "wait" /\ effect[cur] # None
    BY DEF Inv, WorkOK, RwFinish, Types
  <1>2. sq = << >>
    BY <1>1 DEF Inv, SqOK
  <1>3. \A i \in DOMAIN cq : ~Mine(cq[i])
    BY <1>1 DEF Mine, RwFinish, IsAlloc, IsSend
  <1>4. \A i \in DOMAIN cq : i = 1 /\ Left(cq[i])
    BY <1>3 DEF Inv, CqOK
  <1>5. cqpc # "flag"
    BY <1>4 DEF Inv, CqOK, Types, Left
  <1>6. \A u \in Threads : CallOf(u)' = CallOf(u)
    BY DEF CallOf, RwFinish
  <1>7. Types'
    BY DEF Inv, Types, RwFinish, infos, network
  <1>8. CallersOK'
    <2> SUFFICES ASSUME NEW u \in Threads PROVE CallerOK(u)'
      BY DEF CallersOK
    <2>1. CallerOK(u)
      BY DEF Inv, CallersOK
    <2>2. CASE u = cur
      BY <1>1, <1>6, <2>1, <2>2 DEF Inv, Types, CallerOK, RwFinish, IsAlloc, infos
    <2>3. CASE u # cur
      BY <1>6, <2>1, <2>3 DEF Inv, Types, CallerOK, RwFinish, infos
    <2>4. QED
      BY <2>2, <2>3
  <1>9. WorkOK'
    BY DEF Inv, WorkOK, RwFinish
  <1>10. SentOK'
    BY DEF SentOK, RwFinish
  <1>11. FlagsOK'
    <2>1. \A a \in Addrs : ~writeFlag[a]
      BY <1>1 DEF RwFinish, Inv, FlagsOK
    <2>2. QED
      BY <2>1 DEF FlagsOK, RwFinish, infos
  <1>12. SqOK'
    BY <1>2 DEF SqOK, RwFinish, network
  <1>13. CqOK'
    <2>1. ASSUME NEW m \in Answers, Left(m) PROVE Left(m)'
      BY <2>1 DEF Left, RwFinish, infos
    <2>2. \A i \in DOMAIN cq' : i = 1 /\ Left(cq[i])'
      BY <1>4, <2>1, CqEntries DEF Inv, RwFinish, network
    <2>3. QED
      BY <1>5, <2>2 DEF CqOK, Left, RwFinish, network
  <1>14. QED
    BY <1>7, <1>8, <1>9, <1>10, <1>11, <1>12, <1>13 DEF Inv

LEMMA SendFinishPreserves ==
  ASSUME Inv, SendFinish
  PROVE  Inv'
  <1> DEFINE c == CallOf(cur)
  <1>1. /\ waiting[cur] /\ cur \in Threads /\ wpc = "wait" /\ effect[cur] # None
        /\ c.op = "sendr" => local[cur] = effect[cur]
    BY DEF Inv, WorkOK, SendFinish, Types, CallersOK, CallerOK
  <1>2. sq = << >>
    BY <1>1 DEF Inv, SqOK
  <1>3. \A i \in DOMAIN cq : ~Mine(cq[i])
    BY <1>1 DEF Mine, SendFinish, IsSend
  <1>4. \A i \in DOMAIN cq : i = 1 /\ Left(cq[i])
    BY <1>3 DEF Inv, CqOK
  <1>5. cqpc # "flag"
    BY <1>4 DEF Inv, CqOK, Types, Left
  <1>6. \A u \in Threads : CallOf(u)' = CallOf(u)
    BY DEF CallOf, SendFinish
  <1>7. Types'
    BY DEF Inv, Types, SendFinish, infos, network
  <1>8. CallersOK'
    <2> SUFFICES ASSUME NEW u \in Threads PROVE CallerOK(u)'
      BY DEF CallersOK
    <2>1. CallerOK(u)
      BY DEF Inv, CallersOK
    <2>2. CASE u = cur
      BY <1>1, <1>6, <2>1, <2>2 DEF Inv, Types, CallerOK, SendFinish, IsAlloc, IsSend, infos
    <2>3. CASE u # cur
      BY <1>6, <2>1, <2>3 DEF Inv, Types, CallerOK, SendFinish, infos
    <2>4. QED
      BY <2>2, <2>3
  <1>9. WorkOK'
    BY DEF Inv, WorkOK, SendFinish
  <1>10. SentCall' = c
    BY <1>1 DEF SentCall, CallOf, SendFinish
  <1>11. SentOK'
    BY <1>1, <1>10 DEF SentOK, SendFinish, Inv, Types
  <1>12. FlagsOK'
    BY <1>1, <1>10 DEF FlagsOK, SendFinish, Inv, infos
  <1>13. SqOK'
    BY <1>2 DEF SqOK, SendFinish, network
  <1>14. CqOK'
    <2>1. ASSUME NEW m \in Answers, Left(m) PROVE Left(m)'
      BY <2>1 DEF Left, SendFinish, infos
    <2>2. \A i \in DOMAIN cq' : i = 1 /\ Left(cq[i])'
      BY <1>4, <2>1, CqEntries DEF Inv, SendFinish, network
    <2>3. QED
      BY <1>5, <2>2 DEF CqOK, Left, SendFinish, network
  <1>15. QED
    BY <1>7, <1>8, <1>9, <1>11, <1>12, <1>13, <1>14 DEF Inv

LEMMA SendClearPreserves ==
  ASSUME Inv, SendClear
  PROVE  Inv'
  <1>1. wpc = "sent" /\ cur \in Threads
    BY DEF SendClear, Inv, Types
  <1>2. waiting[cur] => done[cur] /\ effect[cur] # None
    BY <1>1 DEF Inv, SentOK, CallersOK, CallerOK
  <1>3. waiting[cur] => cur \notin Range(workList)
    BY <1>2 DEF Inv, WorkOK, Range
  <1>4. SentCall \in Calls /\ SentCall.addr \in Addrs
    <2>1. (IF waiting[cur] THEN pc[cur] + 1 ELSE pc[cur]) \in 1 .. Len(Program[cur])
      BY <1>1, ProgramAssumption DEF Inv, SentOK, CallersOK, CallerOK, Types
    <2>2. QED
      BY <1>1, <2>1, ProgramCalls, CallFacts DEF SentCall
  <1>5. writeFlag' = [writeFlag EXCEPT ![SentCall.addr] = FALSE]
    BY <1>3 DEF SendClear, SentCall
  <1>6. \A a \in Addrs : ~writeFlag'[a]
    BY <1>1, <1>4, <1>5 DEF Inv, FlagsOK, Types
  <1>7. sq = << >> /\ cqpc # "flag" /\ \A i \in DOMAIN cq : i = 1 /\ Left(cq[i])
    BY <1>1, NothingPosted
  <1>8. \A u \in Threads : CallOf(u)' = CallOf(u)
    BY DEF CallOf, SendClear
  <1>9. Types'
    BY <1>5 DEF Inv, Types, SendClear, network
  <1>10. CallersOK'
    <2> SUFFICES ASSUME NEW u \in Threads PROVE CallerOK(u)'
      BY DEF CallersOK
    <2>1. CallerOK(u)
      BY DEF Inv, CallersOK
    <2>2. done'[u] = done[u] \/ u = cur
      BY DEF SendClear, Inv, Types
    <2>3. QED
      BY <1>1, <1>2, <1>8, <2>1, <2>2 DEF CallerOK, SendClear
  <1>11. WorkOK'
    BY DEF Inv, WorkOK, SendClear
  <1>12. SentOK' /\ FlagsOK'
    BY <1>6 DEF SentOK, FlagsOK, SendClear
  <1>13. SqOK'
    BY <1>7 DEF SqOK, SendClear, network
  <1>14. CqOK'
    <2>1. ASSUME NEW m \in Answers, Left(m) PROVE Left(m)'
      BY <2>1 DEF Left, SendClear
    <2>2. \A i \in DOMAIN cq' : i = 1 /\ Left(cq[i])'
      BY <1>7, <2>1, CqEntries DEF Inv, SendClear, network
    <2>3. QED
      BY <1>7, <2>2 DEF CqOK, Left, SendClear, network
  <1>15. QED
    BY <1>9, <1>10, <1>11, <1>12, <1>13, <1>14 DEF Inv

LEMMA BreakPreserves ==
  ASSUME Inv, Break
  PROVE  Inv'
  <1>1. Types'
    <2>1. sq' \in Seq(Requests) /\ conn' \in BOOLEAN /\ cq' \in Seq(Answers)
      BY EmptySeq DEF Break, Inv, Types
    <2>2. QED
      BY <2>1 DEF Inv, Types, Break, callers, worker, infos
  <1>2. CallersOK'
    BY DEF Inv, CallersOK, CallerOK, CallOf, Break, callers, worker, infos
  <1>3. WorkOK'
    BY DEF Inv, WorkOK, CallOf, Break, callers, worker
  <1>4. SentOK' /\ FlagsOK'
    BY DEF Inv, SentOK, FlagsOK, SentCall, CallOf, Break, callers, worker, infos
  <1>5. SqOK'
    BY DEF SqOK, Break
  <1>6. CqOK'
    <2>1. ASSUME NEW m \in Answers PROVE (Left(m) => Left(m)') /\ (Mine(m) => Mine(m)')
      BY DEF Left, Mine, CallOf, Break, callers, worker, infos
    <2>2. CASE cq' = cq
      BY <2>1, <2>2, CqStays DEF Inv, Break, infos
    <2>3. CASE BetweenEvents /\ cq' = << >>
      BY <2>3 DEF CqOK, BetweenEvents, Break
    <2>4. QED
      BY <2>2, <2>3 DEF Break
  <1>7. QED
    BY <1>1, <1>2, <1>3, <1>4, <1>5, <1>6 DEF Inv

LEMMA StopPreserves ==
  ASSUME Inv, Stop
  PROVE  Inv'
  <1>1. cqpc = "poll" /\ cqpc' = "over" /\ UNCHANGED <<callers, worker, infos>>
        /\ UNCHANGED <<effect, conn, sq, cq, mem>>
    BY DEF Stop, BetweenEvents
  <1>2. Types'
    BY <1>1 DEF Inv, Types, callers, worker, infos
  <1>3. CallersOK'
    BY <1>1 DEF Inv, CallersOK, CallerOK, CallOf, callers, worker, infos
  <1>4. WorkOK'
    BY <1>1 DEF Inv, WorkOK, CallOf, callers, worker
  <1>5. SentOK' /\ FlagsOK'
    BY <1>1 DEF Inv, SentOK, FlagsOK, SentCall, CallOf, callers, worker, infos
  <1>6. \A m : Left(m)' = Left(m) /\ Mine(m)' = Mine(m)
    BY <1>1 DEF Left, Mine, CallOf, callers, worker, infos
  <1>7. SqOK'
    BY <1>1, <1>6 DEF Inv, SqOK, Left, CallOf, callers, worker, infos
  <1>8. CqOK'
    BY <1>1, <1>6 DEF Inv, CqOK, Left, Mine, CallOf, callers, worker, infos
  <1>9. QED
    BY <1>2, <1>3, <1>4, <1>5, <1>7, <1>8 DEF Inv

(* The request the neighbour serves is the worker's. *)
LEMMA HeadOfSq ==
  ASSUME Inv, sq # << >>
  PROVE  /\ Head(sq) = sq[1] /\ Tail(sq) = << >>
         /\ Head(sq).thread = cur /\ Head(sq).call = CallOf(cur)
         /\ cur \in Threads /\ waiting[cur] /\ wpc = "wait" /\ effect[cur] = None
         /\ CallOf(cur) \in Calls /\ CallOf(cur).addr \in Addrs
  <1>1. Head(sq) = sq[1] /\ Tail(sq) = << >>
    BY DEF Inv, Types, SqOK
  <1>2. /\ sq[1].thread = cur /\ sq[1].call = CallOf(cur)
        /\ wpc = "wait" /\ effect[cur] = None
    BY DEF Inv, SqOK
  <1>3. cur \in Threads /\ waiting[cur]
    BY <1>2 DEF Inv, Types, WorkOK
  <1>4. QED
    BY <1>1, <1>2, <1>3, CallOfFacts, CallFacts DEF Inv, CallersOK

(* Whatever the neighbour does with the request, its completion or answer *)
(* is the last entry of the completion queue.                             *)
LEMMA AnsweredCq ==
  ASSUME Inv, sq # << >>, NEW m \in Answers, cq' = Append(cq, m), Mine(m)',
         UNCHANGED <<cqpc, writeFlag, copied, pc, waiting, cur>>,
         \A t \in Threads : t # cur => effect'[t] = effect[t]
  PROVE  CqOK'
  <1>1. \A i \in DOMAIN cq : i = 1 /\ Left(cq[i])
    BY DEF Inv, SqOK
  <1>2. cqpc # "flag"
    BY <1>1 DEF Inv, CqOK, Types, Left
  <1>3. ASSUME NEW n \in Answers, Left(n) PROVE Left(n)'
    <2>1. n.thread \in Threads
      BY DEF Answers
    <2>2. CASE n.thread = cur
      BY <1>3, <2>2, HeadOfSq, LeftStays DEF Inv
    <2>3. CASE n.thread # cur
      BY <1>3, <2>1, <2>3, LeftStays DEF Inv
    <2>4. QED
      BY <2>2, <2>3
  <1>4. cq \in Seq(Answers) /\ Len(cq) \in Nat /\ DOMAIN cq = 1 .. Len(cq)
    BY DEF Inv, Types
  <1>5. Len(cq) \in {0, 1}
    BY <1>1, <1>4
  <1>6. /\ Len(cq') = Len(cq) + 1 /\ DOMAIN cq' = 1 .. Len(cq')
        /\ cq'[Len(cq')] = m
        /\ Len(cq) = 1 => cq'[1] = cq[1]
    BY <1>4
  <1>7. Len(cq) = 1 => Left(cq[1])'
    <2>1. CASE Len(cq) = 1
      <3>1. PICK n \in Answers : n = cq[1]
        BY <1>4, <2>1
      <3>2. Left(n) /\ cq'[1] = n
        BY <1>1, <1>4, <1>6, <2>1, <3>1
      <3>3. Left(n)'
        BY <1>3, <3>2
      <3>4. QED
        BY <3>2, <3>3 DEF Left
    <2>2. QED
      BY <2>1
  <1>8. Mine(cq[Len(cq)])'
    BY <1>6 DEF Mine
  <1>9. CallOf(cur)' = CallOf(cur)
    BY DEF CallOf
  <1>10. m.call = CallOf(cur)
    BY <1>9 DEF Mine
  <1>11. m.call.op = "malloc" => copied'[m.call.addr] = 0
    BY <1>10, HeadOfSq DEF Inv, CallersOK, CallerOK
  <1>12. m.call.op = "write" => writeFlag'[m.call.addr]
    BY <1>10, HeadOfSq DEF Inv, SqOK
  <1>13. CASE Len(cq) = 0
    BY <1>2, <1>6, <1>8, <1>12, <1>13 DEF CqOK
  <1>14. CASE Len(cq) = 1
    <2>1. \A i \in DOMAIN cq' : i = 1 \/ i = 2
      BY <1>6, <1>14
    <2>2. cq'[2] = m /\ Len(cq') = 2
      BY <1>6, <1>14
    <2>3. cq'[1].kind = "answer"
      BY <1>7, <1>14 DEF Left
    <2>4. QED
      BY <1>2, <1>7, <1>8, <1>11, <1>12, <1>14, <2>1, <2>2, <2>3 DEF CqOK
  <1>15. QED
    BY <1>5, <1>13, <1>14

LEMMA ServedPreserves ==
  ASSUME Inv, sq # << >>, NEW v \in Vals, NEW m \in Answers,
         effect' = [effect EXCEPT ![cur] = v],
         sq' = Tail(sq), cq' = Append(cq, m),
         m.thread = cur, m.call = CallOf(cur), m.val = v,
         m.kind = "error" <=> v = None,
         m.kind = "completion" => m.call.op \in {"read", "write"},
         m.kind = "answer" => IsAlloc(m.call) \/ IsSend(m.call),
         v # None /\ ~IsRead(m.call) => v = "ok",
         local' = IF m.call.op = "read" /\ v # None THEN [local EXCEPT ![cur] = v]
                                                    ELSE local,
         mem' \in [Addrs -> Vals \ {None}], conn' \in BOOLEAN,
         UNCHANGED <<pc, waiting, done, recv, known, worker, infos, cqpc>>
  PROVE  Inv'
  <1>1. /\ cur \in Threads /\ waiting[cur] /\ wpc = "wait" /\ effect[cur] = None
        /\ m.call \in Calls /\ m.call.addr \in Addrs /\ sq' = << >>
    BY HeadOfSq
  <1>2. \A u \in Threads : CallOf(u)' = CallOf(u)
    BY DEF CallOf
  <1>3. Types'
    <2>1. sq' \in Seq(Requests)
      BY <1>1, EmptySeq
    <2>2. cq' \in Seq(Answers)
      BY DEF Inv, Types
    <2>3. local' \in [Threads -> Vals] /\ effect' \in [Threads -> Vals]
      BY <1>1 DEF Inv, Types
    <2>4. QED
      BY <2>1, <2>2, <2>3 DEF Inv, Types, worker, infos
  <1>4. /\ effect'[cur] = v /\ \A u \in Threads : u # cur => effect'[u] = effect[u]
        /\ \A u \in Threads : u # cur => local'[u] = local[u]
        /\ m.call.op = "read" /\ v # None => local'[cur] = v
        /\ v = None => local'[cur] = local[cur]
    BY <1>1 DEF Inv, Types
  <1>5. ~recv[cur] /\ ~done[cur]
    BY <1>1 DEF Inv, CallersOK, CallerOK
  <1>6. CallersOK'
    <2> SUFFICES ASSUME NEW u \in Threads PROVE CallerOK(u)'
      BY DEF CallersOK
    <2>1. CallerOK(u)
      BY DEF Inv, CallersOK
    <2>2. CASE u = cur
      <3>1. /\ pc[u] <= Len(Program[u]) /\ (waiting[u] => pc[u] < Len(Program[u]))
            /\ waiting[u] /\ ~IsAlloc(CallOf(u)) => CallOf(u).addr \in known
        BY <2>1 DEF CallerOK
      <3>2. /\ v = None /\ m.call.op = "malloc" => copied[m.call.addr] = 0
            /\ m.call.op = "read" => local[cur] = Unread
        BY <1>1, <2>1, <2>2 DEF CallerOK
      <3>3. QED
        BY <1>1, <1>2, <1>4, <1>5, <2>2, <3>1, <3>2 DEF CallerOK, worker, infos
    <2>3. CASE u # cur
      BY <1>2, <1>4, <2>1, <2>3 DEF CallerOK, worker, infos
    <2>4. QED
      BY <2>2, <2>3
  <1>7. \A i \in DOMAIN workList : workList[i] \in Threads /\ workList[i] # cur
    BY <1>1 DEF Inv, Types, WorkOK
  <1>8. m.call.op \in {"read", "write"} => ~taskDone
    BY <1>1 DEF Inv, WorkOK
  <1>9. WorkOK'
    BY <1>1, <1>2, <1>4, <1>7, <1>8 DEF Inv, WorkOK, worker
  <1>10. SentOK' /\ FlagsOK'
    BY <1>1, <1>2 DEF Inv, SentOK, FlagsOK, worker, infos
  <1>11. SqOK'
    <2>1. sq' = << >>
      BY HeadOfSq
    <2>2. QED
      BY <2>1 DEF SqOK
  <1>12. Mine(m)'
    <2>1. m.call.op = "malloc" => copied[m.call.addr] = 0
      BY <1>1 DEF Inv, CallersOK, CallerOK
    <2>2. m.kind \in {"completion", "answer", "error"}
      BY DEF Answers
    <2>3. QED
      BY <1>1, <1>2, <1>4, <1>5, <1>8, <2>1, <2>2 DEF Mine, worker, infos
  <1>13. CqOK'
    BY <1>4, <1>12, AnsweredCq DEF worker, infos
  <1>14. QED
    BY <1>3, <1>6, <1>9, <1>10, <1>11, <1>13 DEF Inv

(* The entry Answer appends to the completion queue. *)
LEMMA AnswerEntry ==
  ASSUME Inv, sq # << >>, NEW v \in Vals, NEW k \in {"completion", "answer", "error"},
         effect'[cur] = v, Answer(k)
  PROVE  \E m \in Answers : /\ m.thread = cur /\ m.call = CallOf(cur)
                            /\ m.kind = k /\ m.val = v
                            /\ cq' = Append(cq, m)
  <1> DEFINE m == [thread |-> cur, call |-> CallOf(cur), kind |-> k, val |-> v]
  <1>1. cq' = Append(cq, m)
    BY HeadOfSq DEF Answer
  <1>2. m \in Answers
    BY HeadOfSq DEF Answers
  <1>3. QED
    BY <1>1, <1>2

LEMMA NicAccessPreserves ==
  ASSUME Inv, NicAccess
  PROVE  Inv'
  <1> DEFINE c == CallOf(cur)
  <1>1. /\ sq # << >> /\ Head(sq).thread = cur /\ Head(sq).call = c
        /\ cur \in Threads /\ c \in Calls /\ c.addr \in Addrs
    BY HeadOfSq DEF NicAccess
  <1>2. /\ c.op \in {"read", "write"}
        /\ mem' = IF c.op = "write" THEN [mem EXCEPT ![c.addr] = c.val] ELSE mem
        /\ local' = IF c.op = "read" THEN [local EXCEPT ![cur] = mem[c.addr]] ELSE local
        /\ effect' = [effect EXCEPT ![cur] = IF c.op = "read" THEN mem[c.addr] ELSE "ok"]
        /\ Answer("completion")
    BY <1>1 DEF NicAccess, TakesEffect
  <1>3. PICK v \in Vals \ {None} :
          /\ v = (IF c.op = "read" THEN mem[c.addr] ELSE "ok")
          /\ effect' = [effect EXCEPT ![cur] = v]
    <2>1. (IF c.op = "read" THEN mem[c.addr] ELSE "ok") \in Vals \ {None}
      BY <1>1 DEF Inv, Types, Vals, None
    <2>2. QED
      BY <1>2, <2>1
  <1>4. effect'[cur] = v
    BY <1>1, <1>3 DEF Inv, Types
  <1>5. PICK m \in Answers : /\ m.thread = cur /\ m.call = c
                             /\ m.kind = "completion" /\ m.val = v
                             /\ cq' = Append(cq, m)
    BY <1>1, <1>2, <1>4, AnswerEntry
  <1>6. mem' \in [Addrs -> Vals \ {None}]
    <2>1. c.op = "write" => c.val \in Vals \ {None}
      BY <1>1, CallFacts
    <2>2. QED
      BY <1>1, <1>2, <2>1 DEF Inv, Types
  <1>7. local' = IF m.call.op = "read" /\ v # None THEN [local EXCEPT ![cur] = v] ELSE local
    BY <1>2, <1>3, <1>5
  <1>8. ~IsRead(c) => v = "ok"
    BY <1>3 DEF IsRead
  <1>9. /\ conn' \in BOOLEAN /\ sq' = Tail(sq)
        /\ UNCHANGED <<pc, waiting, done, recv, known, worker, infos, cqpc>>
    BY <1>2 DEF NicAccess, Answer, Inv, Types
  <1>10. QED
    BY <1>1, <1>2, <1>3, <1>5, <1>6, <1>7, <1>8, <1>9, ServedPreserves

LEMMA ServeAllocPreserves ==
  ASSUME Inv, ServeAlloc
  PROVE  Inv'
  <1> DEFINE c == CallOf(cur)
  <1>1. /\ sq # << >> /\ Head(sq).thread = cur /\ Head(sq).call = c
        /\ cur \in Threads /\ c \in Calls
    BY HeadOfSq DEF ServeAlloc
  <1>2. /\ IsAlloc(c)
        /\ \/ mem' = [a \in Addrs |-> IF a \in Given(c) THEN Zeros ELSE mem[a]]
           \/ mem' = mem
        /\ effect' = [effect EXCEPT ![cur] = "ok"]
        /\ Answer("answer")
    BY <1>1 DEF ServeAlloc, TakesEffect
  <1>3. effect'[cur] = "ok" /\ "ok" \in Vals /\ "ok" # None /\ Zeros \in Vals \ {None}
    BY <1>1, <1>2 DEF Inv, Types, Vals, None, Zeros
  <1>4. PICK m \in Answers : /\ m.thread = cur /\ m.call = c
                             /\ m.kind = "answer" /\ m.val = "ok"
                             /\ cq' = Append(cq, m)
    BY <1>1, <1>2, <1>3, AnswerEntry
  <1>5. mem' \in [Addrs -> Vals \ {None}]
    BY <1>2, <1>3 DEF Inv, Types
  <1>6. QED
    BY <1>1, <1>2, <1>3, <1>4, <1>5, ServedPreserves
    DEF ServeAlloc, Answer, IsAlloc, Inv, Types, callers

LEMMA ServeSendPreserves ==
  ASSUME Inv, ServeSend
  PROVE  Inv'
  <1> DEFINE c == CallOf(cur)
  <1>1. /\ sq # << >> /\ Head(sq).thread = cur /\ Head(sq).call = c
        /\ cur \in Threads /\ c \in Calls /\ c.addr \in Addrs
    BY HeadOfSq DEF ServeSend
  <1>2. /\ IsSend(c)
        /\ mem' = IF c.op = "sendw" THEN [mem EXCEPT ![c.addr] = c.val] ELSE mem
        /\ effect' = [effect EXCEPT ![cur] = IF c.op = "sendr" THEN mem[c.addr] ELSE "ok"]
        /\ Answer("answer")
    BY <1>1 DEF ServeSend, TakesEffect
  <1>3. PICK v \in Vals \ {None} :
          /\ v = (IF c.op = "sendr" THEN mem[c.addr] ELSE "ok")
          /\ effect' = [effect EXCEPT ![cur] = v]
    <2>1. (IF c.op = "sendr" THEN mem[c.addr] ELSE "ok") \in Vals \ {None}
      BY <1>1 DEF Inv, Types, Vals, None
    <2>2. QED
      BY <1>2, <2>1
  <1>4. effect'[cur] = v
    BY <1>1, <1>3 DEF Inv, Types
  <1>5. PICK m \in Answers : /\ m.thread = cur /\ m.call = c
                             /\ m.kind = "answer" /\ m.val = v
                             /\ cq' = Append(cq, m)
    BY <1>1, <1>2, <1>4, AnswerEntry
  <1>6. mem' \in [Addrs -> Vals \ {None}]
    <2>1. c.op = "sendw" => c.val \in Vals \ {None}
      BY <1>1, CallFacts
    <2>2. QED
      BY <1>1, <1>2, <2>1 DEF Inv, Types
  <1>7. QED
    <2>1. /\ sq' = Tail(sq) /\ UNCHANGED <<local, worker, infos, cqpc, conn>>
          /\ UNCHANGED <<pc, waiting, done, recv, known>>
      BY <1>2 DEF ServeSend, Answer, callers
    <2>2. m.call.op # "read" /\ v # None /\ IsSend(m.call) /\ m.call = CallOf(cur)
      BY <1>2, <1>3, <1>5 DEF IsSend
    <2>3. ~IsRead(m.call) => v = "ok"
      BY <1>3, <1>5 DEF IsRead
    <2>4. conn' \in BOOLEAN
      BY <2>1 DEF Inv, Types
    <2>5. m.kind = "answer"
      BY <1>5
    <2>6. QED
      BY <1>1, <1>3, <1>5, <1>6, <2>1, <2>2, <2>3, <2>4, <2>5, ServedPreserves

(* A request that fails has no effect. *)
LEMMA ServeFailsPreserves ==
  ASSUME Inv, NicDenies \/ ServeAllocFails
  PROVE  Inv'
  <1> DEFINE c == CallOf(cur)
  <1>1. /\ sq # << >> /\ cur \in Threads /\ effect[cur] = None
    BY HeadOfSq DEF NicDenies, ServeAllocFails
  <1>2. effect' = [effect EXCEPT ![cur] = None] /\ effect'[cur] = None /\ None \in Vals
    BY <1>1 DEF NicDenies, ServeAllocFails, Inv, Types, Vals
  <1>3. Answer("error")
    BY DEF NicDenies, ServeAllocFails
  <1>4. PICK m \in Answers : /\ m.thread = cur /\ m.call = c
                             /\ m.kind = "error" /\ m.val = None
                             /\ cq' = Append(cq, m)
    BY <1>1, <1>2, <1>3, AnswerEntry
  <1>5. /\ mem' \in [Addrs -> Vals \ {None}] /\ conn' \in BOOLEAN /\ sq' = Tail(sq)
        /\ UNCHANGED <<pc, waiting, done, recv, known, worker, infos, cqpc>>
        /\ local' = local
    BY <1>3 DEF NicDenies, ServeAllocFails, Inv, Types, callers, Answer
  <1>6. QED
    BY <1>1, <1>2, <1>4, <1>5, ServedPreserves

(* The entry the completion handler is at. *)
LEMMA HeadOfCq ==
  ASSUME Inv, cq # << >>
  PROVE  /\ Head(cq) = cq[1] /\ cq[1] \in Answers /\ 1 \in DOMAIN cq
         /\ cq[1].call \in Calls /\ cq[1].call.addr \in Addrs /\ cq[1].thread \in Threads
         /\ Left(cq[1]) \/ Mine(cq[1])
         /\ ~Left(cq[1]) => sq = << >> /\ DOMAIN cq = {1} /\ Tail(cq) = << >>
  <1>1. cq \in Seq(Answers) /\ Len(cq) \in Nat /\ Len(cq) # 0 /\ DOMAIN cq = 1 .. Len(cq)
    BY DEF Inv, Types
  <1>2. Head(cq) = cq[1] /\ 1 \in DOMAIN cq
    BY <1>1
  <1>3. Left(cq[1]) \/ Mine(cq[1])
    BY <1>2 DEF Inv, CqOK
  <1>4. ASSUME ~Left(cq[1])
        PROVE  sq = << >> /\ Len(cq) = 1
    <2>1. sq = << >>
      BY <1>2, <1>4 DEF Inv, SqOK
    <2>2. 2 \notin DOMAIN cq
      BY <1>4 DEF Inv, CqOK
    <2>3. QED
      BY <1>1, <2>1, <2>2
  <1>5. Len(cq) = 1 => DOMAIN cq = {1} /\ Tail(cq) = << >>
    BY <1>1, TailOfOne
  <1>6. QED
    BY <1>2, <1>3, <1>4, <1>5, CqEntries DEF Inv

LEMMA CompleteWritePreserves ==
  ASSUME Inv, CompleteWrite
  PROVE  Inv'
  <1> DEFINE c == CallOf(cur)
  <1>1. /\ Mine(cq[1]) /\ sq = << >> /\ DOMAIN cq = {1}
        /\ cq[1].call.addr \in Addrs /\ Head(cq) = cq[1] /\ cq # << >>
        /\ cq[1].kind = "completion" /\ cq[1].call.op = "write"
    BY HeadOfCq DEF CompleteWrite, Handling, Left
  <1>2. /\ wpc = "wait" /\ cq[1].call = c
        /\ writeFlag' = [writeFlag EXCEPT ![c.addr] = FALSE]
    BY <1>1 DEF Mine, CompleteWrite
  <1>3. Types'
    BY DEF Inv, Types, CompleteWrite, callers, worker
  <1>4. CallersOK'
    BY DEF Inv, CallersOK, CallerOK, CallOf, CompleteWrite, callers, worker
  <1>5. WorkOK'
    BY DEF Inv, WorkOK, CallOf, CompleteWrite, callers, worker
  <1>6. SentOK' /\ FlagsOK'
    <2>1. \A a \in Addrs : writeFlag'[a] => writeFlag[a]
      BY <1>2 DEF Inv, Types
    <2>2. QED
      BY <1>2, <2>1 DEF Inv, SentOK, FlagsOK, CallOf, CompleteWrite, callers, worker
  <1>7. SqOK'
    BY <1>1 DEF Inv, SqOK, CompleteWrite
  <1>8. CqOK'
    <2>1. cq' = cq /\ cqpc' = "flag"
      BY DEF CompleteWrite
    <2>2. Mine(cq[1])' /\ Len(cq) = 1
      BY <1>1, <2>1 DEF Mine, CallOf, CompleteWrite, callers, worker, Inv, Types
    <2>3. ~writeFlag'[cq[1].call.addr]
      BY <1>1, <1>2 DEF Inv, Types
    <2>4. QED
      BY <1>1, <2>1, <2>2, <2>3 DEF CqOK
  <1>9. QED
    BY <1>3, <1>4, <1>5, <1>6, <1>7, <1>8 DEF Inv

LEMMA CompletePreserves ==
  ASSUME Inv, Complete
  PROVE  Inv'
  <1> DEFINE c == CallOf(cur)
  <1>1. /\ Mine(cq[1]) /\ sq = << >> /\ Tail(cq) = << >>
        /\ cq[1].call.addr \in Addrs /\ Head(cq) = cq[1]
        /\ cq[1].kind = "completion"
    BY HeadOfCq DEF Complete, Handling, Left
  <1>2. /\ wpc = "wait" /\ cq[1].call = c /\ c.op \in {"read", "write"}
        /\ effect[cur] # None
    BY <1>1 DEF Mine
  <1>3. \A a \in Addrs : ~writeFlag[a]
    <2>1. CASE c.op = "read"
      BY <1>2, <2>1 DEF Inv, FlagsOK
    <2>2. CASE c.op = "write"
      <3>1. ~writeFlag[c.addr]
        BY <1>1, <1>2, <2>2 DEF Complete, Inv, CqOK
      <3>2. QED
        BY <1>2, <3>1 DEF Inv, FlagsOK
    <2>3. QED
      BY <1>2, <2>1, <2>2
  <1>4. Types'
    <2>1. cq' \in Seq(Answers)
      BY <1>1, EmptySeq DEF Complete
    <2>2. QED
      BY <2>1 DEF Inv, Types, Complete, callers, infos
  <1>5. CallersOK'
    BY DEF Inv, CallersOK, CallerOK, CallOf, Complete, callers, infos
  <1>6. WorkOK'
    BY <1>2 DEF Inv, WorkOK, CallOf, Complete, callers
  <1>7. SentOK' /\ FlagsOK'
    BY <1>2, <1>3 DEF SentOK, FlagsOK, Complete, infos
  <1>8. SqOK'
    BY <1>1 DEF Inv, SqOK, Complete
  <1>9. CqOK'
    <2>1. cq' = << >> /\ cqpc' # "flag"
      BY <1>1 DEF Complete
    <2>2. QED
      BY <2>1 DEF CqOK
  <1>10. QED
    BY <1>4, <1>5, <1>6, <1>7, <1>8, <1>9 DEF Inv

LEMMA IgnoreErrorPreserves ==
  ASSUME Inv, IgnoreError
  PROVE  Inv'
  <1>1. /\ sq = << >> /\ Tail(cq) = << >> /\ cqpc # "flag"
    BY HeadOfCq DEF IgnoreError, Handling, Left, Inv, CqOK, Types
  <1>2. Types'
    <2>1. cq' \in Seq(Answers)
      BY <1>1, EmptySeq DEF IgnoreError
    <2>2. QED
      BY <2>1 DEF Inv, Types, IgnoreError, callers, worker, infos
  <1>3. CallersOK'
    BY DEF Inv, CallersOK, CallerOK, CallOf, IgnoreError, callers, worker, infos
  <1>4. WorkOK'
    BY DEF Inv, WorkOK, CallOf, IgnoreError, callers, worker
  <1>5. SentOK' /\ FlagsOK'
    BY DEF Inv, SentOK, FlagsOK, SentCall, CallOf, IgnoreError, callers, worker, infos
  <1>6. SqOK'
    BY <1>1 DEF Inv, SqOK, IgnoreError
  <1>7. CqOK'
    <2>1. cq' = << >> /\ cqpc' # "flag"
      BY <1>1 DEF IgnoreError
    <2>2. QED
      BY <2>1 DEF CqOK
  <1>8. QED
    BY <1>2, <1>3, <1>4, <1>5, <1>6, <1>7 DEF Inv

LEMMA AnswerReceivedPreserves ==
  ASSUME Inv, AnswerReceived
  PROVE  Inv'
  <1> DEFINE c == CallOf(cur)
  <1>1. /\ Mine(cq[1]) /\ sq = << >> /\ Tail(cq) = << >> /\ cqpc # "flag"
        /\ Head(cq) = cq[1] /\ cq[1].kind = "answer" /\ cq[1].val \in Vals
        /\ cq[1].call.op # "malloc"
    BY HeadOfCq DEF AnswerReceived, Handling, Left, Inv, CqOK, Types, Answers
  <1>2. /\ wpc = "wait" /\ cq[1].call = c /\ cq[1].thread = cur
        /\ effect[cur] # None /\ cq[1].val = effect[cur] /\ waiting[cur]
        /\ cur \in Threads /\ c \in Calls /\ c.op # "read"
    <2>1. /\ wpc = "wait" /\ cq[1].call = c /\ cq[1].thread = cur
          /\ effect[cur] # None /\ cq[1].val = effect[cur] /\ c.op # "read"
      BY <1>1 DEF Mine, IsAlloc, IsSend
    <2>2. waiting[cur] /\ cur \in Threads
      BY <2>1 DEF Inv, WorkOK, Types
    <2>3. QED
      BY <2>1, <2>2, CallOfFacts DEF Inv, CallersOK
  <1>3. /\ recv' = [recv EXCEPT ![cur] = TRUE]
        /\ local' = IF c.op = "sendr" THEN [local EXCEPT ![cur] = effect[cur]] ELSE local
        /\ copied' = IF IsAlloc(c)
                     THEN [a \in Addrs |-> IF a \in Given(c) THEN 3 ELSE copied[a]]
                     ELSE copied
    BY <1>1, <1>2 DEF AnswerReceived
  <1>4. Types'
    <2>1. cq' \in Seq(Answers)
      BY <1>1, EmptySeq DEF AnswerReceived
    <2>2. copied' \in [Addrs -> 0 .. 3]
      BY <1>3 DEF Inv, Types
    <2>3. local' \in [Threads -> Vals] /\ recv' \in [Threads -> BOOLEAN]
      BY <1>2, <1>3 DEF Inv, Types
    <2>4. QED
      BY <2>1, <2>2, <2>3 DEF Inv, Types, AnswerReceived, worker
  <1>5. \A u \in Threads : CallOf(u)' = CallOf(u)
    BY DEF CallOf, AnswerReceived
  <1>6. \A d \in Calls : d.op = "malloc" => copied'[d.addr] = copied[d.addr]
    <2> SUFFICES ASSUME NEW d \in Calls, d.op = "malloc"
                 PROVE  copied'[d.addr] = copied[d.addr]
      OBVIOUS
    <2>1. d.addr \in Addrs /\ d.addr \notin {"buff", "mate"}
      BY CallFacts, ProgramAssumption
    <2>2. IsAlloc(c) => Given(c) = {"buff", "mate"}
      BY <1>1, <1>2 DEF IsAlloc, Given
    <2>3. QED
      BY <1>3, <2>1, <2>2
  <1>7. CallersOK'
    <2> SUFFICES ASSUME NEW u \in Threads PROVE CallerOK(u)'
      BY DEF CallersOK
    <2>1. CallerOK(u)
      BY DEF Inv, CallersOK
    <2>2. waiting[u] => CallOf(u) \in Calls
      BY <2>1, CallOfFacts DEF Inv
    <2>3. CASE u = cur
      <3>1. recv'[u] = TRUE /\ (c.op = "sendr" => local'[u] = effect[u])
            /\ (c.op # "sendr" => local'[u] = local[u])
        BY <1>2, <1>3, <2>3 DEF Inv, Types
      <3>2. QED
        BY <1>2, <1>5, <2>1, <2>3, <3>1 DEF CallerOK, AnswerReceived, worker
    <2>4. CASE u # cur
      <3>1. recv'[u] = recv[u] /\ local'[u] = local[u]
        BY <1>3, <2>4 DEF Inv, Types
      <3>2. QED
        BY <1>5, <1>6, <2>1, <2>2, <2>4, <3>1 DEF CallerOK, AnswerReceived, worker
    <2>5. QED
      BY <2>3, <2>4
  <1>8. WorkOK'
    BY DEF Inv, WorkOK, CallOf, AnswerReceived, worker
  <1>9. SentOK' /\ FlagsOK'
    BY DEF Inv, SentOK, FlagsOK, SentCall, CallOf, AnswerReceived, worker
  <1>10. SqOK'
    BY <1>1 DEF Inv, SqOK, AnswerReceived
  <1>11. CqOK'
    <2>1. cq' = << >> /\ cqpc' # "flag"
      BY <1>1 DEF AnswerReceived
    <2>2. QED
      BY <2>1 DEF CqOK
  <1>12. QED
    BY <1>4, <1>7, <1>8, <1>9, <1>10, <1>11 DEF Inv

LEMMA CopyMrPreserves ==
  ASSUME Inv, CopyMr
  PROVE  Inv'
  <1> DEFINE a == cq[1].call.addr
  <1>1. /\ Head(cq) = cq[1] /\ cq[1] \in Answers /\ 1 \in DOMAIN cq /\ cq # << >>
        /\ cq[1].call \in Calls /\ a \in Addrs
        /\ cq[1].kind = "answer" /\ cq[1].call.op = "malloc"
        /\ Left(cq[1]) \/ Mine(cq[1])
    BY HeadOfCq DEF CopyMr, Handling
  <1>2. copied[a] \in 0 .. 2
    <2>1. copied[a] \in 0 .. 3
      BY <1>1 DEF Inv, Types
    <2>2. copied[a] <= 2
      BY <1>1, <2>1 DEF Left, Mine
    <2>3. QED
      BY <2>1, <2>2
  <1>3. /\ copied' = [copied EXCEPT ![a] = copied[a] + 1]
        /\ cq' = IF copied[a] = 2 THEN Tail(cq) ELSE cq
        /\ cqpc # "flag"
    BY <1>1 DEF CopyMr, Inv, CqOK, Types
  <1>4. copied' \in [Addrs -> 0 .. 3]
    BY <1>1, <1>2, <1>3 DEF Inv, Types
  <1>5. Types'
    <2>1. cq' \in Seq(Answers)
      BY <1>1, <1>3 DEF Inv, Types
    <2>2. QED
      BY <1>4, <2>1 DEF Inv, Types, CopyMr, callers, worker
  <1>6. \A u \in Threads : CallOf(u)' = CallOf(u)
    BY DEF CallOf, CopyMr, callers
  <1>7. CallersOK'
    <2> SUFFICES ASSUME NEW u \in Threads PROVE CallerOK(u)'
      BY DEF CallersOK
    <2>1. CallerOK(u)
      BY DEF Inv, CallersOK
    <2>2. ASSUME waiting[u], effect[u] = None, CallOf(u).op = "malloc"
          PROVE  copied'[CallOf(u).addr] = 0
      <3>1. copied[CallOf(u).addr] = 0
        BY <2>1, <2>2 DEF CallerOK
      <3>2. CallOf(u).addr \in Addrs
        BY <2>1, <2>2, CallOfFacts, CallFacts DEF Inv
      <3>3. CallOf(u).addr # a
        <4>1. CASE Left(cq[1])
          BY <3>1, <4>1 DEF Left
        <4>2. CASE Mine(cq[1])
          <5>1. /\ cq[1].call = CallOf(cur) /\ effect[cur] # None
                /\ waiting[cur] /\ cur \in Threads
            BY <1>1, <4>2 DEF Mine, Inv, WorkOK, Types
          <5>2. u # cur
            BY <2>2, <5>1
          <5>3. /\ pc[u] + 1 \in DOMAIN Program[u]
                /\ pc[cur] + 1 \in DOMAIN Program[cur]
            BY <2>1, <2>2, <5>1, CallOfFacts DEF Inv, CallersOK
          <5>4. QED
            BY <1>1, <2>2, <5>1, <5>2, <5>3, ProgramAssumption DEF CallOf
        <4>3. QED
          BY <1>1, <4>1, <4>2
      <3>4. QED
        BY <1>3, <3>1, <3>2, <3>3 DEF Inv, Types
    <2>3. QED
      BY <1>6, <2>1, <2>2 DEF CallerOK, CopyMr, callers, worker
  <1>8. WorkOK'
    BY DEF Inv, WorkOK, CallOf, CopyMr, callers, worker
  <1>9. SentOK' /\ FlagsOK'
    BY DEF Inv, SentOK, FlagsOK, SentCall, CallOf, CopyMr, callers, worker
  <1>10. CASE copied[a] # 2
    <2>1. ~Left(cq[1]) /\ cq' = cq
      BY <1>3, <1>10 DEF Left
    <2>2. Mine(cq[1]) /\ sq = << >> /\ DOMAIN cq = {1} /\ Len(cq) = 1
      BY <1>1, <2>1, HeadOfCq DEF Inv, Types
    <2>3. SqOK'
      BY <2>2 DEF Inv, SqOK, CopyMr
    <2>4. copied'[a] <= 2
      BY <1>1, <1>2, <1>3, <1>10 DEF Inv, Types
    <2>5. Mine(cq[1])'
      <3>1. CallOf(cur)' = CallOf(cur)
        BY <1>6 DEF Inv, Types, CopyMr, CallOf, callers, worker
      <3>2. QED
        BY <1>1, <2>1, <2>2, <2>4, <3>1 DEF Mine, CopyMr, callers, worker
    <2>6. CqOK'
      <3>1. cq' = cq /\ cqpc' # "flag" /\ DOMAIN cq' = {1} /\ Len(cq') = 1
        BY <1>3, <2>1, <2>2 DEF CopyMr
      <3>2. (cq[1].kind = "answer")'
        BY <1>1, <3>1
      <3>3. QED
        BY <2>5, <3>1, <3>2 DEF CqOK
    <2>7. QED
      BY <1>5, <1>7, <1>8, <1>9, <2>3, <2>6 DEF Inv
  <1>11. CASE copied[a] = 2
    <2>1. cq' = Tail(cq) /\ Len(cq) \in 1 .. 2 /\ cqpc' # "flag"
      BY <1>1, <1>3, <1>11, CqAtMostTwo DEF Inv, Types, CopyMr
    <2>2. CASE Len(cq) = 1
      <3>1. cq' = << >>
        <4>1. cq \in Seq(Answers)
          BY DEF Inv, Types
        <4>2. QED
          BY <2>1, <2>2, <4>1
      <3>2. SqOK'
        BY <3>1 DEF Inv, SqOK, CallOf, CopyMr, callers, worker
      <3>3. CqOK'
        BY <2>1, <3>1 DEF CqOK
      <3>4. QED
        BY <1>5, <1>7, <1>8, <1>9, <3>2, <3>3 DEF Inv
    <2>3. CASE Len(cq) = 2
      <3>1. 2 \in DOMAIN cq
        BY <2>3 DEF Inv, Types
      <3>2. PICK m \in Answers : m = cq[2]
        BY <3>1, CqEntries DEF Inv
      <3>3. Len(cq') = 1 /\ DOMAIN cq' = {1} /\ cq'[1] = m
        <4>1. cq \in Seq(Answers)
          BY DEF Inv, Types
        <4>2. Len(cq') = 1 /\ cq'[1] = cq[2] /\ DOMAIN cq' = {1}
          BY <2>1, <2>3, <4>1, TailOfTwo
        <4>3. QED
          BY <3>2, <4>2
      <3>4. /\ Mine(m)
            /\ m.kind = "answer" /\ m.call.op = "malloc" => copied[m.call.addr] = 0
            /\ m.kind = "completion" /\ m.call.op = "write" => writeFlag[m.call.addr]
        BY <1>3, <3>1, <3>2 DEF Inv, CqOK
      <3>5. sq = << >>
        BY <3>1 DEF Inv, SqOK
      <3>6. SqOK'
        BY <3>5 DEF Inv, SqOK, CopyMr
      <3>7. Mine(m)'
        <4>1. CallOf(cur)' = CallOf(cur)
          BY <1>6 DEF Inv, Types, CopyMr, CallOf, callers, worker
        <4>2. m.kind = "answer" /\ m.call.op = "malloc" => copied'[m.call.addr] <= 2
          <5>1. m.call.addr \in Addrs
            BY CallFacts DEF Answers
          <5>2. m.kind = "answer" /\ m.call.op = "malloc" => m.call.addr # a
            BY <1>11, <3>4
          <5>3. QED
            BY <1>3, <3>4, <5>1, <5>2 DEF Inv, Types
        <4>3. QED
          BY <3>4, <4>1, <4>2 DEF Mine, CopyMr, callers, worker
      <3>8. CqOK'
        <4>1. writeFlag' = writeFlag /\ cqpc' # "flag"
          BY <2>1 DEF CopyMr
        <4>2. \A i \in DOMAIN cq' : i = Len(cq') /\ Mine(cq[i])'
          BY <3>3, <3>7 DEF Mine
        <4>3. m.kind = "completion" /\ m.call.op = "write" => writeFlag'[m.call.addr]
          BY <3>4, <4>1
        <4>4. \A i \in DOMAIN cq' : cq'[i] = m
          BY <3>3
        <4>5. \A i \in DOMAIN cq' : i # 2
          BY <3>3
        <4>6. QED
          BY <4>1, <4>2, <4>3, <4>4, <4>5 DEF CqOK
      <3>9. QED
        BY <1>5, <1>7, <1>8, <1>9, <3>6, <3>8 DEF Inv
    <2>4. QED
      BY <2>1, <2>2, <2>3
  <1>12. QED
    BY <1>10, <1>11

----------------------------------------------------------------------------
LEMMA InitInv == Init => Inv
  <1> SUFFICES ASSUME Init PROVE Inv
    OBVIOUS
  <1>1. Types
    <2>1. workList \in Seq(Threads) /\ sq \in Seq(Requests) /\ cq \in Seq(Answers)
      BY EmptySeq DEF Init
    <2>2. None \in Vals /\ NoMem \in Vals \ {None}
      BY DEF Vals, None, NoMem
    <2>3. /\ pc \in [Threads -> Nat] /\ waiting \in [Threads -> BOOLEAN]
          /\ done \in [Threads -> BOOLEAN] /\ recv \in [Threads -> BOOLEAN]
      BY DEF Init
    <2>4. /\ local \in [Threads -> Vals] /\ effect \in [Threads -> Vals]
          /\ mem \in [Addrs -> Vals \ {None}]
      BY <2>2 DEF Init
    <2>5. writeFlag \in [Addrs -> BOOLEAN] /\ copied \in [Addrs -> 0 .. 3]
      BY DEF Init
    <2>6. QED
      BY <2>1, <2>3, <2>4, <2>5 DEF Init, Types
  <1>2. CallersOK
    BY ProgramAssumption DEF Init, CallersOK, CallerOK, None
  <1>3. WorkOK
    BY DEF Init, WorkOK
  <1>4. SentOK /\ FlagsOK
    BY DEF Init, SentOK, FlagsOK
  <1>5. SqOK
    BY DEF Init, SqOK
  <1>6. CqOK
    BY DEF Init, CqOK
  <1>7. QED
    BY <1>1, <1>2, <1>3, <1>4, <1>5, <1>6 DEF Inv

LEMMA StepInv ==
  ASSUME SendsLast, Inv, [Next]_vars
  PROVE  Inv'
  <1>1. CASE UNCHANGED vars
    <2>1. Types' /\ CallersOK'
      BY <1>1 DEF vars, Inv, Types, CallersOK, CallerOK, CallOf
    <2>2. WorkOK' /\ SentOK' /\ FlagsOK'
      BY <1>1 DEF vars, Inv, WorkOK, SentOK, FlagsOK, SentCall, CallOf
    <2>3. SqOK' /\ CqOK'
      BY <1>1 DEF vars, Inv, SqOK, CqOK, Left, Mine, CallOf
    <2>4. QED
      BY <2>1, <2>2, <2>3 DEF Inv
  <1>2. CASE \E t \in Threads : Caller(t)
    BY <1>2, CallPreserves, CallRefusedPreserves, ReturnPreserves DEF Caller
  <1>3. CASE Worker
    BY <1>3, TakePreserves, AllocStartPreserves, AllocFinishPreserves, RwStartPreserves,
       PostFailsPreserves, RwFinishPreserves, SendFinishPreserves, SendClearPreserves DEF Worker
  <1>4. CASE Neighbour
    BY <1>4, NicAccessPreserves, ServeFailsPreserves, ServeAllocPreserves,
       ServeSendPreserves DEF Neighbour
  <1>5. CASE Break \/ Stop
    BY <1>5, BreakPreserves, StopPreserves
  <1>6. CASE Handler
    BY <1>6, CompleteWritePreserves, CompletePreserves, CopyMrPreserves,
       AnswerReceivedPreserves, IgnoreErrorPreserves DEF Handler
  <1>7. QED
    BY <1>1, <1>2, <1>3, <1>4, <1>5, <1>6 DEF Next

LEMMA Invariant ==
  ASSUME SendsLast
  PROVE  Spec => []Inv
  <1>1. Init => Inv
    BY InitInv
  <1>2. Inv /\ [Next]_vars => Inv'
    BY StepInv
  <1>3. QED
    BY <1>1, <1>2, PTL DEF Spec

(***************************************************************************)
(* Every flag, pointer and queue of the client keeps its range, an address *)
(* that was handed out is in the hash table, and the queues hold at most   *)
(* one entry per thread and one more (mid_client_work.c:147-151, 214-215). *)
(***************************************************************************)
THEOREM WorkTypes ==
  ASSUME SendsLast
  PROVE  Spec => []TypeOK
  <1>1. Inv => TypeOK
    <2> SUFFICES ASSUME Inv PROVE TypeOK
      OBVIOUS
    <2>1. IsFiniteSet(Threads) /\ cur \in Threads
      BY ProgramAssumption DEF Inv, Types
    <2>2. Cardinality(Threads) \in Nat /\ Cardinality(Threads) >= 1
      BY <2>1, FS_CardinalityType, FS_EmptySet
    <2>3. Len(sq) + Len(cq) <= 2
      <3>1. /\ Len(sq) \in Nat /\ Len(sq) <= 1
            /\ Len(cq) \in 0 .. 2 /\ DOMAIN cq = 1 .. Len(cq)
        BY CqAtMostTwo DEF Inv, Types, SqOK
      <3>2. Len(sq) = 1 => Len(cq) <= 1
        <4>1. Len(sq) = 1 => sq # << >>
          BY EmptySeq
        <4>2. Len(cq) = 2 => 2 \in DOMAIN cq
          BY <3>1
        <4>3. QED
          BY <3>1, <4>1, <4>2 DEF Inv, SqOK
      <3>3. CASE Len(sq) = 1
        BY <3>1, <3>2, <3>3
      <3>4. CASE Len(sq) = 0
        BY <3>1, <3>4
      <3>5. QED
        BY <3>1, <3>3, <3>4
    <2>4. Len(sq) + Len(cq) <= 1 + Cardinality(Threads)
      BY <2>2, <2>3 DEF Inv, Types
    <2>5. Range(workList) \subseteq Threads
      BY DEF Inv, Types, Range
    <2>6. QED
      BY <2>4, <2>5 DEF Inv, Types, TypeOK
  <1>2. QED
    BY <1>1, Invariant, PTL

(***************************************************************************)
(* A call returns, and its work and its stack frame are gone, only after   *)
(* its work has left the list and was done: the worker never follows a     *)
(* pointer into a frame that is no longer there, as long as no thread      *)
(* calls on after a send (mid_rdma_top_api.c:52-56, 274-280).              *)
(***************************************************************************)
THEOREM FramesOutliveWork ==
  ASSUME SendsLast
  PROVE  Spec => []WorksAlive
  <1>1. Inv => WorksAlive
    BY DEF Inv, Types, WorkOK, WorksAlive, IsInjective, Range
  <1>2. QED
    BY <1>1, Invariant, PTL

LEMMA AtMostOne ==
  ASSUME NEW x, NEW T, T \subseteq {x}
  PROVE  Cardinality(T) <= 1
  <1>1. IsFiniteSet({x}) /\ Cardinality({x}) = 1
    BY FS_Singleton
  <1>2. Cardinality(T) <= Cardinality({x})
    BY <1>1, FS_Subset
  <1>3. QED
    BY <1>1, <1>2

(***************************************************************************)
(* A write that is posted and not completed has write_flag set, it is the  *)
(* only one for its address, and the flag is cleared before the worker is  *)
(* idle again (mid_client_work.c:325-329, 355-358).                        *)
(***************************************************************************)
THEOREM WritesGuarded ==
  ASSUME SendsLast
  PROVE  Spec => []WriteFlagGuards
  <1>1. Inv => WriteFlagGuards
    <2> SUFFICES ASSUME Inv, NEW a \in Addrs
                 PROVE  /\ Cardinality(WritesInFlight(a)) <= 1
                        /\ WritesInFlight(a) # {} => writeFlag[a]
                        /\ writeFlag[a] /\ WritesInFlight(a) = {} => wpc # "idle" \/ ~conn
      BY DEF WriteFlagGuards
    <2>1. /\ Len(sq) \in 0 .. 1 /\ DOMAIN sq = 1 .. Len(sq)
          /\ Len(cq) \in 0 .. 2 /\ DOMAIN cq = 1 .. Len(cq)
      <3>1. sq \in Seq(Requests) /\ cq \in Seq(Answers) /\ Len(sq) <= 1
        BY DEF Inv, Types, SqOK
      <3>2. Len(sq) \in Nat /\ DOMAIN sq = 1 .. Len(sq) /\ DOMAIN cq = 1 .. Len(cq)
        BY <3>1, LenProperties
      <3>3. QED
        BY <3>1, <3>2, CqAtMostTwo DEF Inv
    <2>2. ASSUME sq # << >>
          PROVE  Cardinality(WritesInFlight(a)) <= 1 /\ (WritesInFlight(a) # {} => writeFlag[a])
      <3>1. WritesInFlight(a) \subseteq {1}
        <4>1. \A i \in DOMAIN cq : cq[i].kind # "completion"
          BY <2>2 DEF Inv, SqOK, Left
        <4>2. QED
          BY <2>1, <4>1 DEF WritesInFlight
      <3>2. WritesInFlight(a) # {} => writeFlag[a]
        BY <2>1, <2>2, <3>1 DEF WritesInFlight, Inv, SqOK, Left
      <3>3. QED
        BY <3>1, <3>2, AtMostOne
    <2>3. ASSUME sq = << >>
          PROVE  Cardinality(WritesInFlight(a)) <= 1 /\ (WritesInFlight(a) # {} => writeFlag[a])
      <3>1. Len(sq) = 0 /\ DOMAIN sq = {}
        BY <2>1, <2>3, EmptySeq
      <3>2. \A j \in DOMAIN cq : cq[j].kind = "completion" => j = Len(cq)
        BY DEF Inv, CqOK, Left
      <3>3. WritesInFlight(a) \subseteq {Len(cq)}
        BY <2>1, <3>1, <3>2 DEF WritesInFlight
      <3>4. WritesInFlight(a) # {} => writeFlag[a]
        BY <3>1 DEF WritesInFlight, Inv, CqOK
      <3>5. QED
        BY <3>3, <3>4, AtMostOne
    <2>4. writeFlag[a] => wpc # "idle"
      BY DEF Inv, FlagsOK
    <2>5. Cardinality(WritesInFlight(a)) <= 1 /\ (WritesInFlight(a) # {} => writeFlag[a])
      BY <2>2, <2>3
    <2>6. QED
      BY <2>4, <2>5
  <1>2. QED
    BY <1>1, Invariant, PTL

----------------------------------------------------------------------------
(* The refinement: what is queued, before and after a step. *)

Entries == [thread : Threads, call : Calls]

LEMMA QueuedFacts ==
  ASSUME Inv
  PROVE  /\ \A i \in DOMAIN workList : workList[i] \in Threads
         /\ \A t \in Threads : waiting[t] => Request(t) \in Entries
         /\ Listed \in Seq(Entries) /\ Len(Listed) = Len(workList)
         /\ Underway \in Seq(Entries) /\ Queued \in Seq(Entries)
  <1>1. workList \in Seq(Threads) /\ Len(workList) \in Nat /\ DOMAIN workList = 1 .. Len(workList)
    BY DEF Inv, Types
  <1>2. \A i \in DOMAIN workList : workList[i] \in Threads /\ waiting[workList[i]]
    BY <1>1 DEF Inv, WorkOK
  <1>3. \A t \in Threads : waiting[t] => Request(t) \in Entries
    BY CallOfFacts DEF Inv, CallersOK, Request, Entries
  <1>4. Listed \in Seq(Entries) /\ Len(Listed) = Len(workList)
    BY <1>1, <1>2, <1>3 DEF Listed
  <1>5. Underway \in Seq(Entries)
    <2>1. CASE wpc \in {"start", "wait", "crash"} /\ effect[cur] = None
      <3>1. Request(cur) \in Entries
        BY <1>3, <2>1 DEF Inv, Types, WorkOK
      <3>2. QED
        BY <2>1, <3>1 DEF Underway
    <2>2. QED
      BY <2>1, EmptySeq DEF Underway
  <1>6. Queued \in Seq(Entries)
    BY <1>4, <1>5, ConcatProperties DEF Queued
  <1>7. QED
    BY <1>2, <1>3, <1>4, <1>5, <1>6

(* Whatever is queued belongs to a thread that waits for its effect. *)
LEMMA QueuedWait ==
  ASSUME Inv, NEW i \in DOMAIN Queued
  PROVE  Queued[i].thread \in Threads /\ waiting[Queued[i].thread]
  <1>1. /\ Listed \in Seq(Entries) /\ Underway \in Seq(Entries)
        /\ Queued = Underway \o Listed
    BY QueuedFacts DEF Queued
  <1>2. \A j \in DOMAIN Listed : /\ Listed[j].thread \in Threads
                                 /\ waiting[Listed[j].thread]
    BY QueuedFacts DEF Listed, Request, Inv, WorkOK
  <1>3. \A j \in DOMAIN Underway : /\ Underway[j].thread \in Threads
                                   /\ waiting[Underway[j].thread]
    BY DEF Underway, Request, Inv, WorkOK, Types
  <1>4. i \in DOMAIN Underway \/ i - Len(Underway) \in DOMAIN Listed
    BY <1>1
  <1>5. Queued[i] = IF i \in DOMAIN Underway THEN Underway[i] ELSE Listed[i - Len(Underway)]
    BY <1>1
  <1>6. QED
    BY <1>2, <1>3, <1>4, <1>5

(* A step that leaves the works that wait for their effect where they are. *)
LEMMA QueuedStays ==
  ASSUME Inv, workList' = workList,
         (wpc \in {"start", "wait", "crash"} /\ effect[cur] = None)'
           <=> wpc \in {"start", "wait", "crash"} /\ effect[cur] = None,
         wpc \in {"start", "wait", "crash"} => cur' = cur,
         \A t \in Threads : waiting[t] /\ effect[t] = None => pc'[t] = pc[t]
  PROVE  Queued' = Queued
  <1>1. \A i \in DOMAIN workList : Request(workList[i])' = Request(workList[i])
    BY QueuedFacts DEF Inv, WorkOK, Request, CallOf
  <1>2. Listed' = Listed
    BY <1>1 DEF Listed
  <1>3. Underway' = Underway
    <2>1. CASE wpc \in {"start", "wait", "crash"} /\ effect[cur] = None
      <3>1. cur' = cur /\ Request(cur)' = Request(cur)
        BY <2>1 DEF Inv, WorkOK, Types, Request, CallOf
      <3>2. QED
        BY <2>1, <3>1 DEF Underway
    <2>2. CASE ~(wpc \in {"start", "wait", "crash"} /\ effect[cur] = None)
      BY <2>2 DEF Underway
    <2>3. QED
      BY <2>1, <2>2
  <1>4. QED
    BY <1>2, <1>3 DEF Queued

LEMMA AppendAsFunction ==
  ASSUME NEW S, NEW s \in Seq(S), NEW e \in S
  PROVE  Append(s, e) =
           [i \in 1 .. (Len(s) + 1) |-> IF i = Len(s) + 1 THEN e ELSE s[i]]
  <1>1. /\ Append(s, e) \in Seq(S) /\ Len(Append(s, e)) = Len(s) + 1
        /\ \A i \in 1 .. Len(s) : Append(s, e)[i] = s[i]
        /\ Append(s, e)[Len(s) + 1] = e
    BY AppendProperties
  <1>2. Append(s, e) \in [1 .. (Len(s) + 1) -> S] /\ Len(s) \in Nat
    BY <1>1, LenProperties
  <1>3. \A i \in 1 .. (Len(s) + 1) :
          Append(s, e)[i] = IF i = Len(s) + 1 THEN e ELSE s[i]
    BY <1>1, <1>2
  <1>4. Append(s, e) = [i \in 1 .. (Len(s) + 1) |-> Append(s, e)[i]]
    BY <1>2, Zenon
  <1>5. QED
    BY <1>3, <1>4

LEMMA CallInvokes ==
  ASSUME Inv, NEW t \in Threads, Call(t)
  PROVE  Memory!Invoke(t, CallOf(t)) /\ CallOf(t) \in Calls
  <1>1. ~waiting[t] /\ CallOf(t) \in Calls /\ effect[t] = None
    BY CallOfFacts DEF Inv, CallersOK, CallerOK, Call
  <1>2. ~Memory!Pending(t)
    BY <1>1, QueuedWait DEF Memory!Pending
  <1>3. Underway' = Underway
    BY DEF Call, Underway, Request, CallOf
  <1>4. Request(t) \in Entries
    BY <1>1 DEF Request, Entries
  <1>5. workList \in Seq(Threads) /\ workList' = Append(workList, t)
    BY DEF Inv, Types, Call
  <1>6. \A u : Request(u)' = Request(u)
    BY DEF Call, Request, CallOf
  <1>7. Listed' = Append(Listed, Request(t))
    <2>1. /\ Len(workList) \in Nat /\ DOMAIN workList = 1 .. Len(workList)
          /\ DOMAIN workList' = 1 .. (Len(workList) + 1)
          /\ \A i \in DOMAIN workList : workList'[i] = workList[i]
          /\ workList'[Len(workList) + 1] = t
      BY <1>5
    <2>2. /\ Listed \in Seq(Entries) /\ Len(Listed) = Len(workList)
          /\ DOMAIN Listed = 1 .. Len(workList)
      BY <2>1, QueuedFacts DEF Listed
    <2>3. Append(Listed, Request(t)) = [i \in 1 .. (Len(workList) + 1) |->
            IF i = Len(workList) + 1 THEN Request(t) ELSE Listed[i]]
      BY <1>4, <2>2, AppendAsFunction
    <2>4. Listed' = [i \in DOMAIN workList' |-> Request(workList'[i])]
      BY <1>6 DEF Listed
    <2>5. \A i \in 1 .. (Len(workList) + 1) :
            Request(workList'[i]) =
              IF i = Len(workList) + 1 THEN Request(t) ELSE Listed[i]
      BY <2>1 DEF Listed
    <2>6. QED
      BY <2>1, <2>3, <2>4, <2>5
  <1>8. Queued' = Append(Queued, Request(t))
    <2>1. PICK u \in Seq(Entries), w \in Seq(Entries) : u = Underway /\ w = Listed
      BY QueuedFacts
    <2>2. u \o Append(w, Request(t)) = Append(u \o w, Request(t))
      BY <1>4, ConcatAssociative, AppendIsConcat, ConcatProperties
    <2>3. QED
      BY <1>3, <1>7, <2>1, <2>2 DEF Queued
  <1>9. QED
    BY <1>1, <1>2, <1>8 DEF Memory!Invoke, Call, Request, network

LEMMA RefusedRefuses ==
  ASSUME Inv, NEW t \in Threads, CallRefused(t)
  PROVE  Memory!Refuse(t)
  <1>1. ~waiting[t] /\ effect[t] = None
    BY DEF Inv, CallersOK, CallerOK, CallRefused
  <1>2. ~Memory!Pending(t)
    BY <1>1, QueuedWait DEF Memory!Pending
  <1>3. Queued' = Queued
    BY <1>1, QueuedStays DEF CallRefused, worker, Inv, Types
  <1>4. QED
    BY <1>2, <1>3 DEF Memory!Refuse, CallRefused, network

LEMMA ReturnReturns ==
  ASSUME Inv, NEW t \in Threads, Return(t)
  PROVE  Memory!Return(t)
  <1>1. /\ waiting[t] /\ done[t] /\ effect[t] # None
        /\ ~(t = cur /\ wpc \in {"start", "wait", "crash"})
    BY DEF Inv, CallersOK, CallerOK, Return
  <1>2. CallOf(t) \in Calls
    BY <1>1, CallOfFacts DEF Inv, CallersOK
  <1>3. (IF IsRead(CallOf(t)) THEN local[t] ELSE "ok") = effect[t]
    BY <1>1 DEF Inv, CallersOK, CallerOK, IsRead
  <1>4. /\ workList' = workList /\ wpc' = wpc /\ cur' = cur
        /\ \A u \in Threads : u # t => effect'[u] = effect[u] /\ pc'[u] = pc[u]
    BY DEF Return, worker, Inv, Types
  <1>5. Queued' = Queued
    <2>1. wpc \in {"start", "wait", "crash"} => effect'[cur] = effect[cur]
      BY <1>1, <1>4 DEF Inv, Types
    <2>2. QED
      BY <1>1, <1>4, <2>1, QueuedStays
  <1>6. QED
    BY <1>1, <1>3, <1>5 DEF Memory!Return, Return, network

LEMMA TakeStutters ==
  ASSUME Inv, Take
  PROVE  Queued' = Queued
  <1>1. PICK w \in Seq(Threads) : w = workList
    BY DEF Inv, Types
  <1>2. /\ w # << >> /\ workList' = Tail(w) /\ cur' = Head(w)
        /\ wpc = "idle" /\ wpc' = "start" /\ effect' = effect /\ pc' = pc
    BY <1>1 DEF Take, callers
  <1>3. /\ Len(w) \in Nat \ {0} /\ DOMAIN w = 1 .. Len(w) /\ Head(w) = w[1]
        /\ Tail(w) \in Seq(Threads) /\ Len(Tail(w)) = Len(w) - 1
        /\ DOMAIN Tail(w) = 1 .. (Len(w) - 1)
        /\ \A i \in 1 .. (Len(w) - 1) : Tail(w)[i] = w[i + 1]
    BY <1>2
  <1>4. effect[w[1]] = None
    BY <1>1, <1>3 DEF Inv, WorkOK
  <1>5. \A u : Request(u)' = Request(u)
    BY <1>2 DEF Request, CallOf
  <1>6. Underway = << >> /\ Queued = Listed
    <2>1. Underway = << >>
      BY <1>2 DEF Underway
    <2>2. QED
      BY <2>1, QueuedFacts, ConcatEmptySeq DEF Queued
  <1>7. Underway' = <<Request(w[1])>>
    BY <1>2, <1>3, <1>4, <1>5 DEF Underway
  <1>8. Listed' = [i \in 1 .. (Len(w) - 1) |-> Request(w[i + 1])]
    BY <1>2, <1>3, <1>5 DEF Listed
  <1>9. Listed = [i \in 1 .. Len(w) |-> Request(w[i])]
    BY <1>1, <1>3 DEF Listed
  <1>10. \A i \in 1 .. Len(w) : Request(w[i]) \in Entries
    BY <1>1, <1>3, QueuedFacts DEF Inv, WorkOK
  <1>11. <<Request(w[1])>> \o [i \in 1 .. (Len(w) - 1) |-> Request(w[i + 1])]
           = [i \in 1 .. Len(w) |-> Request(w[i])]
    BY <1>3, <1>10
  <1>12. QED
    BY <1>6, <1>7, <1>8, <1>9, <1>11 DEF Queued

(* The step in which the neighbour or its NIC serves the request. *)
LEMMA ServedTakesEffect ==
  ASSUME Inv, sq # << >>, effect' = [effect EXCEPT ![cur] = Memory!Found(CallOf(cur))],
         mem' = Memory!MemAfter(CallOf(cur)), Memory!Found(CallOf(cur)) # None,
         UNCHANGED <<pc, workList, wpc, cur, out, conn>>
  PROVE  Memory!TakeEffect
  <1>1. /\ wpc = "wait" /\ effect[cur] = None /\ cur \in Threads
        /\ effect'[cur] # None /\ waiting[cur]
    BY DEF Inv, Types, SqOK, WorkOK
  <1>2. Underway = <<Request(cur)>> /\ Underway' = << >>
    BY <1>1 DEF Underway
  <1>3. Listed' = Listed
    BY DEF Listed, Request, CallOf
  <1>4. PICK r \in Entries, w \in Seq(Entries) : r = Request(cur) /\ w = Listed
    BY <1>1, QueuedFacts
  <1>5. <<r>> \o w # << >> /\ Head(<<r>> \o w) = r /\ Tail(<<r>> \o w) = w
    BY ConcatSimplifications
  <1>6. << >> \o w = w
    BY ConcatEmptySeq
  <1>7. Queued # << >> /\ Head(Queued) = Request(cur) /\ Queued' = Tail(Queued)
    BY <1>2, <1>3, <1>4, <1>5, <1>6 DEF Queued
  <1>8. Head(Queued).thread = cur /\ Head(Queued).call = CallOf(cur)
    BY <1>7 DEF Request
  <1>9. QED
    BY <1>7, <1>8 DEF Memory!TakeEffect

LEMMA NicAccessTakesEffect ==
  ASSUME Inv, NicAccess
  PROVE  Memory!TakeEffect
  <1> DEFINE c == CallOf(cur)
  <1>1. /\ sq # << >> /\ cur \in Threads /\ c \in Calls /\ c.addr \in Addrs
        /\ Head(sq).thread = cur /\ Head(sq).call = c
    BY HeadOfSq, CallFacts DEF NicAccess
  <1>2. c.op \in {"read", "write"}
    BY <1>1 DEF NicAccess
  <1>3. /\ Memory!Found(c) = (IF c.op = "read" THEN mem[c.addr] ELSE "ok")
        /\ Memory!Found(c) # None
    BY <1>1, <1>2 DEF Memory!Found, Inv, Types, None
  <1>4. mem' = Memory!MemAfter(c)
    BY <1>1, <1>2 DEF NicAccess, Memory!MemAfter
  <1>5. effect' = [effect EXCEPT ![cur] = Memory!Found(c)]
    BY <1>1, <1>3 DEF NicAccess, TakesEffect
  <1>6. UNCHANGED <<pc, workList, wpc, cur, out, conn>>
    BY DEF NicAccess, worker
  <1>7. QED
    BY <1>1, <1>3, <1>4, <1>5, <1>6, ServedTakesEffect

LEMMA ServeSendTakesEffect ==
  ASSUME Inv, ServeSend
  PROVE  Memory!TakeEffect
  <1> DEFINE c == CallOf(cur)
  <1>1. /\ sq # << >> /\ cur \in Threads /\ c \in Calls /\ c.addr \in Addrs
        /\ Head(sq).thread = cur /\ Head(sq).call = c
    BY HeadOfSq, CallFacts DEF ServeSend
  <1>2. c.op \in {"sendr", "sendw"}
    BY <1>1 DEF ServeSend, IsSend
  <1>3. /\ Memory!Found(c) = (IF c.op = "sendr" THEN mem[c.addr] ELSE "ok")
        /\ Memory!Found(c) # None
    BY <1>1, <1>2 DEF Memory!Found, Inv, Types, None
  <1>4. mem' = Memory!MemAfter(c)
    BY <1>1, <1>2 DEF ServeSend, Memory!MemAfter
  <1>5. effect' = [effect EXCEPT ![cur] = Memory!Found(c)]
    BY <1>1, <1>3 DEF ServeSend, TakesEffect
  <1>6. UNCHANGED <<pc, workList, wpc, cur, out, conn>>
    BY DEF ServeSend, callers, worker
  <1>7. QED
    BY <1>1, <1>3, <1>4, <1>5, <1>6, ServedTakesEffect

LEMMA ServeAllocTakesEffect ==
  ASSUME Inv, ServeAlloc
  PROVE  Memory!TakeEffect
  <1> DEFINE c == CallOf(cur)
  <1>1. /\ sq # << >> /\ cur \in Threads /\ c \in Calls /\ c.addr \in Addrs
        /\ Head(sq).thread = cur /\ Head(sq).call = c
    BY HeadOfSq, CallFacts DEF ServeAlloc
  <1>2. c.op \in {"malloc", "buff"} /\ mem \in [Addrs -> Vals \ {None}]
    BY <1>1 DEF ServeAlloc, IsAlloc, Inv, Types
  <1>3. Memory!Found(c) = "ok" /\ Memory!Found(c) # None
    BY <1>2 DEF Memory!Found, None
  <1>4. mem' = Memory!MemAfter(c)
    <2>1. CASE c.op = "malloc"
      <3>1. mem' = [a \in Addrs |-> IF a \in {c.addr} THEN Zeros ELSE mem[a]]
        BY <1>1, <2>1 DEF ServeAlloc, Given
      <3>2. [mem EXCEPT ![c.addr] = Zeros]
              = [a \in Addrs |-> IF a \in {c.addr} THEN Zeros ELSE mem[a]]
        BY <1>1, <1>2
      <3>3. QED
        BY <2>1, <3>1, <3>2 DEF Memory!MemAfter
    <2>2. CASE c.op = "buff" /\ mem["buff"] = NoMem
      <3>1. mem' = [a \in Addrs |-> IF a \in {"buff", "mate"} THEN Zeros ELSE mem[a]]
        BY <1>1, <2>2 DEF ServeAlloc, Given
      <3>2. [mem EXCEPT !["buff"] = Zeros, !["mate"] = Zeros]
              = [a \in Addrs |-> IF a \in {"buff", "mate"} THEN Zeros ELSE mem[a]]
        BY <1>2 DEF Addrs
      <3>3. QED
        BY <2>2, <3>1, <3>2 DEF Memory!MemAfter
    <2>3. CASE c.op = "buff" /\ mem["buff"] # NoMem
      BY <1>1, <2>3 DEF ServeAlloc, Memory!MemAfter
    <2>4. QED
      BY <1>2, <2>1, <2>2, <2>3
  <1>5. effect' = [effect EXCEPT ![cur] = Memory!Found(c)]
    BY <1>1, <1>3 DEF ServeAlloc, TakesEffect
  <1>6. UNCHANGED <<pc, workList, wpc, cur, out, conn>>
    BY DEF ServeAlloc, callers, worker
  <1>7. QED
    BY <1>1, <1>3, <1>4, <1>5, <1>6, ServedTakesEffect

(* A read that could not be posted. *)
LEMMA PostFailsLosesRead ==
  ASSUME Inv, PostFails, CallOf(cur).op = "read"
  PROVE  Memory!LoseRead
  <1>1. /\ wpc = "start" /\ wpc' = "idle" /\ ~conn
        /\ effect' = [effect EXCEPT ![cur] = Unread]
        /\ UNCHANGED <<pc, workList, cur, out, conn, mem>>
    BY DEF PostFails, network
  <1>2. effect[cur] = None /\ cur \in Threads /\ waiting[cur]
    BY <1>1 DEF Inv, Types, WorkOK
  <1>3. Underway = <<Request(cur)>> /\ Underway' = << >>
    BY <1>1, <1>2 DEF Underway
  <1>4. Listed' = Listed
    BY <1>1 DEF Listed, Request, CallOf
  <1>5. PICK r \in Entries, w \in Seq(Entries) : r = Request(cur) /\ w = Listed
    BY <1>2, QueuedFacts
  <1>6. <<r>> \o w # << >> /\ Head(<<r>> \o w) = r /\ Tail(<<r>> \o w) = w
    BY ConcatSimplifications
  <1>7. << >> \o w = w
    BY ConcatEmptySeq
  <1>8. Queued # << >> /\ Head(Queued) = Request(cur) /\ Queued' = Tail(Queued)
    BY <1>3, <1>4, <1>5, <1>6, <1>7 DEF Queued
  <1>9. Head(Queued).thread = cur /\ Head(Queued).call = CallOf(cur)
    BY <1>8 DEF Request
  <1>10. QED
    BY <1>1, <1>8, <1>9 DEF Memory!LoseRead

(* The steps no caller sees. *)
LEMMA WorkerStutters ==
  ASSUME Inv, Worker, ~(PostFails /\ CallOf(cur).op = "read")
  PROVE  UNCHANGED <<mem, Queued, effect, out, conn>>
  <1>0. PostFails => CallOf(cur).op = "write"
    BY DEF PostFails
  <1>1. UNCHANGED <<mem, effect, out, conn>>
    BY <1>0 DEF Worker, Take, AllocStart, AllocFinish, RwStart, PostFails, RwFinish,
           SendFinish, SendClear, callers, network
  <1>2. CASE Take
    BY <1>1, <1>2, TakeStutters
  <1>3. CASE AllocStart
    <2>1. wpc = "start" /\ wpc' = "wait" /\ UNCHANGED <<pc, workList, cur>>
      BY <1>3 DEF AllocStart, callers
    <2>2. QED
      BY <1>1, <2>1, QueuedStays
  <1>4. CASE RwStart
    <2>1. CallOf(cur).addr \in inTable
      BY <1>4 DEF RwStart, Inv, Types, WorkOK, CallersOK, CallerOK
    <2>2. wpc = "start" /\ wpc' = "wait" /\ UNCHANGED <<pc, workList, cur>>
      BY <1>4, <2>1 DEF RwStart, Known
    <2>3. QED
      BY <1>1, <2>2, QueuedStays
  <1>5. CASE AllocFinish \/ RwFinish \/ SendFinish
    <2>1. wpc = "wait" /\ wpc' \in {"idle", "sent"} /\ UNCHANGED <<pc, workList, cur>>
      BY <1>5 DEF AllocFinish, RwFinish, SendFinish
    <2>2. waiting[cur] /\ cur \in Threads /\ CallOf(cur) \in Calls /\ CallerOK(cur)
      BY <2>1, CallOfFacts DEF Inv, Types, WorkOK, CallersOK
    <2>3. effect[cur] # None
      <3>1. CASE AllocFinish
        BY <2>2, <3>1 DEF AllocFinish, CallerOK
      <3>2. CASE RwFinish
        BY <2>2, <3>2 DEF RwFinish, Inv, WorkOK
      <3>3. CASE SendFinish
        BY <2>2, <3>3 DEF SendFinish, CallerOK
      <3>4. QED
        BY <1>5, <3>1, <3>2, <3>3
    <2>4. QED
      BY <1>1, <2>1, <2>3, QueuedStays
  <1>6. CASE SendClear
    <2>1. wpc = "sent" /\ wpc' = "idle" /\ UNCHANGED <<pc, workList, cur>>
      BY <1>6 DEF SendClear
    <2>2. QED
      BY <1>1, <2>1, QueuedStays
  <1>7. CASE PostFails
    <2>1. wpc = "start" /\ wpc' = "crash" /\ UNCHANGED <<pc, workList, cur>>
      BY <1>0, <1>7 DEF PostFails
    <2>2. QED
      BY <1>1, <2>1, QueuedStays
  <1>8. QED
    BY <1>2, <1>3, <1>4, <1>5, <1>6, <1>7 DEF Worker

LEMMA HandlerStutters ==
  ASSUME Inv, ServeAllocFails \/ Stop \/ Handler \/ UNCHANGED vars
  PROVE  UNCHANGED <<mem, Queued, effect, out, conn>>
  <1>1. UNCHANGED <<mem, effect, out, pc, workList, wpc, cur, conn>>
    BY DEF ServeAllocFails, Stop, Handler, CompleteWrite, Complete, CopyMr,
           AnswerReceived, IgnoreError, vars, callers, worker
  <1>2. QED
    BY <1>1, QueuedStays

LEMMA BreakDisconnects ==
  ASSUME Inv, NicDenies \/ Break
  PROVE  Memory!Disconnect
  <1>1. UNCHANGED <<mem, effect, out, pc, workList, wpc, cur>> /\ conn' = FALSE
    BY DEF NicDenies, Break, callers, worker
  <1>2. Queued' = Queued
    BY <1>1, QueuedStays
  <1>3. QED
    BY <1>1, <1>2 DEF Memory!Disconnect

(***************************************************************************)
(* The callers see one memory, whatever the number of threads and whatever *)
(* they call: calls take effect one at a time, in the order queued, before *)
(* they return, and a read returns what was there then.  The exception is  *)
(* a read whose post fails on a connection that is gone: it returns like   *)
(* any other, its buffer as it was (dhmp.h:174-182,                        *)
(* mid_rdma_top_api.c:23-283, mid_client_work.c:333-338).                  *)
(***************************************************************************)
THEOREM CallsSeeOneMemory ==
  ASSUME SendsLast
  PROVE  Spec => ImplementsMemory
  <1>1. Init => Memory!Init
    <2> SUFFICES ASSUME Init PROVE Memory!Init
      OBVIOUS
    <2>1. Underway = << >>
      BY DEF Init, Underway
    <2>2. workList = << >> /\ DOMAIN workList = {}
      BY DEF Init
    <2>3. Listed = << >>
      BY <2>2 DEF Listed
    <2>4. Queued = << >>
      BY <2>1, <2>3 DEF Queued
    <2>5. QED
      BY <2>4 DEF Init, Memory!Init
  <1>2. Inv /\ [Next]_vars => [Memory!Next]_(Memory!vars)
    <2> SUFFICES ASSUME Inv, [Next]_vars
                 PROVE  [Memory!Next]_(Memory!vars)
      OBVIOUS
    <2>1. CASE \E t \in Threads : Caller(t)
      BY <2>1, CallInvokes, RefusedRefuses, ReturnReturns DEF Caller, Memory!Next
    <2>2. CASE NicAccess \/ ServeAlloc \/ ServeSend
      BY <2>2, NicAccessTakesEffect, ServeAllocTakesEffect, ServeSendTakesEffect
      DEF Memory!Next
    <2>3. CASE Worker
      BY <2>3, PostFailsLosesRead, WorkerStutters DEF Memory!vars, Memory!Next
    <2>4. CASE NicDenies \/ Break
      BY <2>4, BreakDisconnects DEF Memory!Next
    <2>5. CASE ServeAllocFails \/ Stop \/ Handler \/ UNCHANGED vars
      BY <2>5, HandlerStutters DEF Memory!vars
    <2>6. QED
      BY <2>1, <2>2, <2>3, <2>4, <2>5 DEF Next, Neighbour
  <1>3. QED
    BY <1>1, <1>2, Invariant, PTL DEF Spec, ImplementsMemory, Memory!Spec

============================================================================
