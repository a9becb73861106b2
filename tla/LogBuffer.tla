----------------------------- MODULE LogBuffer -----------------------------
(***************************************************************************)
(* One link of the chain, byte by byte (log_buffer.c): the head node with  *)
(* its writer thread, its NIC thread and the thread that works off RDMA    *)
(* requests, and the next node with its reader thread, which forwards the  *)
(* logs with a NIC thread of its own when it is not the tail.  The two     *)
(* nodes share the ring on the next node.                                  *)
(*                                                                         *)
(* A byte of the ring is <<i, o>>, byte o of the i-th log written, or Zero.*)
(* Queues are FIFO lists of QUEUE_SIZE - 1 entries (UnlockQueue).          *)
(***************************************************************************)
EXTENDS Integers, Sequences, FiniteSets, SequencesExt

CONSTANTS
  TOTAL_SIZE,   \* bytes of the ring
  SIZEOF_MATE,  \* sizeof(logMateData): the two lengths
  SIZEOF_LOG,   \* sizeof(logEntry): what precedes the key in the ring
  QUEUE_SIZE,   \* slots of every queue
  READ_LIMIT,   \* limits argument of read_log_key
  Classes,      \* node_class of the next node: "TAIL", "NORMAL"
  Inputs        \* what NAME_LISTS may be: sequences of logs, each with its
                \* key, klen and vlen (strings with their NUL, and the tag)

ASSUME BufferAssumption ==
  /\ TOTAL_SIZE \in Nat \ {0}
  /\ \E k \in 1 .. 30 : TOTAL_SIZE = 2 ^ k  \* "& (size - 1)" is "% size"
  /\ SIZEOF_LOG \in Nat /\ SIZEOF_MATE \in 1 .. SIZEOF_LOG
  /\ QUEUE_SIZE \in Nat \ {0}
  /\ READ_LIMIT \in Nat \ {0}
  /\ Classes \subseteq {"TAIL", "NORMAL"}
  /\ \A names \in Inputs :
       /\ names \in Seq(Range(names)) \ {<< >>}
       /\ \A i \in DOMAIN names :
            names[i].klen \in Nat \ {0} /\ names[i].vlen \in Nat \ {0, 1}

VARIABLES
  names,              \* NAME_LISTS
  \* the head node
  wpc, count,         \* writer_thread: where it stands, logs accepted so far
  wr, rdCache,        \* remote_buff->wr_pointer and ->rd_pointer
  fetched,            \* logs freed when rdCache was fetched (a ghost)
  logs,               \* every log written to the ring: start, bytes reserved
                      \* before it (a ghost); pos, key, klen, vlen
  sending,            \* sending_queue, of indices of logs
  todo,               \* per thread: the dhmp_read/dhmp_write calls it still makes
  work,               \* client->work_list: the threads waiting for a request
  \* the next node
  class,              \* node_class
  ring,               \* how far its server thread got with local_recv_buff
  mem,                \* the ring
  rwr, rd, rdKey,     \* local_recv_buff: wr_, rd_ and rd_key_pointer
  rpc, readNum,       \* reader_thread: where it stands, logs parsed in this call
  peeding, executing, dirtyQueue,  \* value_peeding_, executing_, dirty_queue
  dirtyMap,           \* dirty_map: key, the log the key pointer was taken
                      \* from and whether it points to a copy, cnt
  executed,           \* logs handed to the application, with their values
  forward, forwarded  \* its sending_queue, and what NIC_thread sent on

head == <<names, wpc, count, wr, rdCache, fetched, logs, sending, todo, work>>
tail == <<class, ring, rd, rdKey, rpc, readNum, peeding, executing, dirtyQueue,
          dirtyMap, executed, forward, forwarded>>
vars == <<names, wpc, count, wr, rdCache, fetched, logs, sending, todo, work,
          class, ring, mem, rwr, rd, rdKey, rpc, readNum, peeding, executing,
          dirtyQueue, dirtyMap, executed, forward, forwarded>>

Threads == {"writer", "nic"}
Zero == <<0, 0>>
REPEAT == Len(names)

Wrap(p) == p % TOTAL_SIZE
DataSize(w, r) == Wrap(w - r)                    \* rb_data_size, rb_count_size
FreeSize(w, r) == TOTAL_SIZE - 1 - DataSize(w, r)  \* rb_free_size

ValueOffset(l) == SIZEOF_LOG + l.klen            \* LOG_VALUE_OFFSET
NextOffset(l) == SIZEOF_LOG + l.klen + l.vlen    \* LOG_NEXT_OFFSET

(* Variant: a queue that gives up two slots. *)
FullEarly(q) == Len(q) >= QUEUE_SIZE - 2

Full(q) == Len(q) >= QUEUE_SIZE - 1              \* putQueue would return 0

(* rb_write_mate and rb_write_data split a write at the end of the ring. *)
Bytes(i, from, n, at) ==
  LET part(f, m, p) == [op |-> "bytes", log |-> i, from |-> f, n |-> m, at |-> p]
      left == TOTAL_SIZE - at
  IN IF at + n > TOTAL_SIZE
     THEN <<part(from, left, at), part(from + left, n - left, 0)>>
     ELSE <<part(from, n, at)>>

(* Variant: the pointer is not wrapped. *)
AdvanceNoWrap(p, n) == p + n

(* How rb_write_mate moves the write pointer: it may come to rest on the end. *)
Advance(p, n) == IF p + n > TOTAL_SIZE THEN p + n - TOTAL_SIZE ELSE p + n

Fetch == <<[op |-> "rd"]>>  \* dhmp_read of the remote read pointer
Push == <<[op |-> "wr"]>>   \* dhmp_write of the remote write pointer

Init ==
  /\ names \in Inputs
  /\ wpc = "idle"
  /\ count = 0
  /\ wr = 0
  /\ rdCache = 0
  /\ fetched = 0
  /\ logs = << >>
  /\ sending = << >>
  /\ todo = [t \in Threads |-> << >>]
  /\ work = << >>
  /\ mem = [p \in 0 .. TOTAL_SIZE - 1 |-> Zero]
  /\ rwr = 0
  /\ rd = 0
  /\ rdKey = 0
  /\ class \in Classes
  /\ ring = "none"
  /\ rpc = "start"
  /\ readNum = 0
  /\ peeding = << >>
  /\ executing = << >>
  /\ dirtyQueue = << >>
  /\ dirtyMap = {}
  /\ executed = << >>
  /\ forward = << >>
  /\ forwarded = << >>

----------------------------------------------------------------------------
(* The ring is made: dhmp_malloc_buff_request_handler on the next node.     *)

Idle == <<rd, rdKey, readNum, peeding, executing, dirtyQueue, dirtyMap, executed,
          forward, forwarded>>

(* local_recv_buff points to the new structure, then its pointers are set,  *)
(* then the ring is registered, entered and zeroed, and the answer sent.    *)
(* Either registration may fail: local_recv_buff is NULL (again), and       *)
(* dhmp_buff_malloc never returns, since nobody handles the error answer.   *)
AllocRing ==
  /\ \/ ring = "none" /\ ring' \in {"there", "failed"}
     \/ ring = "there" /\ ring' = "pointers"
     \/ ring = "pointers" /\ ring' \in {"ready", "failed"}
  /\ UNCHANGED <<class, rpc, Idle, mem, rwr>>
  /\ UNCHANGED head

(* reader_thread waits for local_recv_buff and then for its buff_addr.  The *)
(* structure is what malloc returned, so buff_addr need not be NULL before  *)
(* it is set, and the pointers may be anything until they are: the reader   *)
(* finds no log, or it is lost ("wild", after which nothing is said of it). *)
(* It is lost as well when the structure is freed behind its first wait.    *)
StartReader ==
  /\ \/ rpc = "start" /\ ring \notin {"none", "failed"} /\ rpc' = "addr"
     \/ rpc = "addr" /\ ring \in {"there", "pointers", "ready"} /\ rpc' = "key"
     \/ rpc = "addr" /\ ring = "there" /\ rpc' = "wild"
     \/ rpc \in {"addr", "key", "value"} /\ ring = "failed" /\ rpc' = "wild"
  /\ UNCHANGED <<class, ring, Idle, mem, rwr>>
  /\ UNCHANGED head

----------------------------------------------------------------------------
(* The writer: head_node_write_log, called again until it succeeds. *)

WriterReady(pc) == wpc = pc /\ todo["writer"] = << >>
Fits == NextOffset(names[count + 1]) <= FreeSize(wr, rdCache)

(* The writer starts when dhmp_buff_malloc has returned.  check_remote_size *)
(* in head_node_write_log:                                                  *)
CheckSize ==
  /\ ring = "ready"
  /\ WriterReady("idle")
  /\ count < REPEAT
  /\ todo' = [todo EXCEPT !["writer"] = Fetch]
  /\ wpc' = "checked"
  /\ UNCHANGED <<names, count, wr, rdCache, fetched, logs, sending, work>>
  /\ UNCHANGED <<mem, rwr, tail>>

(* It fails and the call is repeated, or rb_write_mate checks once more. *)
CheckAgain ==
  /\ WriterReady("checked")
  /\ IF Fits
     THEN /\ todo' = [todo EXCEPT !["writer"] = Fetch]
          /\ wpc' = "mate"
     ELSE /\ wpc' = "idle"
          /\ UNCHANGED todo
  /\ UNCHANGED <<names, count, wr, rdCache, fetched, logs, sending, work>>
  /\ UNCHANGED <<mem, rwr, tail>>

(* Bytes reserved for logs so far. *)
Reserved ==
  IF logs = << >> THEN 0
  ELSE logs[Len(logs)].start + NextOffset(logs[Len(logs)])

(* Variant: the remote write pointer is moved before the metadata is there. *)
WriteMatePointerFirst ==
  /\ WriterReady("mate")
  /\ LET l == names[count + 1]
         mateLen == SIZEOF_LOG + l.klen
     IN IF Fits
        THEN /\ logs' = Append(logs, [start |-> Reserved, pos |-> wr, key |-> l.key,
                                      klen |-> l.klen, vlen |-> l.vlen])
             /\ wr' = Advance(Advance(wr, mateLen), l.vlen)
             /\ todo' = [todo EXCEPT !["writer"] =
                           Push \o Bytes(Len(logs) + 1, 0, mateLen, wr)]
             /\ wpc' = "put"
        ELSE /\ wpc' = "idle"
             /\ UNCHANGED <<logs, wr, todo>>
  /\ UNCHANGED <<names, count, rdCache, fetched, sending, work>>
  /\ UNCHANGED <<mem, rwr, tail>>

(* rb_write_mate: write metadata and key, leave room for the value, publish. *)
WriteMate ==
  /\ WriterReady("mate")
  /\ LET l == names[count + 1]
         mateLen == SIZEOF_LOG + l.klen
     IN IF Fits
        THEN /\ logs' = Append(logs, [start |-> Reserved, pos |-> wr, key |-> l.key,
                                      klen |-> l.klen, vlen |-> l.vlen])
             /\ wr' = Advance(Advance(wr, mateLen), l.vlen)
             /\ todo' = [todo EXCEPT !["writer"] =
                           Bytes(Len(logs) + 1, 0, mateLen, wr) \o Push]
             /\ wpc' = "put"
        ELSE /\ wpc' = "idle"
             /\ UNCHANGED <<logs, wr, todo>>
  /\ UNCHANGED <<names, count, rdCache, fetched, sending, work>>
  /\ UNCHANGED <<mem, rwr, tail>>

(* putQueue(sending_queue); when it is full the whole log is written again. *)
PutSending ==
  /\ WriterReady("put")
  /\ IF Full(sending)
     THEN UNCHANGED <<sending, count>>
     ELSE /\ sending' = Append(sending, Len(logs))
          /\ count' = count + 1
  /\ wpc' = "idle"
  /\ UNCHANGED <<names, wr, rdCache, fetched, logs, todo, work>>
  /\ UNCHANGED <<mem, rwr, tail>>

(* Variant: the value is sent without its tag byte. *)
NicWriteNoTag ==
  /\ todo["nic"] = << >>
  /\ sending # << >>
  /\ LET i == Head(sending)
         l == logs[i]
     IN todo' = [todo EXCEPT !["nic"] =
                   Bytes(i, ValueOffset(l), l.vlen - 1,
                         Wrap(l.pos + ValueOffset(l)))]
  /\ sending' = Tail(sending)
  /\ UNCHANGED <<names, wpc, count, wr, rdCache, fetched, logs, work>>
  /\ UNCHANGED <<mem, rwr, tail>>

(* NIC_thread: take a log and write its value to the place left for it. *)
NicWrite ==
  /\ todo["nic"] = << >>
  /\ sending # << >>
  /\ LET i == Head(sending)
         l == logs[i]
     IN todo' = [todo EXCEPT !["nic"] =
                   Bytes(i, ValueOffset(l), l.vlen, Wrap(l.pos + ValueOffset(l)))]
  /\ sending' = Tail(sending)
  /\ UNCHANGED <<names, wpc, count, wr, rdCache, fetched, logs, work>>
  /\ UNCHANGED <<mem, rwr, tail>>

----------------------------------------------------------------------------
(* dhmp_read and dhmp_write queue a request and wait for its completion;   *)
(* dhmp_work_handle_thread works the requests off one at a time.  The bytes*)
(* of an RDMA write appear in the ring one by one, in increasing order.    *)

Issue(t) ==
  /\ todo[t] # << >>
  /\ t \notin Range(work)
  /\ work' = Append(work, t)
  /\ UNCHANGED <<names, wpc, count, wr, rdCache, fetched, logs, sending, todo>>
  /\ UNCHANGED <<mem, rwr, tail>>

(* Logs that clean_log has freed. *)
Freed == IF rpc = "clean" THEN Len(executed) - 1 ELSE Len(executed)

Done(t) ==
  /\ work' = Tail(work)
  /\ todo' = [todo EXCEPT ![t] = Tail(@)]

FetchRd ==
  /\ work # << >>
  /\ LET t == Head(work) IN Head(todo[t]).op = "rd" /\ Done(t)
  /\ rdCache' = rd
  /\ fetched' = Freed
  /\ UNCHANGED <<names, wpc, count, wr, logs, sending>>
  /\ UNCHANGED <<mem, rwr, tail>>

PushWr ==
  /\ work # << >>
  /\ LET t == Head(work) IN Head(todo[t]).op = "wr" /\ Done(t)
  /\ rwr' = wr
  /\ UNCHANGED <<names, wpc, count, wr, rdCache, fetched, logs, sending>>
  /\ UNCHANGED <<mem, tail>>

(* A write of which one more byte has landed. *)
Further(o) == [op |-> "bytes", log |-> o.log, from |-> o.from + 1, n |-> o.n - 1,
               at |-> o.at + 1]

LandByte ==
  /\ work # << >>
  /\ LET t == Head(work)
         o == Head(todo[t])
     IN /\ o.op = "bytes"
        /\ mem' = IF o.n = 0 THEN mem ELSE [mem EXCEPT ![o.at] = <<o.log, o.from>>]
        /\ IF o.n <= 1
           THEN Done(t)
           ELSE /\ todo' = [todo EXCEPT ![t] = [@ EXCEPT ![1] = Further(o)]]
                /\ UNCHANGED work
        \* the memory of an empty write may fail to register, and
        \* dhmp_write_task_create then follows a null pointer
        /\ wpc' \in IF o.n = 0 THEN {wpc, "crash"} ELSE {wpc}
  /\ UNCHANGED <<names, count, wr, rdCache, fetched, logs, sending>>
  /\ UNCHANGED <<rwr, tail>>

----------------------------------------------------------------------------
(* The reader.  A logEntry on the tail node remembers where the log starts *)
(* (pos), the lengths, whether the key or the value was copied out because *)
(* it reaches the end of the ring, and (as a ghost) which log it is.       *)

NoLog == [pos |-> 0, key |-> "", klen |-> 0, vlen |-> 0]
LogOf(cell) == IF cell = Zero THEN NoLog ELSE logs[cell[1]]

KeyPos(e) == Wrap(e.pos + SIZEOF_LOG)
ValuePos(e) == Wrap(e.pos + ValueOffset(e))
TagPos(e) == Wrap(e.pos + NextOffset(e) - 1)  \* LOG_VALUE_TAG_OFFSET

(* rb_read copies n bytes, but none when fewer than that are in the ring. *)
Refused(n) == n > DataSize(rwr, rd)

(* The logEntry that read_log_key builds from the metadata at p. *)
EntryAt(p) ==
  LET l == IF Refused(SIZEOF_MATE) THEN NoLog ELSE LogOf(mem[p])
      cut == Wrap(p + SIZEOF_LOG) + l.klen >= TOTAL_SIZE
  IN [log |-> mem[p][1], pos |-> p, klen |-> l.klen, vlen |-> l.vlen,
      key |-> IF cut /\ Refused(l.klen) THEN NoLog.key ELSE l.key,
      keyCut |-> cut, value |-> << >>]

ValueBytes(e) == [o \in 1 .. e.vlen |-> mem[Wrap(ValuePos(e) + o - 1)]]

(* The copy read_log_value makes of a value that reaches the end. *)
ValueCopy(e) ==
  IF ValuePos(e) + e.vlen < TOTAL_SIZE THEN << >>
  ELSE IF Refused(e.vlen) THEN [o \in 1 .. e.vlen |-> Zero]
  ELSE ValueBytes(e)

(* Does the string that d's key pointer leads to still read k?  A copy is  *)
(* freed with its log and may then hold anything: garbage says which.      *)
StillReads(d, k, garbage) ==
  IF d.keyCut
  THEN garbage \/ \E i \in DOMAIN dirtyQueue : dirtyQueue[i].log = d.log
  ELSE \A o \in 0 .. d.klen - 1 :
         LET c == mem[KeyPos(d) + o]
         IN c # Zero /\ LogOf(c).key = k /\ c[2] = SIZEOF_LOG + o

(* dirty_map->exists: the entries under k's hash that strcmp finds equal. *)
DirtyEntries(k, garbage) ==
  {d \in dirtyMap : d.key = k /\ StillReads(d, k, garbage)}

(* Variant: a key that is already dirty is not counted again. *)
MarkDirtyOnce(e, garbage) ==
  dirtyMap' = IF DirtyEntries(e.key, garbage) # {} THEN dirtyMap
              ELSE dirtyMap \cup
                     {[key |-> e.key, log |-> e.log, pos |-> e.pos,
                       klen |-> e.klen, keyCut |-> e.keyCut, cnt |-> 1]}

(* read_log_key: count the key in dirty_map. *)
MarkDirty(e, garbage) ==
  LET found == DirtyEntries(e.key, garbage)
  IN dirtyMap' =
       IF found = {}
       THEN dirtyMap \cup {[key |-> e.key, log |-> e.log, pos |-> e.pos,
                            klen |-> e.klen, keyCut |-> e.keyCut, cnt |-> 1]}
       ELSE LET d == CHOOSE d \in found : TRUE
            IN (dirtyMap \ {d}) \cup {[d EXCEPT !.cnt = @ + 1]}

(* Variant: a count of 0 is stored. *)
MarkCleanKeep(found) ==
  LET d == CHOOSE d \in found : TRUE
  IN dirtyMap' = (dirtyMap \ {d}) \cup {[d EXCEPT !.cnt = @ - 1]}

(* clean_log: count it down again, and forget it at 0.  (remove may shrink *)
(* the table and hash every key again; an entry whose key pointer has gone *)
(* stale then moves, and is as lost to its key as it was before.)          *)
MarkClean(found) ==
  LET d == CHOOSE d \in found : TRUE
  IN dirtyMap' = (dirtyMap \ {d}) \cup
                   (IF d.cnt = 1 THEN {} ELSE {[d EXCEPT !.cnt = @ - 1]})

MoreKeys == readNum < READ_LIMIT /\ DataSize(rwr, rdKey) >= SIZEOF_MATE

(* One turn of read_log_key's loop. *)
ReadKey ==
  /\ rpc = "key"
  /\ MoreKeys
  /\ LET e == EntryAt(rdKey)
     IN /\ \E garbage \in BOOLEAN : MarkDirty(e, garbage)
        /\ dirtyQueue' = IF Full(dirtyQueue) THEN dirtyQueue
                                             ELSE Append(dirtyQueue, e)
        /\ IF Full(peeding)
           THEN rpc' = "abort" /\ UNCHANGED <<peeding, rdKey, readNum>>
           ELSE /\ peeding' = Append(peeding, e)
                /\ rdKey' = Wrap(rdKey + NextOffset(e))
                /\ readNum' = readNum + 1
                /\ UNCHANGED rpc
  /\ UNCHANGED <<rd, executing, executed, mem, rwr>>
  /\ UNCHANGED <<class, ring, forward, forwarded, head>>

ReadKeyReturn ==
  /\ rpc = "key"
  /\ ~MoreKeys
  /\ rpc' = "value"
  /\ readNum' = 0
  /\ UNCHANGED <<rd, rdKey, peeding, executing, dirtyQueue, dirtyMap, executed>>
  /\ UNCHANGED <<mem, rwr, class, ring, forward, forwarded, head>>

(* test_done: is the byte 1?  A tag byte is, the bytes of strings are not, *)
(* those of a logEntry (lengths, positions, pointers) may be.              *)
MayBeOne(cell) ==
  /\ cell # Zero
  /\ \/ cell[2] = NextOffset(LogOf(cell)) - 1
     \/ cell[2] < SIZEOF_LOG

(* read_log_value(1): no log waits for its value. *)
NoValue ==
  /\ rpc = "value"
  /\ peeding = << >>
  /\ rpc' = "key"
  /\ UNCHANGED <<rd, rdKey, readNum, peeding, executing, dirtyQueue, dirtyMap,
                 executed>>
  /\ UNCHANGED <<mem, rwr, class, ring, forward, forwarded, head>>

(* Variant: the tag is taken for set without a look. *)
ReadValueUntagged ==
  /\ rpc = "value"
  /\ peeding # << >>
  /\ LET e == Head(peeding)
         f == [e EXCEPT !.value = ValueCopy(e)]
     IN IF Full(executing)
        THEN rpc' = "abort" /\ UNCHANGED <<executing, peeding>>
        ELSE /\ executing' = Append(executing, f)
             /\ peeding' = Tail(peeding)
             /\ rpc' = "exec"
  /\ UNCHANGED <<rd, rdKey, readNum, dirtyQueue, dirtyMap, executed>>
  /\ UNCHANGED <<mem, rwr, class, ring, forward, forwarded, head>>

(* read_log_value(1) spins until the oldest one's tag byte is set. *)
ReadValue ==
  /\ rpc = "value"
  /\ peeding # << >>
  /\ MayBeOne(mem[TagPos(Head(peeding))])
  /\ LET e == Head(peeding)
         f == [e EXCEPT !.value = ValueCopy(e)]
     IN IF Full(executing)
        THEN rpc' = "abort" /\ UNCHANGED <<executing, peeding>>
        ELSE /\ executing' = Append(executing, f)
             /\ peeding' = Tail(peeding)
             /\ rpc' = "exec"
  /\ UNCHANGED <<rd, rdKey, readNum, dirtyQueue, dirtyMap, executed>>
  /\ UNCHANGED <<mem, rwr, class, ring, forward, forwarded, head>>

(* Variant: the test for the tail is the wrong way round. *)
SendLogTail ==
  forward' = IF class # "TAIL" \/ Full(forward) THEN forward
             ELSE Append(forward, Head(executing))

(* send_log: a node that is not the tail queues the log for its NIC_thread. *)
SendLog ==
  forward' = IF class = "TAIL" \/ Full(forward) THEN forward
             ELSE Append(forward, Head(executing))

(* top_log and send_log. *)
Execute ==
  /\ rpc = "exec"
  /\ LET e == Head(executing)
     IN executed' = Append(executed,
          [log |-> e.log,
           value |-> IF e.value # << >> THEN e.value ELSE ValueBytes(e)])
  /\ SendLog
  /\ executing' = Tail(executing)
  /\ rpc' = "clean"
  /\ UNCHANGED <<rd, rdKey, readNum, peeding, dirtyQueue, dirtyMap>>
  /\ UNCHANGED <<mem, rwr, class, ring, forwarded, head>>

(* clean_log: take the oldest dirty log out of the map, free it and the    *)
(* space it takes.                                                         *)
CleanLog ==
  /\ rpc = "clean"
  /\ IF dirtyQueue = << >>
     THEN rpc' = "key" /\ UNCHANGED <<dirtyQueue, dirtyMap, rd>>
     ELSE \E garbage \in BOOLEAN :
          LET e == Head(dirtyQueue)
              found == DirtyEntries(e.key, garbage)
          IN /\ dirtyQueue' = Tail(dirtyQueue)
             /\ IF found = {}
                THEN rpc' = "abort" /\ UNCHANGED <<dirtyMap, rd>>
                ELSE /\ MarkClean(found)
                     /\ rd' = Wrap(rd + NextOffset(e))
                     /\ rpc' = IF Len(executed) = REPEAT THEN "done" ELSE "key"
  /\ UNCHANGED <<rdKey, readNum, peeding, executing, executed>>
  /\ UNCHANGED <<mem, rwr, class, ring, forward, forwarded, head>>

(* The next node's NIC_thread writes the value, from where value_addr      *)
(* points to, at the log's own position into the ring of the node behind   *)
(* it.  A log that was freed meanwhile may hold anything (no value here).  *)
Forward ==
  /\ forward # << >>
  /\ LET e == Head(forward)
         live == \E i \in DOMAIN dirtyQueue : dirtyQueue[i].log = e.log
     IN forwarded' = Append(forwarded,
          [log |-> e.log,
           value |-> IF ~live THEN << >>
                     ELSE IF e.value # << >> THEN e.value ELSE ValueBytes(e)])
  /\ forward' = Tail(forward)
  /\ UNCHANGED <<class, ring, rd, rdKey, rpc, readNum, peeding, executing,
                 dirtyQueue, dirtyMap, executed, mem, rwr>>
  /\ UNCHANGED head

----------------------------------------------------------------------------
Writer == CheckSize \/ CheckAgain \/ WriteMate \/ PutSending
Worker == FetchRd \/ PushWr \/ LandByte
Reader ==
  StartReader \/ ReadKey \/ ReadKeyReturn \/ NoValue \/ ReadValue \/ Execute \/ CleanLog

Next ==
  \/ Writer \/ NicWrite \/ (\E t \in Threads : Issue(t)) \/ Worker
  \/ AllocRing \/ Reader \/ Forward

Spec == Init /\ [][Next]_vars

(* Every thread is a loop that the scheduler keeps running, and the network *)
(* completes the requests posted to it.                                     *)
FairSpec ==
  /\ Spec
  /\ WF_vars(Writer)
  /\ WF_vars(NicWrite)
  /\ \A t \in Threads : WF_vars(Issue(t))
  /\ WF_vars(Worker)
  /\ WF_vars(AllocRing)
  /\ WF_vars(Reader)
  /\ WF_vars(Forward)

----------------------------------------------------------------------------
(* Pointers stay in the ring, on the end of it at most where a write ended *)
(* there (log_buffer.c:340-341, 404-416, 577).                             *)
TypeOK ==
  /\ wpc \in {"idle", "checked", "mate", "put", "crash"}
  /\ count \in 0 .. REPEAT
  /\ wr \in 0 .. TOTAL_SIZE
  /\ rwr \in 0 .. TOTAL_SIZE
  /\ {rdCache, rd, rdKey} \subseteq 0 .. TOTAL_SIZE - 1
  /\ Range(sending) \subseteq DOMAIN logs
  /\ Range(work) \subseteq Threads /\ Len(work) <= Cardinality(Threads)
  /\ DOMAIN mem = 0 .. TOTAL_SIZE - 1
  /\ class \in Classes /\ ring \in {"none", "there", "pointers", "ready", "failed"}
  /\ rpc \in {"start", "addr", "key", "value", "exec", "clean", "done", "abort", "wild"}
  /\ readNum \in 0 .. READ_LIMIT

(* Logs behind the remote write pointer, and logs given to NIC_thread. *)
Published ==
  IF \E o \in Range(todo["writer"]) : o.op = "wr" THEN Len(logs) - 1 ELSE Len(logs)
Queued == IF wpc \in {"put", "crash"} THEN Len(logs) - 1 ELSE Len(logs)

(* Log j occupies position p. *)
Covers(j, p) == \E o \in 0 .. NextOffset(logs[j]) - 1 : Wrap(logs[j].pos + o) = p

(* The queues have room for as many of the shortest logs as the ring holds, *)
(* as in log_copy.h:12 and log_buffer.c:38 (64 bytes, 2048 slots).          *)
QueuesHoldRing == TOTAL_SIZE <= QUEUE_SIZE * (SIZEOF_LOG + 3)

(* The byte a log's tag falls on was last a byte of a string, or none.  The *)
(* reader does not clear the tags it has seen, so it relies on this.        *)
TagsFresh ==
  \A i \in DOMAIN logs : \A j \in 1 .. i - 1 : \A o \in 0 .. NextOffset(logs[j]) - 1 :
    /\ Wrap(logs[j].pos + o) = TagPos(logs[i])
    /\ \A k \in j + 1 .. i - 1 : ~Covers(k, TagPos(logs[i]))
    => SIZEOF_LOG <= o /\ o < NextOffset(logs[j]) - 1

(* No two logs that take up space in the ring have the same key.  The map   *)
(* keeps the key pointer of the first of them, which is freed first.        *)
KeysOnce ==
  \A i, j \in Freed + 1 .. Len(logs) : logs[i].key = logs[j].key => i = j

(***************************************************************************)
(* The application sees every value once, in the order written, and        *)
(* complete: each byte is the byte of that log (log_buffer.c:471-480).     *)
(***************************************************************************)
ValuesDelivered ==
  \A k \in DOMAIN executed :
    /\ executed[k].log = k
    /\ executed[k].value = [o \in 1 .. logs[k].vlen |->
                              <<k, ValueOffset(logs[k]) + o - 1>>]

(***************************************************************************)
(* Metadata and key of every published log that is not freed are in the    *)
(* ring, untouched by the values and logs written around them: read_log_key*)
(* and the key pointers it hands out may rely on them                      *)
(* (log_buffer.c:386-436, 540-579).                                        *)
(***************************************************************************)
KeysIntact ==
  \A i \in Freed + 1 .. Published :
    \A o \in 0 .. ValueOffset(logs[i]) - 1 : mem[Wrap(logs[i].pos + o)] = <<i, o>>

(***************************************************************************)
(* judge_key_dirty answers right: a key is in dirty_map exactly as often   *)
(* as logs with that key were parsed and are not cleaned yet               *)
(* (log_buffer.c:580-589, 668-692, 726-733).                               *)
(***************************************************************************)
DirtyMapExact ==
  \A k \in {names[i].key : i \in DOMAIN names} :
    LET waiting == {i \in DOMAIN dirtyQueue : dirtyQueue[i].key = k}
        entries == DirtyEntries(k, FALSE)
    IN IF waiting = {} THEN entries = {}
       ELSE \E d \in entries : entries = {d} /\ d.cnt = Cardinality(waiting)

(***************************************************************************)
(* The process is never ended by one of the reader's exit(0): no queue is  *)
(* full and every cleaned log is in dirty_map (log_buffer.c:595-599,       *)
(* 641-645, 687-691).                                                      *)
(***************************************************************************)
NoAbort == rpc # "abort"

(***************************************************************************)
(* A log whose metadata is published always finds room in sending_queue;   *)
(* otherwise its value would never be sent and the reader would wait for   *)
(* its tag for ever (log_buffer.c:320-323, 363-377).                       *)
(***************************************************************************)
SendingNeverFull == WriterReady("put") => ~Full(sending)

(* The ring could not be registered, or the reader looked at it before its  *)
(* pointers were set.                                                       *)
SetupFails == ring = "failed" \/ rpc = "wild"

(***************************************************************************)
(* All logs get through, once the ring is set up: the reader ends having   *)
(* executed every log, with no key left dirty (log_buffer.c:282-289,       *)
(* 363-381, 457-485).  Left out: a ring that cannot be registered, and a   *)
(* reader misled by what malloc left in the structure.                     *)
(***************************************************************************)
AllExecuted ==
  <>[](rpc = "done" /\ Len(executed) = REPEAT /\ dirtyMap = {}) \/ <>SetupFails

(* send_log does not notice that sending_queue is full, and nothing makes  *)
(* the reader wait for NIC_thread: only a queue with room for all the logs *)
(* of the program is never full.                                           *)
QueueHoldsAll == REPEAT < QUEUE_SIZE

(***************************************************************************)
(* A middle node hands on all logs, as long as its sending_queue has room  *)
(* for all of them and the ring is set up (log_buffer.c:363-381).          *)
(***************************************************************************)
AllForwarded ==
  class = "NORMAL" /\ QueueHoldsAll => <>(Len(forwarded) = REPEAT \/ SetupFails)

(***************************************************************************)
(* What a middle node hands on is the value it has executed, taken from a  *)
(* log that is not freed yet (log_buffer.c:328-353, 371-372, 696, 711).    *)
(***************************************************************************)
ForwardsValues ==
  \A k \in DOMAIN forwarded : forwarded[k].value = executed[k].value

----------------------------------------------------------------------------
(* The bytes implement the pointer protocol of LogRing. *)

Ring == INSTANCE LogRing WITH
  SIZE <- TOTAL_SIZE,
  MATE <- SIZEOF_MATE,
  LogLens <- UNION {{NextOffset(n[i]) : i \in DOMAIN n} : n \in Inputs},
  MaxLogs <- CHOOSE m \in {Len(n) : n \in Inputs} : \A n \in Inputs : m >= Len(n),
  logs <- [i \in DOMAIN logs |-> [start |-> logs[i].start, pos |-> logs[i].pos,
                                  len |-> NextOffset(logs[i])]],
  reserved <- Reserved,
  cached <- fetched,
  published <- Published,
  arrived <- 1 .. (Queued - Len(sending) - IF todo["nic"] = << >> THEN 0 ELSE 1),
  parsed <- [i \in 1 .. Freed |-> executed[i].log]
              \o [i \in 1 .. Len(dirtyQueue) |-> dirtyQueue[i].log],
  executed <- Freed

(***************************************************************************)
(* Every step of the threads, byte by byte, is a step of the pointer       *)
(* protocol or does not touch it; in particular a log is executed only     *)
(* after its last value byte has landed (log_buffer.c:286-719).            *)
(***************************************************************************)
ImplementsRing == Ring!Spec

=============================================================================
