------------------------------ MODULE LogRing ------------------------------
(***************************************************************************)
(* The pointer protocol of one link of the chain (log_buffer.c): the       *)
(* writer reserves ring space on the receiver with a read pointer that it  *)
(* fetched earlier, publishes the new write pointer, and fills in the      *)
(* value later; the receiver parses the logs behind its own key pointer,   *)
(* executes them in the order parsed once their value has arrived, and     *)
(* gives the space back.  Bytes are abstracted to the log that wrote a     *)
(* position last; LogBuffer has the bytes and implements this module.      *)
(***************************************************************************)
EXTENDS Integers, Sequences

CONSTANTS
  SIZE,     \* TOTAL_SIZE, bytes of the ring
  MATE,     \* sizeof(logMateData), what read_log_key wants to see
  LogLens,  \* lengths a log (metadata, key and value) may have
  MaxLogs   \* bound on the number of logs written (REPEAT)

ASSUME RingAssumption ==
  /\ SIZE \in Nat \ {0}
  /\ MATE \in Nat \ {0}
  /\ LogLens \subseteq Nat
  /\ \A n \in LogLens : n >= MATE
  /\ MaxLogs \in Nat

VARIABLES
  logs,       \* the logs reserved so far: start, bytes reserved before it
              \* (a ghost); pos, LOCAL_WR_PTR at the time; len
  reserved,   \* bytes reserved so far (a ghost)
  wr,         \* remote_buff->wr_pointer, LOCAL_WR_PTR
  rdCache,    \* remote_buff->rd_pointer, the receiver's read pointer as fetched
  cached,     \* logs executed when rdCache was fetched (a ghost)
  rwr,        \* local_recv_buff->wr_pointer, as published
  published,  \* logs behind rwr (a ghost)
  arrived,    \* logs whose value and tag byte are in the ring
  parsed,     \* the logs read_log_key found, in order
  rdKey,      \* local_recv_buff->rd_key_pointer
  executed,   \* how many of parsed were executed and freed
  rd          \* local_recv_buff->rd_pointer

writer == <<logs, reserved, wr, rdCache, cached>>
reader == <<parsed, rdKey, executed, rd>>
vars == <<logs, reserved, wr, rdCache, cached, rwr, published, arrived,
          parsed, rdKey, executed, rd>>

Init ==
  /\ logs = << >>
  /\ reserved = 0
  /\ wr = 0
  /\ rdCache = 0
  /\ cached = 0
  /\ rwr = 0
  /\ published = 0
  /\ arrived = {}
  /\ parsed = << >>
  /\ rdKey = 0
  /\ executed = 0
  /\ rd = 0

(* rb_data_size and rb_count_size, rb_free_size *)
DataSize(w, r) == (w - r) % SIZE
FreeSize(w, r) == SIZE - 1 - DataSize(w, r)

(* Variant: the pointer is not wrapped. *)
AdvanceNoWrap(p, n) == p + n

(* Where a write of n bytes at p leaves the pointer: SIZE itself is kept. *)
Advance(p, n) == IF p + n > SIZE THEN p + n - SIZE ELSE p + n

(* Bytes reserved before log i; the next log is number Len(logs) + 1. *)
StartOf(i) == IF i \in 1 .. Len(logs) THEN logs[i].start ELSE reserved

(* Log i occupies position p, and no later log does. *)
Covers(i, p) == DataSize(p, logs[i].pos) < logs[i].len
Owns(i, p) == Covers(i, p) /\ \A j \in DOMAIN logs : j > i => ~Covers(j, p)

----------------------------------------------------------------------------
(* check_remote_size fetches the receiver's read pointer. *)
ReadRemoteRd ==
  /\ rdCache' = rd
  /\ cached' = executed
  /\ UNCHANGED <<logs, reserved, wr, rwr, published, arrived>>
  /\ UNCHANGED reader

(* Variant: the byte kept free is given away. *)
ReserveWholeRing(n) ==
  /\ Len(logs) < MaxLogs
  /\ published = Len(logs)
  /\ n <= FreeSize(wr, rdCache) + 1
  /\ logs' = Append(logs, [start |-> reserved, pos |-> wr, len |-> n])
  /\ reserved' = reserved + n
  /\ wr' = Advance(wr, n)
  /\ UNCHANGED <<rdCache, cached, rwr, published, arrived>>
  /\ UNCHANGED reader

(* rb_write_mate takes n bytes at the write pointer and moves it. *)
Reserve(n) ==
  /\ Len(logs) < MaxLogs
  /\ published = Len(logs)
  /\ n <= FreeSize(wr, rdCache)
  /\ logs' = Append(logs, [start |-> reserved, pos |-> wr, len |-> n])
  /\ reserved' = reserved + n
  /\ wr' = Advance(wr, n)
  /\ UNCHANGED <<rdCache, cached, rwr, published, arrived>>
  /\ UNCHANGED reader

(* update_wr_remote *)
Publish ==
  /\ published < Len(logs)
  /\ rwr' = wr
  /\ published' = published + 1
  /\ UNCHANGED arrived
  /\ UNCHANGED writer
  /\ UNCHANGED reader

(* rb_write_data has placed the value of log i, its tag byte last. *)
Arrive(i) ==
  /\ i \notin arrived
  /\ arrived' = arrived \cup {i}
  /\ UNCHANGED <<rwr, published>>
  /\ UNCHANGED writer
  /\ UNCHANGED reader

(* Variant: the key pointer is moved by one byte too few. *)
ParseShort(i) ==
  /\ DataSize(rwr, rdKey) >= MATE
  /\ Owns(i, rdKey)
  /\ parsed' = Append(parsed, i)
  /\ rdKey' = (rdKey + logs[i].len - 1) % SIZE
  /\ UNCHANGED <<rwr, published, arrived, executed, rd>>
  /\ UNCHANGED writer

(* One turn of read_log_key: the metadata at rdKey, whosoever it is. *)
Parse(i) ==
  /\ DataSize(rwr, rdKey) >= MATE
  /\ Owns(i, rdKey)
  /\ parsed' = Append(parsed, i)
  /\ rdKey' = (rdKey + logs[i].len) % SIZE
  /\ UNCHANGED <<rwr, published, arrived, executed, rd>>
  /\ UNCHANGED writer

(* read_log_value saw the tag; the log is executed and free_log moves rd. *)
Execute ==
  /\ executed < Len(parsed)
  /\ parsed[executed + 1] \in arrived
  /\ executed' = executed + 1
  /\ rd' = (rd + logs[parsed[executed + 1]].len) % SIZE
  /\ UNCHANGED <<rwr, published, arrived, parsed, rdKey>>
  /\ UNCHANGED writer

Next ==
  \/ ReadRemoteRd
  \/ \E n \in LogLens : Reserve(n)
  \/ Publish
  \/ \E i \in 1 .. published : Arrive(i)
  \/ \E i \in DOMAIN logs : Parse(i)
  \/ Execute

Spec == Init /\ [][Next]_vars

----------------------------------------------------------------------------
(* The pointers lie in the ring and the stages of a log follow each other; *)
(* only a write pointer may rest on the end (log_buffer.c:386-419).        *)
TypeOK ==
  /\ logs \in Seq([start : Nat, pos : 0 .. SIZE, len : LogLens])
  /\ reserved \in Nat
  /\ wr \in 0 .. SIZE
  /\ rdCache \in 0 .. SIZE - 1
  /\ rwr \in 0 .. SIZE
  /\ rd \in 0 .. SIZE - 1
  /\ rdKey \in 0 .. SIZE - 1
  /\ published \in 0 .. Len(logs)
  /\ arrived \subseteq 1 .. published
  /\ parsed \in Seq(Nat)
  /\ executed \in 0 .. Len(parsed)
  /\ cached \in 0 .. executed

(* Pointer p stands for a count of c bytes. *)
At(p, c) == p % SIZE = c % SIZE

LogsAdjacent ==
  /\ StartOf(1) = 0
  /\ \A i \in 1 .. Len(logs) :
       /\ StartOf(i + 1) = logs[i].start + logs[i].len
       /\ At(logs[i].pos, logs[i].start)
  /\ \A i, j \in 1 .. Len(logs) + 1 : i <= j => StartOf(i) <= StartOf(j)

PointersCount ==
  /\ At(wr, reserved)
  /\ At(rdCache, StartOf(cached + 1))
  /\ At(rwr, StartOf(published + 1))
  /\ At(rdKey, StartOf(Len(parsed) + 1))
  /\ At(rd, StartOf(executed + 1))

StagesOrdered ==
  /\ Len(parsed) <= published
  /\ published >= Len(logs) - 1
  /\ reserved - StartOf(cached + 1) < SIZE

(***************************************************************************)
(* Why the protocol works, as an inductive invariant.  The logs lie one    *)
(* behind the other; every pointer is the count of bytes it stands for,    *)
(* reduced modulo the size; the counts are ordered like the stages of a    *)
(* log (fetched, freed, parsed, published, reserved); and less than a lap  *)
(* lies between the read pointer the writer knows and its write pointer    *)
(* (log_buffer.c:75-92, 332-353, 386-419, 540-608).                        *)
(***************************************************************************)
RingInv == LogsAdjacent /\ PointersCount /\ StagesOrdered

(* The bytes of log i, counted from the first byte ever reserved. *)
BytesOf(i) == logs[i].start .. logs[i].start + logs[i].len - 1

(***************************************************************************)
(* The receiver finds every log exactly once and in the order written: the *)
(* metadata read_log_key meets at rdKey is always that of the next log,    *)
(* never a stale or overwritten one (log_buffer.c:540-608).                *)
(***************************************************************************)
ParsedInOrder == \A k \in 1 .. Len(parsed) : parsed[k] = k

(***************************************************************************)
(* No byte of a log that is not executed yet is reserved for another log,  *)
(* although the writer decides with a read pointer fetched earlier and     *)
(* with pointers reduced modulo the size (log_buffer.c:75-92, 386-419).    *)
(***************************************************************************)
NoOverlap ==
  \A i, j \in executed + 1 .. Len(logs) :
    i # j => \A a \in BytesOf(i), b \in BytesOf(j) : a % SIZE # b % SIZE

(***************************************************************************)
(* The free space computed from the fetched read pointer is never more     *)
(* than the free space there is, so the second check_remote_size inside    *)
(* rb_write_mate cannot fail where the first one passed                    *)
(* (log_buffer.c:307-318, 390-391).                                        *)
(***************************************************************************)
StaleCheckIsSafe == FreeSize(wr, rdCache) <= FreeSize(wr, rd)

(***************************************************************************)
(* The receiver's pointers stay in ring order rd, rdKey, wr: what          *)
(* read_log_key copies out lies within the data size that rb_read demands, *)
(* so none of its reads is refused (log_buffer.c:736-743).                 *)
(***************************************************************************)
ReadsWithinData ==
  DataSize(rwr, rdKey) + DataSize(rdKey, rd) = DataSize(rwr, rd)

=============================================================================
