# TLA+ verification of RDMA_middleware

RDMA_middleware replicates key-value logs along a chain of nodes.  The head
writes each log with one-sided RDMA into a ring buffer in the memory of the next
node, whose reader thread finds it there without being told.  This directory
holds TLA+ models of that code, the TLC configurations that check them on small
instances, and TLAPS proofs of what matters most for every size.

Paths below are relative to the repository; `log_buffer.c` means
`src/log_buffer.c`, and so on.

## 1. The system

### Components

| Component | Source | State | Operations |
|---|---|---|---|
| Log replication | `log_buffer.c`, `log_copy.h` | head: `remote_buff` (cached write and read pointer), `sending_queue`; tail: the ring, `local_recv_buff` (`wr_`, `rd_`, `rd_key_pointer`), `value_peeding_`, `executing_`, `dirty_queue`, `dirty_map` | `head_node_write_log`, `rb_write_mate`, `rb_write_data`, `read_log_key`, `read_log_value`, `top_log`, `send_log`, `clean_log`, `judge_key_dirty` |
| Lock-free queue | `unlock_queue.c` | `wid`, `rid`, `data` | `putQueue`, `topQueue`, `popQueue`, `emptyQueue` |
| Dirty map | `mid_hashmap.c` | `hash_list` (chains), `listSize`, `size` | `put`, `get`, `exists`, `remove`, `resetHashMap` |
| Remote memory calls | `mid_rdma_top_api.c`, `mid_client_work.c` | `client->work_list`, one stack frame per call with `done_flag`, `addr_info_ht`, `write_flag` per address | `dhmp_malloc`, `dhmp_buff_malloc`, `dhmp_read`, `dhmp_write`, `dhmp_send`, the work handlers |
| Work requests | `mid_rdma_transport.c`, `mid_rdma_task.c` | `dhmp_task` with its `done_flag`, the queue pair | `dhmp_post_send`, `dhmp_post_recv`, `dhmp_rdma_read`, `dhmp_rdma_write` |
| Completions and messages | `mid_rdma_cq_handler.c`, `mid_rdma_recv_handler.c` | the completion queue; on the serving side the memory given out | request, response and error handlers |
| Connections | `mid_rdma_connection.c`, `mid_rdma_init.c` | client: `connect_trans` and the `trans_state` of each transport; server: `client_list`, `cur_connections` | the CM event handlers, `dhmp_connect`, `dhmp_client_init`, `dhmp_transport_create`, `free_trans` |
| Event loop | `mid_epoll_context.c` | watched descriptors, `stop` | one callback at a time |
| Configuration, devices, logging, hashes | `dhmp_config.c`, `dhmp_dev.c`, `dhmp_log.c`, `dhmp_hash.c`, `murmur3_hash.c` | none that changes | input and output |

### How they interact

Threads that use remote memory (`writer_thread`, `NIC_thread`, `buff_init`) put a
work into `work_list` and spin on `done_flag`.  One thread,
`dhmp_work_handle_thread`, takes the works in order, posts a work request and
spins in turn until the epoll thread, which handles the completion queue, sets
the flag of the task.  The neighbour's CPU takes part only in allocation and in
`dhmp_send`; reads and writes are done by its NIC, concurrently with its reader
thread.  So the pointers and the bytes of the ring are shared between nodes with
no lock, and everything rests on the order in which they are written: metadata
and key, then the write pointer, later the value, its last byte a tag that is 1.

Before that the nodes connect.  Each is a server to the nodes before it and a
client of those behind it (the head of all, a middle node of the next), with an
epoll thread for either role.  `dhmp_connect` starts a connection, sleeps a second
and looks at `trans_state`, which the epoll thread has set meanwhile, or not yet.

Own code of the repository is about 6,000 lines in `src/`, `test/` and
`include/*.h`; the other 24,000 are vendored headers (libxml, json-c, verbs, linux).

### What is hard

* Decisions with old values: the read pointer the head fetched, tags of an
  earlier lap, key pointers into ring space that was reused.
* One log is several RDMA writes by two threads, and the reader runs in between.
* Pointers modulo a power of two, writes and strings cut at the end of the ring,
  a write pointer that may rest on `size`.
* Queues that are full after something was already published.
* Flags in stack frames, written by another thread, perhaps after the call.
* Errors and broken connections while a thread spins on a flag.
* Nodes that start in any order, handshakes that fail on either side or take longer
  than the second allowed, and retries while the earlier attempt is still under way.

`PROJECT.json` lists these hazards at their lines with the properties that
cover them.

### What correct means

* Queue: a FIFO list for one producer and one consumer; nothing is handed out
  half copied.
* Ring: logs are found once, in order, undamaged; live logs never overlap;
  every value arrives complete before it is used; everything written is executed.
* Dirty map: exactly the keys parsed and not yet cleaned; a map, whatever is
  resized and collides.
* Remote memory: calls take effect one at a time, in the order queued, before
  they return; they do return.
* Connections: the server's count is that of its list; what a client has kept the
  server has; nobody is connected twice; retrying ends.

## 2. Modules

| Module | What it is |
|---|---|
| `BoundedFIFO` | abstract: a bounded FIFO list |
| `UnlockQueue` | `unlock_queue.c`, one action per shared access; implements `BoundedFIFO` |
| `UnlockQueue_proofs` | its theorems |
| `LogRing` | abstract: the pointer protocol of the ring, logs without bytes |
| `RingArithmetic`, `LogRing_proofs` | facts about `%`, and the theorems about `LogRing` |
| `LogBuffer` | `log_buffer.c` on the head and the next node, tail or middle, byte by byte; implements `LogRing` |
| `LogBuffer_proofs`, `LogBufferBytes_proofs` | its theorems: types; the bytes, the dirty map, the refinement of `LogRing` |
| `RemoteMemory` | abstract: memory with calls that take effect in order |
| `RdmaWork` | callers, work thread, queue pair, handlers, neighbour; implements `RemoteMemory` |
| `RdmaWork_proofs` | its theorems |
| `Map` | abstract: a finite map |
| `HashMap` | `mid_hashmap.c`; implements `Map` |
| `HashMap_proofs` | its theorems |
| `Connection` | connecting: main thread, both epoll threads of every node, connection manager |
| `Connection_proofs` | its theorems |
| `MC*` | instances for TLC |

Operators marked *Variant* are wrong versions of an operation, used to see that
a property notices the mistake.

### UnlockQueue

`wid`, `rid` and `data` are those of `unQueue`; `ppc` and `cpc` say where the two
threads stand.  `PutFull`/`PutBegin` are the test in `putQueue`, `PutCopy` the
`memcpy`, `PutPublish` the assignment of `wid`; `NotEmpty`, `Top`, `Pop` are
`emptyQueue`, `topQueue`, `popQueue` as `NIC_thread` calls them.  Each index is
written by one thread only and stores become visible in program order (x86, and
the Debug build of `CMakeLists.txt` keeps that order), so one action per access
is enough.

### LogRing

`wr` and `rdCache` are the pointers of `remote_buff`, `rwr`, `rd`, `rdKey` those of
`local_recv_buff`.  A log is its position and length; `Owns(i, p)` says that the
log that wrote position `p` last is `i`, which is what `read_log_key` meets there.
`Reserve` is `rb_write_mate` up to the remote write, with any read pointer fetched
earlier; `Publish` is `update_wr_remote`; `Arrive` is `rb_write_data`; `Parse` is one
turn of `read_log_key`; `Execute` is the rest of the reader's round.  A log may be
parsed as soon as it is published, and executed as soon as it has arrived.

### LogBuffer

The ring is an array of bytes, each of which is "byte o of log i" or zero.  An
RDMA write lands byte by byte in increasing order.  The works of the writer and of
the NIC thread go through one FIFO work list, as in `dhmp_work_handle_thread`
(`Issue`, `FetchRd`, `PushWr`, `LandByte`); `RdmaWork` is the detailed model of
that list.  `CheckSize`, `CheckAgain`, `WriteMate`, `PutSending` are
`head_node_write_log` with both its checks; `NicWrite` is `NIC_thread`; `ReadKey`,
`ReadValue`, `NoValue`, `Execute` are the reader's loop, with the key and the value
copied out where they reach the end of the ring, the refusals of `rb_read`, the
exits, and `dirty_map` as the set of its entries.  An entry remembers which log its
key pointer was taken from: the pointer is looked through again at every `exists`,
and finds what is there then.  A copy that was freed may hold anything.  A tag test
(`MayBeOne`) succeeds on a tag, fails on a byte of a string, and may succeed on a
byte of the metadata.

The next node is the tail or a middle node (`class`).  `AllocRing` is the handler
that makes the ring, cut where it can be seen half done: `local_recv_buff` is set,
then its pointers, then `buff_addr`.  `StartReader` is what `reader_thread` waits for.
The structure is what a plain `malloc` returned (`mid_rdma_utils.c:36`), so `buff_addr`
may seem set from the beginning: the reader may then go on with pointers that are not
set, and is lost (`rpc = "wild"`).  It is lost as well when registering the ring fails
and the handler frees the structure it is waiting on.  Nothing is said of a reader that
is lost; the safety properties hold of what it did before, and liveness is stated for
behaviours without it (`SetupFails`).
On a middle node `SendLog`, part of `Execute`, puts the log into `sending_queue` and
`Forward` is the `NIC_thread` that takes it out.  `send_log` does not look whether
the queue was full and nothing holds the reader back, so that a log may be dropped;
`AllForwarded` is stated for programs whose logs all fit into the queue
(`QueueHoldsAll`; the program writes 20 logs and has queues of 2048).  Where the value goes in the third
node's ring is left out: a middle node never calls `rb_write_mate`, so the write
pointer there stays 0 and nothing is ever parsed (see section 5).

### RdmaWork

A call is one of `malloc`, `buff` (`dhmp_buff_malloc`), `read`, `write`, `sendw`,
`sendr` (`dhmp_send`).  `Call` queues the work, `Return` leaves the spin loop;
`Take`, `AllocStart`, `AllocFinish`, `RwStart`, `PostFails`, `RwFinish`, `SendFinish`,
`SendClear` are `dhmp_work_handle_thread` and its handlers, cut where another thread can see
the difference; `NicAccess`, `ServeAlloc`, `ServeSend` and their failures are the
neighbour; `CompleteWrite`, `Complete`, `CopyMr`, `AnswerReceived`, `IgnoreError`
are `dhmp_comp_channel_handler`.  `copied` counts the fields of `nvm_mr` that the
handler's `memcpy` has written (address, length, rkey, in this order).  Addresses
are names.  What a NIC does is modelled from how the code uses it: requests of one
queue pair are served in order, a request with a wrong key breaks the connection,
a broken connection flushes what is under way, and completions already there may be
lost with the queue pair.

On a connection that is gone a post is dropped (`dhmp_post_send`), accepted and flushed
with an error that is only logged, or refused (`PostFails`).  A refused write ends the
process.  A refused read returns -1, which `dhmp_read_work_handler` ignores: `dhmp_read`
returns 0 with nothing read.  `RemoteMemory` has this as `LoseRead`, the one way in which
a call may return without its effect.  `Stop` is the end of the epoll thread and of
the work thread's loop when `client->ctx.stop` is set.

### Connection

A transport `<<n, k>>` is the k-th that node n has for connecting; `cli` is n's
structure, `srv` the one its target makes.  `toCli` and `toSrv` hold the event on the
way to either end; there is at most one, since each event answers another.

* Main thread: `ServerInit`, then for every target `Create`, `Connect`,
  `StoreConnecting` (the assignment after `rdma_resolve_addr`, which the epoll thread
  may overtake), `SleepOver` and one of `GiveUp`, `FreeRejected`, `LeaveLoop`; `KeepTrans`
  is what `dhmp_client_init` does with the result.
* Client's epoll thread: `EnterHandler` is `dhmp_context_run` calling
  `dhmp_event_channel_handler`, `LeaveHandler` the end of its loop, and one action per
  handler of `dhmp_handle_ec_event`.  A handler that returns an error leaves the loop.
* Server's epoll thread: `DropRequest` and `OnConnectRequest` are
  `on_cm_connect_request`, then established, rejected, disconnected, error.
* Connection manager (external): `Reject` when nobody listens, `AnswerFails`, `Break`.

`Troubles` gives kinds of faults and how many at most; a behaviour has one of the
kinds:

| Kind | What happens |
|---|---|
| `resolve`, `route` | `rdma_resolve_addr`, `rdma_resolve_route` or `dhmp_qp_create` fails |
| `serve`, `accept` | the server cannot make the transport, or `rdma_accept` fails |
| `disconnect` | a connection that was kept breaks |
| `drop` | a connection breaks before `dhmp_connect` has returned it |
| `client_error`, `server_error` | one end gets `CONNECT_ERROR` |
| `create`, `connect` | `dhmp_transport_create` fails; `rdma_connect` fails and stops the context |
| `overtake` | the epoll thread is ahead of `StoreConnecting` |
| `late` | the second is over before the handshake is |

Modelled from how the code uses them: a server's transport has no address until it
is established, and what `malloc` left there is no client's address, so
`IsExistConnection` looks at connected entries only.  `list_del` of a transport that is
in no list goes through pointers nobody set: the process crashes or something else is
overwritten (`Unlink`).  A request that is not answered times out (`UNREACHABLE`).
A crashed node's peers are not told.  A transport given up is never freed by the
program; its name is used again once nothing can reach it, which bounds the model.
The two regions of 512 MB that it keeps registered are not counted: that no further
transport can be made is the fault `create`, which may happen at any time.  That the
second is long enough, unless `late` is chosen, covers the epoll thread too: it has left
the handler when the main thread goes on.  Nothing in the code ensures it.

### HashMap

A slot's chain is a sequence; a new entry goes behind the first one, as in
`defaultPut`.  `resetHashMap` puts the entries (`Entries`, in table order) one after the
other into an empty table (`Reput`).  The hash of a key is a constant; its reduction to
a slot is not.  Strings behind the stored pointers do not change here; `LogBuffer` is
about what happens when they do.

## 3. Runs

| Run | Instance | Result |
|---|---|---|
| `unlock_queue` | 4 slots, 2 entries | passes: types, `SlotsExclusive`, FIFO refinement, `Drains` |
| `log_ring` | ring of 8, lengths 3 to 5, 5 logs | passes: `RingInv` and the four properties it implies |
| `log_buffer` | ring of 16, 5 programs of 3 to 5 logs, queues of 3 | passes: values, keys, dirty map, no exit, room in `sending_queue`, refinement of `LogRing`, `AllExecuted`, `AllForwarded` |
| `log_buffer_stale_tag` | 3 logs of half the ring | `ValuesDelivered` is violated |
| `log_buffer_dirty_key` | one key three times | `NoAbort` is violated |
| `log_buffer_middle` | the programs of `log_buffer`, a middle node | `ForwardsValues` is violated |
| `rdma_work` | 3 threads, 8 calls, failures, a break and a stop | passes: `WorksAlive`, `WriteFlagGuards`, refinement of `RemoteMemory`, `CallsReturn` |
| `rdma_work_torn_malloc` | malloc and write | `MallocComplete` is violated |
| `rdma_work_send_twice` | two sends of one thread | `WorksAlive` is violated |
| `hash_map` | 5 keys, table of 2 to 8 | passes: `SizeExact`, `LoadBounded`, refinement of `Map` |
| `connection` | 3 nodes, 4 transports each, six mixes of faults | passes: `CountIsOfList`, `KeptIsServed`, `OneConnectionPerPeer`, `RetriesConnect` |
| `connection_late` | 2 nodes, a handshake that takes too long | `AllConnected` is violated |

Three properties of `connection` leave out the faults after which the code does not
keep them:

| Property | Left out | What happens there |
|---|---|---|
| `CountIsOfList` | `drop`, `client_error`, `server_error` | a client's transport that is lost early is counted and unlinked as if it were a peer's |
| `OneConnectionPerPeer` | `late` | two handshakes of one peer pass the search of the list before either is established |
| `RetriesConnect` | all but `resolve`, `route`, `serve`, `accept` | a connection is stranded (`late`, `overtake`), never made again (`disconnect`), or the node gives up or crashes (`create`, `connect`, `drop`, the errors) |

`KeptIsServed` leaves out none.  `AllConnected` asks for connections that are up: a
transport that was kept and has broken does not count.  `CallsReturn` leaves out behaviours
in which the connection broke, the epoll thread stopped or the neighbour reported an
error, since the calls then do not return; `AllExecuted` and `AllForwarded` those in which
the ring could not be set up.

### Bounds, and why they are enough

* `unlock_queue`: four slots make the queue empty, partly full and full with both
  indices anywhere; the theorems remove the bound.
* `log_ring`: five logs of 3 to 5 bytes go twice round a ring of 8, ending on
  every position, on the last byte too; the theorems remove the bound.
* `log_buffer`: a ring of 16 bytes with 2 bytes of metadata holds two to three
  logs; the programs put the end of the ring into the metadata, the key and the
  value, fill the ring so that the writer has to wait, and repeat a key.  In the
  passing run no tag falls on a position that was a tag or metadata, no log ends
  on the last byte, and no key repeats once its space is reused: two violation
  runs and item 3 of section 5 are what happens otherwise.  `SIZEOF_MATE` is 1 and
  `SIZEOF_LOG` 2, in the order of the real ones (8 and 32).  Queues of 3 entries
  are enough for the logs a ring of 16 holds.
* `rdma_work`: every kind of call, two threads on one address, and a failure,
  a break or a stop at every point.  Sends of one thread that follow one another are in
  `rdma_work_send_twice`.
* `hash_map`: keys that collide in every table size but one, a chain of three,
  doubling and halving.
* `connection`: three nodes are a head with two targets, a middle node that is both
  client and server, and a tail.  Two faults are enough for one attempt to fail and
  another to meet what it left behind; four transports are more than such a behaviour
  needs at once, so that a name is always free.  The theorems remove the bounds.

### Deadlock

Deadlock is checked where the system runs for ever (queue, ring, map).
`LogBuffer` stops when all logs are executed, and `RdmaWork` when all calls have
returned or one waits for an answer that does not come; `Connection` stops when
everybody is connected or has crashed.  Whether they stop where they should is what
`AllExecuted`, `CallsReturn` and `RetriesConnect` say.

### Fairness

Every thread is a loop that never blocks, so a step of it that stays possible is
taken (weak fairness per thread); the NIC and the neighbour's epoll thread go on
serving what was posted.  Nothing is assumed about failures, which need not
happen, nor about the order in which threads run.  In `Connection` the connection
manager answers every request, and a second is enough for it unless `late` is among
the faults; `RetriesConnect` is stated for the faults that `dhmp_connect` recovers from
(resolving, serving and accepting that fail).  The producer of `UnlockQueue`
need not produce.

## 4. Proofs

The theorems hold for every value of the constants under the assumptions named in
the modules:

| Assumption | Says |
|---|---|
| `LenAssumption` | a queue has at least one slot |
| `RingAssumption` | the size is positive and a log is at least as long as the metadata; the size need not be a power of two, `%` stands for the code's mask |
| `ConnectionAssumption` | at least two nodes, at least one transport, any faults |
| `ProgramAssumption` | finitely many threads, each with a list of calls of the six kinds; nothing is written that a read could take for "nothing" |
| `BufferAssumption` | the ring's size is a power of two, the metadata fits into what precedes the key, keys have at least their NUL and values a byte and the tag |
| `MapAssumption` | keys of any kind with any hash codes, a first table of at least one slot; `NULL` is not a value that is put |

Four theorems of `RdmaWork_proofs`, six on `LogBuffer` and one on `HashMap` have a
hypothesis more:

| Hypothesis | Says | Why it is needed, and why the program has it |
|---|---|---|
| `SendsLast` | a thread calls nothing after a `dhmp_send` | the worker writes to the frame of a send once more after its caller may have left it (`rdma_work_send_twice`); the threads of `log_buffer.c` never send |
| `QueuesHoldRing` | a queue has a slot for each of the shortest logs a ring holds | a full `sending_queue` or `dirty_queue` is met after something was published; `log_copy.h:12` and `log_buffer.c:38` have 2048 slots for 64 bytes |
| `[]TagsFresh` | the byte a tag will fall on was last a byte of a string, or none | `log_buffer_stale_tag` shows a log that is executed without its value; true of the program's logs, whose 49 bytes in a ring of 64 make each tag fall on byte 33 of the log before it, in its key |
| `[]KeysOnce` | no two logs in the ring have the same key | `log_buffer_dirty_key` shows the exit; true of the keys of `NAME_LISTS`, whose first characters differ (`log_buffer.c:271`) |
| `HasLongest` | one of the programs is the longest | only for `LinkImplementsRing`: `LogRing` has a bound on the number of logs; the program has `REPEAT` of them (`log_buffer.c:34`, `:278`) |
| `Doubles` | the first table has at least half of `DEFAULT_MAP_SIZE` slots | only for `LoadStaysBounded`: `resetHashMap` refuses to make a smaller one (`mid_hashmap.c:269`); `dirty_map` has 1024 for 50 (`log_buffer.c:817`) |

* Queue.  The inductive invariant is `TypeOK /\ SlotsExclusive`: between the test
  for full and the publication `Succ(wid) # rid` stays true because the consumer
  only moves `rid` towards `wid`; between `emptyQueue` and `popQueue` `wid # rid`
  stays true because the producer only moves `wid` away.  From it,
  `QueueImplementsFIFO` shows that `PutPublish` is a `Put`, `Pop` is a `Take` and
  every other step leaves the content as it is, by the lemmas of `RingArithmetic`
  on `(i + 1) % n`.
* Ring.  Pointers modulo the size say little; `RingInv` adds the counts they stand
  for.  Logs lie one behind the other (`LogsAdjacent`), every pointer is its count
  modulo the size (`PointersCount`), and the counts are ordered, with less than a
  lap between the read pointer the writer knows and its write pointer
  (`StagesOrdered`).  With `ParsedInOrder` it is inductive: the log that
  `read_log_key` meets at `rdKey` is the next one because the next one covers that
  position and no later one can within a lap.  `LiveLogsDisjoint`,
  `StaleReadPointerSafe` and `ReadsNeverRefused` follow from it.

* Connections, any faults.  `IndInv` in `Connection_proofs` is `TypeOK`, `Shape` and
  `Counts`.  `Stage` lists how far the two ends of a transport can be: which event is
  under way, what the server's state is and whether it is listed; `StateRight` relates
  it to the client's state, `Trying` and `Kept` to the main thread, `Counts` adds that
  without early losses no event reaches a client that would make it unlink anything.
  `CountIsOfList` and `KeptIsServed` follow; the latter needs that `CONNECTED` at the
  client means established, or about to be, at the server.
* Connections, handshakes in time.  `Calm` is proved on top, for every fault but `late`:
  a transport that may still get connected (`Going`) is the one the main thread waits
  for or has kept (`InHand`), what `dhmp_connect` returns is past connecting at the
  server too (`Waits`), and of one client at most one entry of a list is connected or may
  become so (`Single`).  A new attempt begins only when nothing of the old one is under
  way, so its request finds the old entry connected, or the old entry can never be
  connected any more.  This does not depend on the client's `trans_state`, which an epoll
  thread ahead of the main thread leaves wrong (`overtake`).  `OneConnectionPerPeer`
  follows.

* Calls on remote memory.  The inductive invariant of `RdmaWork_proofs` is `Inv`:
  what a flag of a caller means (`CallersOK`), that `work_list` names threads that wait,
  once each, and never the worker's own (`WorkOK`), whose frame is written to after a
  send (`SentOK`), which `write_flag` may be set (`FlagsOK`), and what can be in the
  queue pair and in the completion queue at all (`SqOK`, `CqOK`): only requests and
  answers of the call the worker is busy with, and the answer of a `malloc` whose last
  field is still to be copied.  `WorksAlive` and `WriteFlagGuards` follow, and so does
  the refinement `CallsSeeOneMemory`: `NicAccess` and the serving of a request are the
  moment a call takes effect, `Call` and `Return` its ends, a read that `PostFails` ends is lost (`LoseRead`), all other
  steps are hidden.
* One link, whatever the bytes.  `LinkInv` in `LogBuffer_proofs` has the types and the sum
  of the reader's queues (`PipeOK`).  It needs none of the hypotheses above.  `LinkTypes`
  follows.
* One link, byte by byte.  `BytesInv` in `LogBufferBytes_proofs` is `LinkInv` and, as for
  the ring, logs that lie one behind the other, pointers as counts, stages in order.
  On top of that it says what the two threads have still to write (`WritesOK`: the parts
  of a write cut at the end of the ring follow one another and stay in the log's place),
  what is in the ring (`MemOK`: every byte is one that was written there, and the last
  one that was: no later one lies a lap behind) and what the entries in the reader's
  queues are (`EntriesOK`).  A byte of a log that is not freed is therefore itself once
  it was written (`LiveCell`), and a tag that reads 1 is the log's own (`TagMeansArrived`);
  this is where `TagsFresh` is used.  `LinkDeliversValues`, `LinkKeepsKeys` and
  `LinkSendsAll` follow.
* The dirty map.  `DirtyInv` adds that `dirty_map` has one entry with count 1 per log of
  `dirty_queue` and that the reader has not aborted.  Since the log of an entry is not
  freed, the string behind its key pointer is the key (`KeyStillReads`), so `clean_log`
  finds it: `ReaderNeverAborts`, `DirtyMapIsExact`.

* The link implements the ring.  `LinkImplementsRing` maps the threads' steps to those of
  `LogRing`: `WriteMate`, where there is room, reserves a log (`Reserve`); `PushWr` publishes
  the write pointer (`Publish`); the last byte of a value that the NIC puts into the ring is
  its arrival (`Arrive`); `ReadKey` parses (`Parse`), `CleanLog` gives the space back
  (`Execute`), `FetchRd` reads the read pointer (`ReadRemoteRd`); all other steps leave the
  state of the ring as it is (one lemma `...Refines` per action, `StepRefines` for all).
  `RefineInv` is `BytesInv`, `DirtyInv` and `CountOK`: as many logs were counted by the writer
  as were given to `NIC_thread`.  The constants put in for those of `LogRing` meet
  `RingAssumption` (`RingConstants`), so the theorems of `LogRing_proofs` apply to them.
* The hash map.  `MapInv` says that every entry is in the slot of its key (`Hashed`), that no
  chain has a key twice (`Distinct`) and that `size` counts the entries.  What the two loops
  of `resetHashMap` compute is shown by induction over their steps.  The library's induction
  theorems cannot be used for it (they take an operator as a parameter); `UpTo` is induction
  in terms of the set of numbers that have the property, from the well-foundedness of `<`, and `Iterate`
  gives the function a recursive definition describes, so that `Entries` and `Reput` are what
  their equations say (`EntriesSteps`, `ReputSteps`).  From there: the entries collected are
  those of the chains, each key once (`EntriesAre`); putting them back one by one loses none
  (`ReputHolds`), since their keys differ; so a resize keeps what the table holds
  (`ResetKeeps`).  Each operation then adds, replaces or takes away the entry of its key and no
  other, which is `HashMapImplementsMap`.

TLC checked every inductive invariant on an instance before it was proved.

Left to TLC: liveness (`Drains`, `AllExecuted`, `AllForwarded`, `CallsReturn`,
`RetriesConnect`), which the prover does not do.  Every invariant and every refinement that a
passing run checks is a theorem; what the runs that expect a violation show are
counterexamples.

## 5. Disagreements between code and comments

Those with a run are refuted by TLC; `PROJECT.json` quotes the lines.

1. The tag byte is not zeroed after reading (`log_buffer.c:454-455`), so a log that
   ends where an earlier one ended is handed out before its value arrives
   (`log_buffer_stale_tag`).
2. The dirty map does store key pointers (`log_buffer.c:677-678`), so a key written
   again while an older log with it is freed is lost, and the reader exits
   (`log_buffer_dirty_key`).
3. The write pointer may rest on `size` (`log_copy.h:88`, `log_buffer.c:410`), and
   the next write has length 0, which the NIC may refuse to register (`LandByte` has
   the case; `TypeOK` allows the pointer there).
4. A middle node frees a log while its NIC thread still has to send it
   (`log_buffer.c:331`, `:696`, `:711`), so what is sent need not be the value
   (`log_buffer_middle`).  And since it never calls `rb_write_mate`, the node behind it
   is not told of anything, although the order of the configuration is said to be that
   of the replication chain (`README.md:64`).
5. `dhmp_malloc` may return before the rkey is there (`mid_client_work.c:133-137`,
   `rdma_work_torn_malloc`).
6. The error answer to `dhmp_buff_malloc` is dropped (`mid_rdma_recv_handler.c:305`):
   the call never returns and "Init buff fail!" (`log_buffer.c:832`) is not reached.
   `CallsReturn` leaves calls answered by an error out for this reason.
7. `done_flag` of a send is set twice (`mid_client_work.c:46`, `:400`,
   `rdma_work_send_twice`).
8. A connection that is made after the second `dhmp_connect` waits is kept by the
   server and by nobody else; all later requests are turned away as repeated
   (`mid_rdma_init.c:84-88`, `connection_late`).

One more comment is wrong but of no consequence: "8 slots ... extended automatically"
(`mid_hashmap.c:253`) does not hold for tables of fewer than 25 slots, which
`resetHashMap` refuses to double (`:269`).  `LoadBounded` is about tables like the
program's, which has 1024.

## 6. Not modelled, and the plan

Not modelled: `dhmp_free` and `dhmp_close` (their works are never queued), `rb_write`,
`memcpy_buffer`, `index_char`, `read_one_log`, `dhmp_rdma_read_after_write`,
`defaultClear`, `murmur3_32` (no caller); `dhmp_server_destroy`
(no caller); configuration, devices,
logging (no state that a property is about).  Send regions and receive buffers:
every message is a request that its sender waits for or the answer to one, so one
message per direction is under way, and neither runs out.  Failures of
`dhmp_server_init` end the process before a peer can see it.

Left, in this order:

1. The encoding of a node and an address in 64 bits and the lookup by 48 of them
   (`mid_client_work.c:50-73`, `225-267`); it needs two neighbours with overlapping
   addresses.
2. A chain of three nodes as a composition of two `LogBuffer` links, once a middle node
   writes the metadata and moves the write pointer of the node behind it.
