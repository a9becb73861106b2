------------------------------ MODULE RdmaWork ------------------------------
(***************************************************************************)
(* The calls a node makes on the memory of its neighbour                   *)
(* (mid_rdma_top_api.c): callers queue a work and spin on a flag in their  *)
(* stack frame, one thread works the list off (mid_client_work.c), posts   *)
(* to the queue pair (mid_rdma_transport.c) and spins again, the epoll     *)
(* thread handles completions and answers (mid_rdma_cq_handler.c,          *)
(* mid_rdma_recv_handler.c) and so wakes it, and the neighbour's NIC and   *)
(* epoll thread serve the requests.                                        *)
(***************************************************************************)
EXTENDS Integers, Sequences, FiniteSets, SequencesExt

CONSTANTS
  Program,   \* per thread, the calls it makes: op, addr, val
  MayFail,   \* may the neighbour fail to allocate or to register memory?
  MayBreak   \* may the connection break, or the epoll thread stop?

Threads == DOMAIN Program
Calls == UNION {Range(Program[t]) : t \in Threads}
Addrs == {"buff", "mate"} \cup {c.addr : c \in Calls}
None == "none"
Zeros == "zeros"
NoMem == "nomem"
Unread == "unread"  \* what the caller's buffer holds before a read

(* Every malloc gets an addr_info of its own (mid_rdma_top_api.c:89), and *)
(* what is written differs from the value that stands for no result.      *)
ASSUME ProgramAssumption ==
  /\ MayFail \in BOOLEAN /\ MayBreak \in BOOLEAN
  /\ IsFiniteSet(Threads)
  /\ \A t \in Threads : Program[t] \in Seq(Calls)
  /\ \A c \in Calls :
       /\ c.op \in {"malloc", "buff", "read", "write", "sendw", "sendr"}
       /\ c.op \in {"write", "sendw"} => c.val # None
       /\ c.op = "malloc" => c.addr \notin {"buff", "mate"}
  /\ \A t, u \in Threads : \A i \in DOMAIN Program[t], j \in DOMAIN Program[u] :
       /\ Program[t][i].op = "malloc" /\ Program[u][j].op = "malloc"
       /\ Program[t][i].addr = Program[u][j].addr
       => t = u /\ i = j

VARIABLES
  \* the callers
  pc,         \* calls returned so far
  waiting,    \* is the thread inside a call?
  done, recv, \* done_flag, recv_flag (done_flag_recv) in its stack frame
  local,      \* local_buf
  known,      \* addresses the callers were given
  out,        \* what the last call returned
  effect,     \* what the call found when it took effect (a ghost)
  \* the client
  workList,   \* client->work_list, of the threads that wait
  wpc, cur,   \* dhmp_work_handle_thread: where it stands, whose work it does
  taskDone,   \* done_flag of the dhmp_task it posted
  writeFlag,  \* write_flag per dhmp_addr_info
  copied,     \* fields of nvm_mr copied: addr, length, rkey, in this order
  inTable,    \* addresses in addr_info_ht
  \* the network
  conn,       \* trans_state is DHMP_TRANSPORT_STATE_CONNECTED
  sq,         \* send queue of the queue pair
  cq,         \* completion queue
  cqpc,       \* where the completion handler stands
  failed,     \* has an error answer or completion, or a stop, occurred?
  \* the neighbour
  mem         \* content of the memory allocated there

callers == <<pc, waiting, done, recv, local, known, out>>
worker == <<workList, wpc, cur, taskDone>>
infos == <<writeFlag, copied, inTable>>
network == <<conn, sq, cq, cqpc, failed>>
vars == <<pc, waiting, done, recv, local, known, out, effect, workList, wpc,
          cur, taskDone, writeFlag, copied, inTable, conn, sq, cq, cqpc,
          failed, mem>>

Init ==
  /\ pc = [t \in Threads |-> 0]
  /\ waiting = [t \in Threads |-> FALSE]
  /\ done = [t \in Threads |-> FALSE]
  /\ recv = [t \in Threads |-> FALSE]
  /\ local = [t \in Threads |-> None]
  /\ known = {}
  /\ out = [t \in Threads |-> None]
  /\ effect = [t \in Threads |-> None]
  /\ workList = << >>
  /\ wpc = "idle"
  /\ cur \in Threads
  /\ taskDone = FALSE
  /\ writeFlag = [a \in Addrs |-> FALSE]
  /\ copied = [a \in Addrs |-> 0]
  /\ inTable = {}
  /\ conn = TRUE
  /\ sq = << >>
  /\ cq = << >>
  /\ cqpc = "poll"
  /\ failed = FALSE
  /\ mem = [a \in Addrs |-> NoMem]

(* The call a thread makes or is in. *)
CallOf(t) == Program[t][pc[t] + 1]

IsRead(c) == c.op \in {"read", "sendr"}
IsSend(c) == c.op \in {"sendw", "sendr"}
IsAlloc(c) == c.op \in {"malloc", "buff"}
Given(c) == IF c.op = "buff" THEN {"buff", "mate"} ELSE {c.addr}

----------------------------------------------------------------------------
(* The callers: dhmp_malloc, dhmp_buff_malloc, dhmp_read, dhmp_write,      *)
(* dhmp_send.  An address is used once dhmp_malloc has returned it.        *)

Call(t) ==
  /\ ~waiting[t]
  /\ pc[t] < Len(Program[t])
  /\ IsAlloc(CallOf(t)) \/ CallOf(t).addr \in known
  /\ conn
  /\ waiting' = [waiting EXCEPT ![t] = TRUE]
  /\ done' = [done EXCEPT ![t] = FALSE]
  /\ recv' = [recv EXCEPT ![t] = FALSE]
  /\ local' = [local EXCEPT ![t] = IF IsRead(CallOf(t)) THEN Unread ELSE CallOf(t).val]
  /\ workList' = Append(workList, t)
  /\ copied' = [a \in Addrs |->
                  IF IsAlloc(CallOf(t)) /\ a \in Given(CallOf(t)) THEN 0 ELSE copied[a]]
  /\ UNCHANGED <<pc, known, out, effect, wpc, cur, taskDone, writeFlag, inTable>>
  /\ UNCHANGED <<network, mem>>

CallRefused(t) ==
  /\ ~waiting[t]
  /\ pc[t] < Len(Program[t])
  /\ IsAlloc(CallOf(t)) \/ CallOf(t).addr \in known
  /\ ~conn
  /\ out' = [out EXCEPT ![t] = "error"]
  /\ pc' = [pc EXCEPT ![t] = @ + 1]
  /\ UNCHANGED <<waiting, done, recv, local, known, effect>>
  /\ UNCHANGED <<worker, infos, network, mem>>

Return(t) ==
  /\ waiting[t]
  /\ done[t]
  /\ waiting' = [waiting EXCEPT ![t] = FALSE]
  /\ out' = [out EXCEPT ![t] = IF IsRead(CallOf(t)) THEN local[t] ELSE "ok"]
  /\ known' = IF IsAlloc(CallOf(t)) THEN known \cup Given(CallOf(t)) ELSE known
  /\ pc' = [pc EXCEPT ![t] = @ + 1]
  /\ effect' = [effect EXCEPT ![t] = None]
  /\ UNCHANGED <<done, recv, local, worker, infos, network, mem>>

----------------------------------------------------------------------------
(* dhmp_work_handle_thread and the handlers it calls. *)

(* Variant: the work stays in the list. *)
TakeNoDel ==
  /\ wpc = "idle"
  /\ cqpc # "over"
  /\ workList # << >>
  /\ cur' = Head(workList)
  /\ wpc' = "start"
  /\ UNCHANGED <<workList, taskDone, effect, callers, infos, network, mem>>

(* The loop ends with ctx.stop, as the epoll thread's does. *)
Take ==
  /\ wpc = "idle"
  /\ cqpc # "over"
  /\ workList # << >>
  /\ cur' = Head(workList)
  /\ workList' = Tail(workList)
  /\ wpc' = "start"
  /\ UNCHANGED <<taskDone, effect, callers, infos, network, mem>>

(* What the worker posts: an RDMA read or write with the rkey it has, or a  *)
(* message.  On a connection that is gone dhmp_post_send drops the message, *)
(* and a queue pair in error takes a read or a write and flushes it.        *)
Post(c) ==
  sq' = IF conn THEN Append(sq, [thread |-> cur, call |-> c,
                                 rkey |-> IsAlloc(c) \/ IsSend(c) \/ copied[c.addr] = 3])
                ELSE sq

(* dhmp_malloc_work_handler and dhmp_buff_malloc_work_handler: ask. *)
AllocStart ==
  /\ wpc = "start"
  /\ IsAlloc(CallOf(cur))
  /\ Post(CallOf(cur))
  /\ wpc' = "wait"
  /\ UNCHANGED <<workList, cur, taskDone, effect, callers, infos>>
  /\ UNCHANGED <<conn, cq, cqpc, failed, mem>>

(* Variant: dhmp_addr_info_insert_ht is forgotten. *)
AllocFinishNoInsert ==
  /\ wpc = "wait"
  /\ \/ CallOf(cur).op = "malloc" /\ copied[CallOf(cur).addr] >= 2
     \/ CallOf(cur).op = "buff" /\ recv[cur]
  /\ writeFlag' = [a \in Addrs |-> writeFlag[a] /\ a \notin Given(CallOf(cur))]
  /\ done' = [done EXCEPT ![cur] = TRUE]
  /\ wpc' = "idle"
  /\ UNCHANGED <<pc, waiting, recv, local, known, out, effect, workList, cur,
                 taskDone, copied, inTable, network, mem>>

(* dhmp_malloc_work_handler goes on as soon as a length is there, *)
(* dhmp_buff_malloc_work_handler when the answer says so.         *)
AllocFinish ==
  /\ wpc = "wait"
  /\ \/ CallOf(cur).op = "malloc" /\ copied[CallOf(cur).addr] >= 2
     \/ CallOf(cur).op = "buff" /\ recv[cur]
  /\ writeFlag' = [a \in Addrs |-> writeFlag[a] /\ a \notin Given(CallOf(cur))]
  /\ inTable' = inTable \cup Given(CallOf(cur))
  /\ done' = [done EXCEPT ![cur] = TRUE]
  /\ wpc' = "idle"
  /\ UNCHANGED <<pc, waiting, recv, local, known, out, effect, workList, cur,
                 taskDone, copied, network, mem>>

(* dhmp_get_addr_info_from_ht finds the address. *)
Known(a) == a \in inTable

(* The handlers of read, write and send: wait until no write to the address  *)
(* is under way, then post.  An address that is not in the table is skipped; *)
(* dhmp_send_work_handler follows a null pointer then.                       *)
RwStart ==
  /\ wpc = "start"
  /\ ~IsAlloc(CallOf(cur))
  /\ LET c == CallOf(cur)
     IN IF Known(c.addr)
        THEN /\ ~writeFlag[c.addr]
             /\ writeFlag' = IF c.op = "read" THEN writeFlag
                                              ELSE [writeFlag EXCEPT ![c.addr] = TRUE]
             /\ Post(c)
             /\ taskDone' = FALSE
             /\ wpc' = "wait"
             /\ UNCHANGED done
        ELSE /\ done' = [done EXCEPT ![cur] = ~IsSend(c)]
             /\ wpc' = IF IsSend(c) THEN "crash" ELSE "idle"
             /\ UNCHANGED <<writeFlag, sq, taskDone>>
  /\ UNCHANGED <<pc, waiting, recv, local, known, out, effect, workList, cur>>
  /\ UNCHANGED <<copied, inTable, conn, cq, cqpc, failed, mem>>

(* Or ibv_post_send fails.  Then dhmp_rdma_read returns -1, which            *)
(* dhmp_read_work_handler does not look at: the call returns 0, with nothing *)
(* read.  dhmp_rdma_write ends the process.                                  *)
PostFails ==
  /\ wpc = "start"
  /\ ~conn
  /\ LET c == CallOf(cur)
     IN /\ c.op \in {"read", "write"}
        /\ Known(c.addr) /\ ~writeFlag[c.addr]
        /\ IF c.op = "read"
           THEN /\ done' = [done EXCEPT ![cur] = TRUE]
                /\ effect' = [effect EXCEPT ![cur] = Unread]
                /\ wpc' = "idle"
                /\ UNCHANGED writeFlag
           ELSE /\ writeFlag' = [writeFlag EXCEPT ![c.addr] = TRUE]
                /\ wpc' = "crash"
                /\ UNCHANGED <<done, effect>>
  /\ UNCHANGED <<pc, waiting, recv, local, known, out, workList, cur, taskDone>>
  /\ UNCHANGED <<copied, inTable, network, mem>>

(* Variant: dhmp_rdma_read and dhmp_rdma_write do not wait. *)
RwFinishEarly ==
  /\ wpc = "wait"
  /\ CallOf(cur).op \in {"read", "write"}
  /\ done' = [done EXCEPT ![cur] = TRUE]
  /\ wpc' = "idle"
  /\ UNCHANGED <<pc, waiting, recv, local, known, out, effect, workList, cur,
                 taskDone, infos, network, mem>>

(* dhmp_rdma_read and dhmp_rdma_write return when the task is done. *)
RwFinish ==
  /\ wpc = "wait"
  /\ CallOf(cur).op \in {"read", "write"}
  /\ taskDone
  /\ done' = [done EXCEPT ![cur] = TRUE]
  /\ wpc' = "idle"
  /\ UNCHANGED <<pc, waiting, recv, local, known, out, effect, workList, cur,
                 taskDone, infos, network, mem>>

(* dhmp_rdma_send sets done_flag, so the caller may return ... *)
SendFinish ==
  /\ wpc = "wait"
  /\ IsSend(CallOf(cur))
  /\ recv[cur]
  /\ done' = [done EXCEPT ![cur] = TRUE]
  /\ wpc' = "sent"
  /\ UNCHANGED <<pc, waiting, recv, local, known, out, effect, workList, cur,
                 taskDone, infos, network, mem>>

(* ... before dhmp_send_work_handler clears write_flag and sets done_flag  *)
(* again, in what may by then be the frame of the thread's next call.      *)
SendClear ==
  /\ wpc = "sent"
  /\ LET c == Program[cur][IF waiting[cur] /\ cur \notin Range(workList)
                           THEN pc[cur] + 1 ELSE pc[cur]]
     IN writeFlag' = [writeFlag EXCEPT ![c.addr] = FALSE]
  /\ done' = [done EXCEPT ![cur] = TRUE]
  /\ wpc' = "idle"
  /\ UNCHANGED <<pc, waiting, recv, local, known, out, effect, workList, cur,
                 taskDone, copied, inTable, network, mem>>

Worker ==
  \/ Take \/ AllocStart \/ AllocFinish \/ RwStart \/ PostFails \/ RwFinish
  \/ SendFinish \/ SendClear

----------------------------------------------------------------------------
(* The neighbour serves the requests in the order posted; the completion   *)
(* or the answer arrives in the completion queue of the client.            *)

Answer(kind) ==
  /\ sq' = Tail(sq)
  /\ cq' = Append(cq, [thread |-> Head(sq).thread, call |-> Head(sq).call,
                       kind |-> kind, val |-> effect'[Head(sq).thread]])

TakesEffect(val) == effect' = [effect EXCEPT ![Head(sq).thread] = val]

(* The NIC performs an RDMA read or write. *)
NicAccess ==
  /\ sq # << >>
  /\ LET c == Head(sq).call
     IN /\ c.op \in {"read", "write"}
        /\ Head(sq).rkey
        /\ mem' = IF c.op = "write" THEN [mem EXCEPT ![c.addr] = c.val] ELSE mem
        /\ TakesEffect(IF c.op = "read" THEN mem[c.addr] ELSE "ok")
        /\ local' = IF c.op = "read"
                    THEN [local EXCEPT ![Head(sq).thread] = mem[c.addr]] ELSE local
        /\ Answer("completion")
  /\ UNCHANGED <<pc, waiting, done, recv, known, out, worker, infos>>
  /\ UNCHANGED <<conn, cqpc, failed>>

(* It denies one with a wrong rkey, and the queue pair is in error. *)
NicDenies ==
  /\ sq # << >>
  /\ Head(sq).call.op \in {"read", "write"}
  /\ ~Head(sq).rkey
  /\ UNCHANGED effect
  /\ Answer("error")
  /\ conn' = FALSE
  /\ failed' = TRUE
  /\ UNCHANGED <<callers, worker, infos, cqpc, mem>>

(* dhmp_malloc_request_handler, dhmp_malloc_buff_request_handler: the      *)
(* receive ring is allocated at the first request and given out again at   *)
(* every later one.                                                        *)
ServeAlloc ==
  /\ sq # << >>
  /\ LET c == Head(sq).call
         fresh == c.op = "malloc" \/ mem["buff"] = NoMem
     IN /\ IsAlloc(c)
        /\ mem' = IF fresh THEN [a \in Addrs |-> IF a \in Given(c) THEN Zeros ELSE mem[a]]
                           ELSE mem
        /\ TakesEffect("ok")
        /\ Answer("answer")
  /\ UNCHANGED <<callers, worker, infos, conn, cqpc, failed>>

(* Their error paths answer DHMP_MSG_MALLOC_ERROR, DHMP_BUFF_MALLOC_ERROR. *)
ServeAllocFails ==
  /\ MayFail
  /\ sq # << >>
  /\ IsAlloc(Head(sq).call)
  /\ Head(sq).call.op = "buff" => mem["buff"] = NoMem
  /\ UNCHANGED effect
  /\ Answer("error")
  /\ failed' = TRUE
  /\ UNCHANGED <<callers, worker, infos, conn, cqpc, mem>>

(* dhmp_send_request_handler *)
ServeSend ==
  /\ sq # << >>
  /\ LET c == Head(sq).call
     IN /\ IsSend(c)
        /\ mem' = IF c.op = "sendw" THEN [mem EXCEPT ![c.addr] = c.val] ELSE mem
        /\ TakesEffect(IF c.op = "sendr" THEN mem[c.addr] ELSE "ok")
        /\ Answer("answer")
  /\ UNCHANGED <<callers, worker, infos, conn, cqpc, failed>>

Neighbour == NicAccess \/ NicDenies \/ ServeAlloc \/ ServeAllocFails \/ ServeSend

(* The epoll thread is not in the middle of a completion. *)
BetweenEvents ==
  /\ cqpc = "poll"
  /\ cq # << >> /\ Head(cq).kind = "answer" /\ Head(cq).call.op = "malloc" =>
       copied[Head(cq).call.addr] = 0

(* The connection breaks; what is under way is flushed with errors, which   *)
(* dhmp_wc_error_handler only logs.  on_cm_disconnected destroys the queue  *)
(* pair and unwatches the completion channel, so that completions which are *)
(* there already may be lost too.                                           *)
Break ==
  /\ MayBreak
  /\ conn /\ cqpc # "over"
  /\ conn' = FALSE
  /\ failed' = TRUE
  /\ sq' = << >>
  /\ UNCHANGED cq \/ (BetweenEvents /\ cq' = << >>)
  /\ UNCHANGED <<effect, callers, worker, infos, cqpc, mem>>

(* The epoll thread ends: rdma_connect has failed for a transport that      *)
(* dhmp_connect gave up earlier, which sets client->ctx.stop.  What is left *)
(* of its batch of events counts as handled before.                         *)
Stop ==
  /\ MayBreak
  /\ BetweenEvents
  /\ cqpc' = "over"
  /\ failed' = TRUE
  /\ UNCHANGED <<effect, callers, worker, infos, conn, sq, cq, mem>>

----------------------------------------------------------------------------
(* dhmp_comp_channel_handler on the client. *)

Handling(kind) == cqpc # "over" /\ cq # << >> /\ Head(cq).kind = kind

(* Variant: write_flag is not cleared. *)
CompleteWriteKeepsFlag ==
  /\ Handling("completion")
  /\ Head(cq).call.op = "write"
  /\ cqpc = "poll"
  /\ cqpc' = "flag"
  /\ UNCHANGED writeFlag
  /\ UNCHANGED <<effect, callers, worker, copied, inTable, conn, sq, cq, failed, mem>>

(* A write's completion clears write_flag first ... *)
CompleteWrite ==
  /\ Handling("completion")
  /\ Head(cq).call.op = "write"
  /\ cqpc = "poll"
  /\ cqpc' = "flag"
  /\ writeFlag' = [writeFlag EXCEPT ![Head(cq).call.addr] = FALSE]
  /\ UNCHANGED <<effect, callers, worker, copied, inTable, conn, sq, cq, failed, mem>>

(* Variant: only a read's completion sets done_flag. *)
CompleteReadOnly ==
  /\ Handling("completion")
  /\ Head(cq).call.op = "read" \/ cqpc = "flag"
  /\ taskDone' = (Head(cq).call.op = "read")
  /\ cq' = Tail(cq)
  /\ cqpc' = "poll"
  /\ UNCHANGED <<effect, callers, workList, wpc, cur, infos, conn, sq, failed, mem>>

(* ... and then, like a read's, sets done_flag of the task. *)
Complete ==
  /\ Handling("completion")
  /\ Head(cq).call.op = "read" \/ cqpc = "flag"
  /\ taskDone' = TRUE
  /\ cq' = Tail(cq)
  /\ cqpc' = "poll"
  /\ UNCHANGED <<effect, callers, workList, wpc, cur, infos, conn, sq, failed, mem>>

(* dhmp_malloc_response_handler copies the region's description, the        *)
(* worker watching; the whole handler ends with the last field.             *)
CopyMr ==
  /\ Handling("answer")
  /\ Head(cq).call.op = "malloc"
  /\ copied' = [copied EXCEPT ![Head(cq).call.addr] = @ + 1]
  /\ cq' = IF copied[Head(cq).call.addr] = 2 THEN Tail(cq) ELSE cq
  /\ UNCHANGED <<effect, callers, worker, writeFlag, inTable, conn, sq, cqpc, failed, mem>>

(* dhmp_malloc_buff_response_handler copies both descriptions and then     *)
(* sets the flag; dhmp_send_response_handler does so with the data.        *)
AnswerReceived ==
  /\ Handling("answer")
  /\ LET c == Head(cq).call
         t == Head(cq).thread
     IN /\ c.op # "malloc"
        /\ copied' = IF IsAlloc(c)
                     THEN [a \in Addrs |-> IF a \in Given(c) THEN 3 ELSE copied[a]]
                     ELSE copied
        /\ local' = IF c.op = "sendr" THEN [local EXCEPT ![t] = Head(cq).val] ELSE local
        /\ recv' = [recv EXCEPT ![t] = TRUE]
  /\ cq' = Tail(cq)
  /\ UNCHANGED <<pc, waiting, done, known, out, effect, worker, writeFlag, inTable>>
  /\ UNCHANGED <<conn, sq, cqpc, failed, mem>>

(* dhmp_wc_error_handler logs, dhmp_malloc_error_handler does nothing, and *)
(* DHMP_BUFF_MALLOC_ERROR is not handled.                                  *)
IgnoreError ==
  /\ Handling("error")
  /\ cq' = Tail(cq)
  /\ UNCHANGED <<effect, callers, worker, infos, conn, sq, cqpc, failed, mem>>

(* Nothing of the process goes on after an exit. *)
Running == wpc # "crash"

Handler ==
  Running /\ (CompleteWrite \/ Complete \/ CopyMr \/ AnswerReceived \/ IgnoreError)

Caller(t) == Running /\ (Call(t) \/ CallRefused(t) \/ Return(t))

Next ==
  \/ \E t \in Threads : Caller(t)
  \/ Worker \/ Neighbour \/ Break \/ Stop \/ Handler

Spec == Init /\ [][Next]_vars

(* Every thread is a loop that keeps running, and the network delivers. *)
FairSpec ==
  /\ Spec
  /\ \A t \in Threads : WF_vars(Caller(t))
  /\ WF_vars(Worker)
  /\ WF_vars(Neighbour)
  /\ WF_vars(Handler)

----------------------------------------------------------------------------
(* dhmp_send may return before dhmp_send_work_handler is through with the   *)
(* frame of the call: what a thread calls after a send may find its flag    *)
(* set.  The log buffer's threads make no send at all.                      *)
SendsLast ==
  \A t \in Threads : \A i \in DOMAIN Program[t] :
    IsSend(Program[t][i]) => i = Len(Program[t])

(* An address that was handed out is in the hash table *)
(* (mid_client_work.c:147-151, 214-215).               *)
TypeOK ==
  /\ pc \in [Threads -> Nat]
  /\ waiting \in [Threads -> BOOLEAN]
  /\ done \in [Threads -> BOOLEAN]
  /\ recv \in [Threads -> BOOLEAN]
  /\ known \subseteq inTable
  /\ inTable \subseteq Addrs
  /\ wpc \in {"idle", "start", "wait", "sent", "crash"}
  /\ Range(workList) \subseteq Threads
  /\ writeFlag \in [Addrs -> BOOLEAN]
  /\ copied \in [Addrs -> 0 .. 3]
  /\ conn \in BOOLEAN
  /\ Len(sq) + Len(cq) <= 1 + Cardinality(Threads)
  /\ cqpc \in {"poll", "flag", "over"}

(***************************************************************************)
(* "wait for the server return result" (mid_client_work.c:44): a call      *)
(* returns, and its work and stack frame are gone, only after its work has *)
(* left the list and was done (mid_rdma_top_api.c:52-56, 274-280).         *)
(***************************************************************************)
WorksAlive ==
  /\ IsInjective(workList)
  /\ \A t \in Range(workList) : waiting[t] /\ effect[t] = None
  /\ wpc \in {"start", "wait"} => waiting[cur] /\ cur \notin Range(workList)

(* The writes to a that are posted and not completed. *)
WritesInFlight(a) ==
  {i \in DOMAIN sq : sq[i].call.op = "write" /\ sq[i].call.addr = a}
  \cup {Len(sq) + i : i \in {j \in DOMAIN cq : /\ cq[j].kind = "completion"
                                               /\ cq[j].call.op = "write"
                                               /\ cq[j].call.addr = a
                                               /\ j > 1 \/ cqpc # "flag"}}

(***************************************************************************)
(* "check no the same addr write task in qp" (mid_client_work.c:357): a    *)
(* write that is posted and not completed has write_flag set, and it is    *)
(* the only one for its address.                                           *)
(***************************************************************************)
WriteFlagGuards ==
  \A a \in Addrs :
    /\ Cardinality(WritesInFlight(a)) <= 1
    /\ WritesInFlight(a) # {} => writeFlag[a]
    /\ writeFlag[a] /\ WritesInFlight(a) = {} => wpc # "idle" \/ ~conn

(* The memory a caller sees: the works that have not taken effect are queued, *)
(* the one at which the process ended among them.                             *)
Request(t) == [thread |-> t, call |-> CallOf(t)]
Underway == IF wpc \in {"start", "wait", "crash"} /\ effect[cur] = None
            THEN <<Request(cur)>> ELSE << >>
Listed == [i \in DOMAIN workList |-> Request(workList[i])]
Queued == Underway \o Listed

Memory == INSTANCE RemoteMemory WITH
  result <- effect, queue <- Queued, connected <- conn

(***************************************************************************)
(* The callers see one memory: calls of several threads take effect one at *)
(* a time, in the order queued, before they return, and a read returns     *)
(* what was there then.  Only a read on a connection that is gone may      *)
(* return without effect, its buffer as it was (dhmp.h:174-182,            *)
(* mid_rdma_top_api.c:23-283, mid_client_work.c:333-338).                  *)
(***************************************************************************)
ImplementsMemory == Memory!Spec

(***************************************************************************)
(* Every call returns, unless the connection broke, the epoll thread has   *)
(* stopped or the neighbour reported an error: no flag is missed, whoever  *)
(* is waiting for whom                                                     *)
(* (mid_client_work.c:45, 137, 186, 329, 358, mid_rdma_transport.c:339).   *)
(***************************************************************************)
CallsReturn == \A t \in Threads : waiting[t] ~> (~waiting[t] \/ failed)

(***************************************************************************)
(* "wait for the server return result" (mid_client_work.c:133): when       *)
(* dhmp_malloc hands out an address, its region is described completely.   *)
(***************************************************************************)
MallocComplete == \A a \in known : copied[a] = 3

=============================================================================
