---------------------------- MODULE RemoteMemory ----------------------------
(***************************************************************************)
(* What the calls of mid_rdma_top_api.c promise to the threads that make   *)
(* them: the memory of the other node, on which calls take effect one at a *)
(* time, in the order in which they were queued and before they return,    *)
(* and each call returns what it found then.  Once the connection is gone  *)
(* calls are refused, and a read queued before may return without effect.  *)
(***************************************************************************)
EXTENDS Sequences

CONSTANTS
  Threads, Addrs, Calls,
  None,   \* no result yet
  Zeros,  \* content of memory just allocated
  NoMem,  \* content of memory that is not allocated
  Unread  \* content of the buffer of a read before the call

VARIABLES
  mem,     \* content of every address
  queue,   \* calls that have not taken effect: thread and call
  result,  \* what the call of a thread found, once it took effect
  out,     \* what its last call returned
  connected

vars == <<mem, queue, result, out, connected>>

Init ==
  /\ mem = [a \in Addrs |-> NoMem]
  /\ queue = << >>
  /\ result = [t \in Threads |-> None]
  /\ out = [t \in Threads |-> None]
  /\ connected = TRUE

Pending(t) == result[t] # None \/ \E i \in DOMAIN queue : queue[i].thread = t

(* The memory after call c, and what c finds. *)
MemAfter(c) ==
  CASE c.op = "malloc" -> [mem EXCEPT ![c.addr] = Zeros]
    [] c.op = "buff" -> IF mem["buff"] = NoMem
                        THEN [mem EXCEPT !["buff"] = Zeros, !["mate"] = Zeros] ELSE mem
    [] c.op \in {"write", "sendw"} -> [mem EXCEPT ![c.addr] = c.val]
    [] OTHER -> mem

Found(c) == IF c.op \in {"read", "sendr"} THEN mem[c.addr] ELSE "ok"

Invoke(t, c) ==
  /\ connected
  /\ ~Pending(t)
  /\ queue' = Append(queue, [thread |-> t, call |-> c])
  /\ UNCHANGED <<mem, result, out, connected>>

TakeEffect ==
  /\ queue # << >>
  /\ mem' = MemAfter(Head(queue).call)
  /\ result' = [result EXCEPT ![Head(queue).thread] = Found(Head(queue).call)]
  /\ queue' = Tail(queue)
  /\ UNCHANGED <<out, connected>>

Return(t) ==
  /\ result[t] # None
  /\ out' = [out EXCEPT ![t] = result[t]]
  /\ result' = [result EXCEPT ![t] = None]
  /\ UNCHANGED <<mem, queue, connected>>

Disconnect ==
  /\ connected' = FALSE
  /\ UNCHANGED <<mem, queue, result, out>>

(* A read that can no longer be done returns like any other; nobody is told. *)
LoseRead ==
  /\ ~connected
  /\ queue # << >>
  /\ Head(queue).call.op = "read"
  /\ result' = [result EXCEPT ![Head(queue).thread] = Unread]
  /\ queue' = Tail(queue)
  /\ UNCHANGED <<mem, out, connected>>

(* A call that is not accepted returns an error and has no effect. *)
Refuse(t) ==
  /\ ~connected
  /\ ~Pending(t)
  /\ out' = [out EXCEPT ![t] = "error"]
  /\ UNCHANGED <<mem, queue, result, connected>>

Next ==
  \/ \E t \in Threads, c \in Calls : Invoke(t, c)
  \/ TakeEffect \/ Disconnect \/ LoseRead
  \/ \E t \in Threads : Return(t) \/ Refuse(t)

Spec == Init /\ [][Next]_vars

=============================================================================
