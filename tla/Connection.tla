----------------------------- MODULE Connection -----------------------------
(***************************************************************************)
(* How the nodes of the chain connect (mid_rdma_init.c,                    *)
(* mid_rdma_connection.c, mid_epoll_context.c).  Every node runs a main    *)
(* thread, which connects to its targets one after the other and tries     *)
(* again after a second, an epoll thread for the events of the transports  *)
(* it connects, and one for those it serves.                               *)
(*                                                                         *)
(* A transport <<n, k>> is the k-th that node n has for connecting.  cli   *)
(* is n's struct dhmp_transport, srv the one its target makes for the same *)
(* connection.  A transport that was given up, that no event is on the way *)
(* to and that no server lists stays allocated in the program for ever; it *)
(* can do nothing any more, so here its name is used again.  The memory it *)
(* keeps, two registered regions of 512 MB (dhmp_transport.h:11-12), is    *)
(* not counted here: when none is left Create fails.                       *)
(***************************************************************************)
EXTENDS Integers, FiniteSets

CONSTANTS
  NETS_CNT,   \* nodes of the chain: config.nets_cnt
  MaxTrans,   \* transports of a node that can still do something
  Troubles    \* what may go wrong: kinds of faults, and how many at most

ASSUME ConnectionAssumption ==
  /\ NETS_CNT \in Nat \ {0, 1}  \* test.c:47-51 exits otherwise
  /\ MaxTrans \in Nat \ {0}
  /\ \A s \in Troubles : s.most \in Nat

Node == 0 .. NETS_CNT - 1
Trans == Node \X (1 .. MaxTrans)
None == <<NETS_CNT, 0>>
Done == NETS_CNT

VARIABLES
  faults, left,    \* the kinds of faults of this behaviour, and how many more
  \* the node as a client: dhmp_client_init and dhmp_connect
  mpc,             \* where the main thread stands
  next,            \* the node it connects to
  conn,            \* the transport it is trying
  connectTrans,    \* the transports dhmp_connect returned
  cli,             \* the transports
  loop,            \* the one whose events dhmp_event_channel_handler is reading
  stopped,         \* nodes whose client->ctx has stopped
  \* the node as a server
  srv,             \* trans_state of the transports made for peers
  clientList,      \* server_instance->client_list
  curConnections,  \* server_instance->cur_connections
  \* the connection manager: the event on the way to either end, of which there
  \* is one at a time: each answers another
  toCli, toSrv

main == <<mpc, next, conn, connectTrans>>
server == <<srv, clientList, curConnections>>
vars == <<faults, left, mpc, next, conn, connectTrans, cli, loop, stopped, srv,
          clientList, curConnections, toCli, toSrv>>

(* Variant: a node does not skip itself. *)
FirstTargetSelf(n) == n

(* The head connects to everybody, a middle node to the next, the tail to  *)
(* nobody.                                                                 *)
FirstTarget(n) == n + 1
NextTarget(n) == IF n = 0 THEN next[n] + 1 ELSE Done
Targets(n) == IF n = 0 THEN Node \ {0} ELSE {n + 1} \ {Done}

Unused == [state |-> "NONE", to |-> Done, isServer |-> TRUE]

Init ==
  /\ \E s \in Troubles : faults = s.kinds /\ left = s.most
  /\ mpc = [n \in Node |-> "server"]
  /\ next = [n \in Node |-> FirstTarget(n)]
  /\ conn = [n \in Node |-> None]
  /\ connectTrans = [n \in Node |-> {}]
  /\ cli = [t \in Trans |-> Unused]
  /\ loop = [n \in Node |-> None]
  /\ stopped = {}
  /\ srv = [t \in Trans |-> "NONE"]
  /\ clientList = [n \in Node |-> {}]
  /\ curConnections = [n \in Node |-> 0]
  /\ toCli = [t \in Trans |-> "NONE"]
  /\ toSrv = [t \in Trans |-> "NONE"]

(* One of the faults that may happen, or none. *)
Fails(f) == f \in faults /\ left > 0 /\ left' = left - 1 /\ UNCHANGED faults
Works == UNCHANGED <<faults, left>>

Alive(n) == mpc[n] # "crash"
Listening(n) == Alive(n) /\ mpc[n] # "server"

----------------------------------------------------------------------------
(* The main thread. *)

(* dhmp_server_init, after which dhmp_client_init begins. *)
ServerInit(n) ==
  /\ mpc[n] = "server"
  /\ mpc' = [mpc EXCEPT ![n] = "client"]
  /\ Works
  /\ UNCHANGED <<next, conn, connectTrans, cli, loop, stopped, server, toCli, toSrv>>

(* Nothing is on the way that can still change what becomes of the attempt. *)
Quiet(t) ==
  /\ t[1] \in stopped \/ toCli[t] \in {"NONE", "UNREACHABLE"}
  /\ toSrv[t] \in {"NONE", "DISCONNECTED"}

Forgotten(n, t) ==
  \/ cli[t].state = "NONE" /\ loop[n] # t
  \/ /\ t \notin connectTrans[n] /\ loop[n] # t
     /\ Quiet(t) /\ toSrv[t] = "NONE"
     /\ cli[t].to \in Node => t \notin clientList[cli[t].to]

FreeTrans(n) == {k \in 1 .. MaxTrans : Forgotten(n, <<n, k>>)}

(* The loop of dhmp_connect: dhmp_transport_create.  Every round takes a   *)
(* new transport and returns none; what they keep is why CreateFails may   *)
(* happen after enough rounds.                                             *)
Create(n) ==
  /\ mpc[n] = "client" /\ next[n] \in Node
  /\ \E k \in FreeTrans(n) :
       LET t == <<n, k>>
       IN /\ \A j \in FreeTrans(n) : k <= j
          /\ conn' = [conn EXCEPT ![n] = t]
          /\ cli' = [cli EXCEPT ![t] =
                       [state |-> "INIT", to |-> next[n], isServer |-> TRUE]]
          /\ srv' = [srv EXCEPT ![t] = "NONE"]
          /\ toCli' = [toCli EXCEPT ![t] = "NONE"]
  /\ mpc' = [mpc EXCEPT ![n] = "connect"]
  /\ Works
  /\ UNCHANGED <<next, connectTrans, loop, stopped, clientList, curConnections, toSrv>>

(* It fails: dhmp_connect returns NULL; the head goes on with the next      *)
(* node, a middle node exits.                                               *)
CreateFails(n) ==
  /\ mpc[n] = "client" /\ next[n] \in Node
  /\ Fails("create")
  /\ IF n = 0
     THEN next' = [next EXCEPT ![n] = NextTarget(n)] /\ UNCHANGED mpc
     ELSE mpc' = [mpc EXCEPT ![n] = "crash"] /\ UNCHANGED next
  /\ UNCHANGED <<conn, connectTrans, cli, loop, stopped, server, toCli, toSrv>>

(* dhmp_transport_connect up to rdma_resolve_addr, whose failure leaves the *)
(* transport in INIT.                                                       *)
Connect(n) ==
  /\ mpc[n] = "connect"
  /\ \/ /\ Works
        /\ toCli' = [toCli EXCEPT ![conn[n]] = "ADDR_RESOLVED"]
        /\ mpc' = [mpc EXCEPT ![n] = "store"]
     \/ /\ Fails("resolve")
        /\ mpc' = [mpc EXCEPT ![n] = "sleep"]
        /\ UNCHANGED toCli
  /\ UNCHANGED <<next, conn, connectTrans, cli, loop, stopped, server, toSrv>>

(* Its last assignment; the epoll thread may have gone ahead of it. *)
StoreConnecting(n) ==
  /\ mpc[n] = "store"
  /\ cli' = [cli EXCEPT ![conn[n]].state = "CONNECTING"]
  /\ mpc' = [mpc EXCEPT ![n] = "sleep"]
  /\ Works
  /\ UNCHANGED <<next, conn, connectTrans, loop, stopped, server, toCli, toSrv>>

(* sleep(1) is over.  A second was enough for the connection manager, and   *)
(* for the epoll thread to leave dhmp_event_channel_handler: an assumption, *)
(* as nothing in the code makes the main thread wait for either.  Or it was *)
(* not ("late"), and both may be anywhere.                                  *)
SleepOver(n) ==
  /\ mpc[n] = "sleep"
  /\ \/ Quiet(conn[n]) /\ loop[n] # conn[n] /\ Works
     \/ Fails("late")

TriesAgain == {"INIT", "CONNECTING", "DISCONNECTED", "ERROR"}

(* The transport is left as it is and another one made. *)
GiveUp(n) ==
  /\ SleepOver(n)
  /\ cli[conn[n]].state \in TriesAgain
  /\ mpc' = [mpc EXCEPT ![n] = "client"]
  /\ UNCHANGED <<next, conn, connectTrans, cli, loop, stopped, server, toCli, toSrv>>

(* free_trans and free; the transport made in its place is lost at once, as *)
(* the loop begins with another one.                                        *)
FreeRejected(n) ==
  /\ SleepOver(n)
  /\ cli[conn[n]].state = "REJECT"
  /\ cli' = [cli EXCEPT ![conn[n]] = Unused]
  /\ toCli' = [toCli EXCEPT ![conn[n]] = "NONE"]
  /\ mpc' = [mpc EXCEPT ![n] = "client"]
  /\ UNCHANGED <<next, conn, connectTrans, loop, stopped, server, toSrv>>

(* dhmp_connect returns. *)
LeaveLoop(n) ==
  /\ SleepOver(n)
  /\ cli[conn[n]].state = "CONNECTED"
  /\ mpc' = [mpc EXCEPT ![n] = "return"]
  /\ UNCHANGED <<next, conn, connectTrans, cli, loop, stopped, server, toCli, toSrv>>

(* dhmp_client_init keeps the transport and marks it as a client's. *)
KeepTrans(n) ==
  /\ mpc[n] = "return"
  /\ connectTrans' = [connectTrans EXCEPT ![n] = @ \cup {conn[n]}]
  /\ cli' = [cli EXCEPT ![conn[n]].isServer = FALSE]
  /\ next' = [next EXCEPT ![n] = NextTarget(n)]
  /\ mpc' = [mpc EXCEPT ![n] = "client"]
  /\ Works
  /\ UNCHANGED <<conn, loop, stopped, server, toCli, toSrv>>

Main(n) ==
  \/ ServerInit(n) \/ Create(n) \/ CreateFails(n) \/ Connect(n)
  \/ StoreConnecting(n) \/ GiveUp(n) \/ FreeRejected(n) \/ LeaveLoop(n)
  \/ KeepTrans(n)

----------------------------------------------------------------------------
(* The epoll thread of the node as a client. *)

(* dhmp_context_run calls dhmp_event_channel_handler.  The main thread's    *)
(* assignment after rdma_resolve_addr comes first, or it does not.  Once    *)
(* the context is stopped no handler is called: events of the batch that    *)
(* epoll_wait returned with the one that stopped it are those of other      *)
(* transports, and taken here before it, which comes to the same.           *)
EnterHandler(n) ==
  /\ Alive(n) /\ n \notin stopped /\ loop[n] = None
  /\ \E k \in 1 .. MaxTrans :
       /\ toCli[<<n, k>>] # "NONE"
       /\ loop' = [loop EXCEPT ![n] = <<n, k>>]
       /\ IF mpc[n] = "store" /\ conn[n] = <<n, k>> THEN Fails("overtake") ELSE Works
  /\ UNCHANGED <<main, cli, stopped, server, toCli, toSrv>>

(* rdma_get_cm_event finds no further event. *)
LeaveHandler(n) ==
  /\ Alive(n)
  /\ loop[n] # None /\ toCli[loop[n]] = "NONE"
  /\ loop' = [loop EXCEPT ![n] = None]
  /\ Works
  /\ UNCHANGED <<main, cli, stopped, server, toCli, toSrv>>

Gets(n, event) == Alive(n) /\ loop[n] # None /\ toCli[loop[n]] = event

(* The event is acknowledged, another may follow it. *)
Acked(t, more) == toCli' = [toCli EXCEPT ![t] = more]
Tells(t, event) == toSrv' = [toSrv EXCEPT ![t] = event]
SetState(t, s) == cli' = [cli EXCEPT ![t].state = s]

(* A handler that returns 0 lets the loop go on, any other value ends it. *)
ReturnsZero == UNCHANGED loop
ReturnsError(n) == loop' = [loop EXCEPT ![n] = None]

OnAddrResolved(n) ==
  /\ Gets(n, "ADDR_RESOLVED")
  /\ \/ Works /\ Acked(loop[n], "ROUTE_RESOLVED") /\ ReturnsZero
     \/ Fails("route") /\ Acked(loop[n], "NONE") /\ ReturnsError(n)
  /\ UNCHANGED <<main, cli, stopped, server, toSrv>>

(* dhmp_qp_create and rdma_connect.  When the latter fails the whole context *)
(* stops, with the events of all the node's transports.                      *)
OnRouteResolved(n) ==
  /\ Gets(n, "ROUTE_RESOLVED")
  /\ Acked(loop[n], "NONE")
  /\ \/ /\ Works
        /\ Tells(loop[n], "CONNECT_REQUEST")
        /\ ReturnsZero
        /\ UNCHANGED <<cli, stopped>>
     \/ /\ Fails("route")
        /\ ReturnsError(n)
        /\ UNCHANGED <<cli, stopped, toSrv>>
     \/ /\ Fails("connect")
        /\ ReturnsError(n)
        /\ SetState(loop[n], "ERROR")
        /\ stopped' = stopped \cup {n}
        /\ UNCHANGED toSrv
  /\ UNCHANGED <<main, server>>

(* The server is told of it in turn, or fails to take it. *)
OnEstablished(n) ==
  /\ Gets(n, "ESTABLISHED")
  /\ SetState(loop[n], "CONNECTED")
  /\ \/ Works /\ Tells(loop[n], "ESTABLISHED") /\ Acked(loop[n], "NONE")
     \/ /\ Fails("server_error")
        /\ Tells(loop[n], "CONNECT_ERROR")
        /\ Acked(loop[n], "DISCONNECTED")
  /\ ReturnsZero
  /\ UNCHANGED <<main, stopped, server>>

OnRejected(n) ==
  /\ Gets(n, "REJECTED")
  /\ SetState(loop[n], "REJECT")
  /\ Acked(loop[n], "NONE")
  /\ ReturnsZero
  /\ Works
  /\ UNCHANGED <<main, stopped, server, toSrv>>

(* The client's transport was never in client_list: list_del goes through   *)
(* pointers nobody has set.  The process ends, or something else is         *)
(* overwritten.                                                             *)
Unlink(n) ==
  /\ curConnections' = [curConnections EXCEPT ![n] = @ - 1]
  /\ \/ mpc' = [mpc EXCEPT ![n] = "crash"]
     \/ UNCHANGED mpc

(* Variant: the question whether the transport is a server's is not asked. *)
OnDisconnectedAny(n) ==
  /\ Gets(n, "DISCONNECTED")
  /\ SetState(loop[n], "DISCONNECTED")
  /\ Unlink(n)
  /\ Acked(loop[n], "NONE")
  /\ ReturnsZero
  /\ Works
  /\ UNCHANGED <<next, conn, connectTrans, stopped, srv, clientList, toSrv>>

(* Variant: the state is not set. *)
OnDisconnectedSilent(n) ==
  /\ Gets(n, "DISCONNECTED")
  /\ IF cli[loop[n]].isServer THEN Unlink(n) ELSE UNCHANGED <<curConnections, mpc>>
  /\ Acked(loop[n], "NONE")
  /\ ReturnsZero
  /\ Works
  /\ UNCHANGED <<next, conn, connectTrans, cli, stopped, srv, clientList, toSrv>>

(* dhmp_destroy_source, and what is meant for a server's transports; is_server *)
(* is true until dhmp_connect has returned.                                    *)
OnDisconnected(n) ==
  /\ Gets(n, "DISCONNECTED")
  /\ SetState(loop[n], "DISCONNECTED")
  /\ IF cli[loop[n]].isServer THEN Unlink(n) ELSE UNCHANGED <<curConnections, mpc>>
  /\ Acked(loop[n], "NONE")
  /\ ReturnsZero
  /\ Works
  /\ UNCHANGED <<next, conn, connectTrans, stopped, srv, clientList, toSrv>>

OnError(n) ==
  /\ Gets(n, "CONNECT_ERROR")
  /\ SetState(loop[n], "ERROR")
  /\ Unlink(n)
  /\ Acked(loop[n], "NONE")
  /\ ReturnsZero
  /\ Works
  /\ UNCHANGED <<next, conn, connectTrans, stopped, srv, clientList, toSrv>>

(* Any other event. *)
OnOther(n) ==
  /\ Gets(n, "UNREACHABLE")
  /\ Acked(loop[n], "NONE")
  /\ ReturnsError(n)
  /\ Works
  /\ UNCHANGED <<main, cli, stopped, server, toSrv>>

ClientEpoll(n) ==
  \/ EnterHandler(n) \/ LeaveHandler(n) \/ OnAddrResolved(n) \/ OnRouteResolved(n)
  \/ OnEstablished(n) \/ OnRejected(n) \/ OnDisconnected(n) \/ OnError(n)
  \/ OnOther(n)

----------------------------------------------------------------------------
(* The epoll thread of the node as a server: one event at a time. *)

Served(t, event) == toSrv[t] = event /\ Alive(cli[t].to)
Taken(t) == toSrv' = [toSrv EXCEPT ![t] = "NONE"]
Answers(t, event) == toCli' = [toCli EXCEPT ![t] = event]

(* Variant: the list is not searched. *)
IsExistConnectionNever(t) == FALSE

(* Variant: an entry is taken for the peer's before its address is known. *)
IsExistConnectionEarly(t) == \E u \in clientList[cli[t].to] : u[1] = t[1]

(* dhmp_is_exist_connection: peer_addr of an entry is set when it gets      *)
(* established; until then it holds what malloc returned: zeros, or the     *)
(* address of a target, neither of which is a client's.                     *)
IsExistConnection(t) ==
  \E u \in clientList[cli[t].to] : u[1] = t[1] /\ srv[u] = "CONNECTED"

(* A request of a peer that is connected already, or one whose transport    *)
(* cannot be made, is not answered, and times out.                          *)
DropRequest(t) ==
  /\ Served(t, "CONNECT_REQUEST")
  /\ Listening(cli[t].to)
  /\ (IsExistConnection(t) /\ Works) \/ Fails("serve")
  /\ Taken(t) /\ Answers(t, "UNREACHABLE")
  /\ UNCHANGED <<main, cli, loop, stopped, server>>

(* Otherwise the transport is counted, linked and accepted; when accepting   *)
(* fails it stays where it is.                                               *)
OnConnectRequest(t) ==
  /\ Served(t, "CONNECT_REQUEST")
  /\ Listening(cli[t].to)
  /\ ~IsExistConnection(t)
  /\ curConnections' = [curConnections EXCEPT ![cli[t].to] = @ + 1]
  /\ clientList' = [clientList EXCEPT ![cli[t].to] = @ \cup {t}]
  /\ \/ /\ Works
        /\ srv' = [srv EXCEPT ![t] = "CONNECTING"]
        /\ Answers(t, "ESTABLISHED")
     \/ /\ Fails("accept")
        /\ srv' = [srv EXCEPT ![t] = "INIT"]
        /\ Answers(t, "UNREACHABLE")
  /\ Taken(t)
  /\ UNCHANGED <<main, cli, loop, stopped>>

OnRejectedServer(t) ==
  /\ Served(t, "REJECTED")
  /\ srv' = [srv EXCEPT ![t] = "REJECT"]
  /\ Taken(t)
  /\ Works
  /\ UNCHANGED <<main, cli, loop, stopped, clientList, curConnections, toCli>>

OnEstablishedServer(t) ==
  /\ Served(t, "ESTABLISHED")
  /\ srv' = [srv EXCEPT ![t] = "CONNECTED"]
  /\ Taken(t)
  /\ Works
  /\ UNCHANGED <<main, cli, loop, stopped, clientList, curConnections, toCli>>

(* on_cm_disconnected and on_cm_error for a transport that was accepted. *)
OnLostServer(t, event, state) ==
  /\ Served(t, event)
  /\ srv' = [srv EXCEPT ![t] = state]
  /\ curConnections' = [curConnections EXCEPT ![cli[t].to] = @ - 1]
  /\ clientList' = [clientList EXCEPT ![cli[t].to] = @ \ {t}]
  /\ Taken(t)
  /\ Works
  /\ UNCHANGED <<main, cli, loop, stopped, toCli>>

ServerEpoll(t) ==
  \/ DropRequest(t) \/ OnConnectRequest(t) \/ OnEstablishedServer(t)
  \/ OnRejectedServer(t)
  \/ OnLostServer(t, "DISCONNECTED", "DISCONNECTED")
  \/ OnLostServer(t, "CONNECT_ERROR", "ERROR")

----------------------------------------------------------------------------
(* The connection manager. *)

(* Nobody listens: the request is rejected. *)
Reject(t) ==
  /\ toSrv[t] = "CONNECT_REQUEST"
  /\ ~Listening(cli[t].to)
  /\ Taken(t) /\ Answers(t, "REJECTED")
  /\ Works
  /\ UNCHANGED <<main, cli, loop, stopped, server>>

(* The client cannot take the answer: it is told so, the server that it is *)
(* rejected, which unlinks nothing.                                        *)
AnswerFails(t) ==
  /\ toCli[t] = "ESTABLISHED" /\ loop[t[1]] # t
  /\ Fails("client_error")
  /\ Answers(t, "CONNECT_ERROR")
  /\ Tells(t, "REJECTED")
  /\ UNCHANGED <<main, cli, loop, stopped, server>>

(* A connection breaks, while dhmp_connect has not returned it ("drop") or   *)
(* later; both ends are told.                                                *)
Break(t) ==
  /\ srv[t] = "CONNECTED" /\ toSrv[t] = "NONE"
  /\ IF t \in connectTrans[t[1]] THEN Fails("disconnect") ELSE Fails("drop")
  /\ Tells(t, "DISCONNECTED") /\ Answers(t, "DISCONNECTED")
  /\ UNCHANGED <<main, cli, loop, stopped, server>>

----------------------------------------------------------------------------
Next ==
  \/ \E n \in Node : Main(n) \/ ClientEpoll(n)
  \/ \E t \in Trans : ServerEpoll(t) \/ Reject(t) \/ AnswerFails(t) \/ Break(t)

Spec == Init /\ [][Next]_vars

(* Every thread goes on, and the connection manager answers. *)
FairSpec ==
  /\ Spec
  /\ \A n \in Node : WF_vars(Main(n)) /\ WF_vars(ClientEpoll(n))
  /\ \A t \in Trans : WF_vars(ServerEpoll(t)) /\ WF_vars(Reject(t))

----------------------------------------------------------------------------
(* What the variables hold (dhmp_transport.h:23-34, dhmp_server.h:25-32).  *)
CliStates ==
  {"NONE", "INIT", "CONNECTING", "CONNECTED", "DISCONNECTED", "ERROR", "REJECT"}
ToCli ==
  {"NONE", "ADDR_RESOLVED", "ROUTE_RESOLVED", "ESTABLISHED", "REJECTED",
   "DISCONNECTED", "CONNECT_ERROR", "UNREACHABLE"}
ToSrv ==
  {"NONE", "CONNECT_REQUEST", "ESTABLISHED", "REJECTED", "DISCONNECTED",
   "CONNECT_ERROR"}

FaultsLeft == \E s \in Troubles : faults = s.kinds /\ left \in 0 .. s.most

TypeOK ==
  /\ FaultsLeft
  /\ mpc \in [Node -> {"server", "client", "connect", "store", "sleep", "return", "crash"}]
  /\ next \in [Node -> 1 .. Done]
  /\ conn \in [Node -> Trans \cup {None}]
  /\ connectTrans \in [Node -> SUBSET Trans]
  /\ cli \in [Trans -> [state : CliStates, to : Node \cup {Done}, isServer : BOOLEAN]]
  /\ loop \in [Node -> Trans \cup {None}]
  /\ stopped \subseteq Node
  /\ srv \in [Trans -> CliStates]
  /\ clientList \in [Node -> SUBSET Trans]
  /\ curConnections \in [Node -> Int]
  /\ toCli \in [Trans -> ToCli]
  /\ toSrv \in [Trans -> ToSrv]

Without(kinds) == faults \cap kinds = {}

(***************************************************************************)
(* cur_connections counts the transports in client_list, although requests *)
(* are dropped, accepting fails and kept connections break.  Excluded are  *)
(* the faults that reach on_cm_disconnected or on_cm_error for a transport *)
(* of the node's own client before dhmp_connect has returned it: the code  *)
(* then takes for a peer's what is its own                                 *)
(* (mid_rdma_connection.c:500-504, 551-581).                               *)
(***************************************************************************)
CountIsOfList ==
  Without({"drop", "client_error", "server_error"}) =>
    \A n \in Node : curConnections[n] = Cardinality(clientList[n])

(***************************************************************************)
(* A transport that dhmp_connect returned and that is CONNECTED, with no   *)
(* event on the way, is connected at the other end and in the list there:  *)
(* no node writes into a connection its peer has given up                  *)
(* (mid_rdma_init.c:87-109, mid_rdma_connection.c:534-581).                *)
(***************************************************************************)
KeptIsServed ==
  \A n \in Node : \A t \in connectTrans[n] :
    cli[t].state = "CONNECTED" /\ toCli[t] = "NONE" /\ toSrv[t] = "NONE"
      => srv[t] = "CONNECTED" /\ t \in clientList[cli[t].to]

(***************************************************************************)
(* A server is connected to a peer at most once: requests that come while  *)
(* an older connection of the peer is not yet taken down are turned away.  *)
(* Excluded is a second that is too short ("late"): then two handshakes of *)
(* one peer may both pass the search of the list before either is          *)
(* established (mid_rdma_connection.c:307-333, 473-479).                   *)
(***************************************************************************)
OneConnectionPerPeer ==
  Without({"late"}) =>
    \A p \in Node : \A t, u \in clientList[p] :
      t[1] = u[1] /\ srv[t] = "CONNECTED" /\ srv[u] = "CONNECTED" => t = u

(***************************************************************************)
(* Every node ends up with a connection to each of its targets that is up, *)
(* so that dhmp_client_init returns (mid_rdma_init.c:62-112, 148-191).     *)
(***************************************************************************)
AllConnected ==
  <>(\A n \in Node :
       /\ mpc[n] = "client" /\ next[n] = Done
       /\ {cli[t].to : t \in {u \in connectTrans[n] : cli[u].state = "CONNECTED"}}
            = Targets(n))

(***************************************************************************)
(* Whatever order the nodes start in, and although resolving an address or *)
(* a route, serving a request and accepting it may fail, every node ends   *)
(* up connected to all its targets.  The code does not recover from the    *)
(* other faults: a second that is too short ("late"), an epoll thread      *)
(* ahead of the main thread ("overtake"), a transport that cannot be made  *)
(* ("create"), rdma_connect failing ("connect"), a connection lost while   *)
(* it is made ("drop", "client_error", "server_error") or after it was     *)
(* kept, as nobody makes it again ("disconnect") (mid_rdma_init.c:68-109). *)
(***************************************************************************)
RetriesConnect ==
  Without({"late", "overtake", "create", "connect", "drop", "disconnect",
           "client_error", "server_error"})
    => AllConnected
=============================================================================
