------------------------- MODULE Connection_proofs -------------------------
(***************************************************************************)
(* Proofs about connecting, for any number of nodes, of transports and of  *)
(* faults; and, when handshakes are in time, that a server is connected to *)
(* a peer once.                                                            *)
(***************************************************************************)
EXTENDS Connection, FiniteSetTheorems, TLAPS

Listed(t) == cli[t].to \in Node /\ t \in clientList[cli[t].to]

(* Nothing is known of the transport outside its own node. *)
Untouched(t) ==
  toSrv[t] = "NONE" /\ srv[t] = "NONE" /\ ~Listed(t)

(* How far the two ends of a connection have got. *)
Stage(t) ==
  \/ Untouched(t) /\ toCli[t] \in {"NONE", "ADDR_RESOLVED", "ROUTE_RESOLVED",
                                   "REJECTED", "UNREACHABLE"}
  \/ /\ toSrv[t] = "CONNECT_REQUEST" /\ srv[t] = "NONE" /\ ~Listed(t)
     /\ toCli[t] = "NONE"
  \/ /\ toSrv[t] = "NONE" /\ srv[t] = "CONNECTING" /\ Listed(t)
     /\ toCli[t] = "ESTABLISHED"
  \/ /\ toSrv[t] = "ESTABLISHED" /\ srv[t] = "CONNECTING" /\ Listed(t)
     /\ toCli[t] = "NONE"
  \/ /\ toSrv[t] = "CONNECT_ERROR" /\ srv[t] = "CONNECTING" /\ Listed(t)
     /\ toCli[t] \in {"NONE", "DISCONNECTED"}
  \/ /\ toSrv[t] = "REJECTED" /\ srv[t] = "CONNECTING" /\ Listed(t)
     /\ toCli[t] \in {"NONE", "CONNECT_ERROR"}
  \/ /\ toSrv[t] = "NONE" /\ srv[t] = "CONNECTED" /\ Listed(t)
     /\ toCli[t] = "NONE"
  \/ /\ toSrv[t] = "DISCONNECTED" /\ srv[t] = "CONNECTED" /\ Listed(t)
     /\ toCli[t] \in {"NONE", "DISCONNECTED"}
  \/ /\ toSrv[t] = "NONE" /\ srv[t] \in {"DISCONNECTED", "ERROR"} /\ ~Listed(t)
     /\ toCli[t] \in {"NONE", "DISCONNECTED"}
  \/ /\ toSrv[t] = "NONE" /\ srv[t] = "INIT" /\ Listed(t)
     /\ toCli[t] \in {"NONE", "UNREACHABLE"}
  \/ /\ toSrv[t] = "NONE" /\ srv[t] = "REJECT" /\ Listed(t)
     /\ toCli[t] \in {"NONE", "CONNECT_ERROR"}

(* A transport is in no list but its target's. *)
ListsRight == \A p \in Node : \A t \in clientList[p] : cli[t].to = p

(* What the client's state says about the rest. *)
StateRight(t) ==
  /\ cli[t].state = "CONNECTED" =>
       \/ toCli[t] = "DISCONNECTED"
       \/ /\ toCli[t] = "NONE" /\ Listed(t)
          /\ toSrv[t] = "ESTABLISHED" \/ (toSrv[t] = "NONE" /\ srv[t] = "CONNECTED")
  /\ cli[t].state \in {"NONE", "REJECT"} => Untouched(t) /\ toCli[t] = "NONE"
  /\ cli[t].state # "NONE" => cli[t].to \in Node

(* The main thread of n, while it is trying a transport. *)
Trying(n) ==
  mpc[n] \in {"connect", "store", "sleep", "return"} =>
    /\ next[n] \in Node
    /\ conn[n] \in Trans /\ conn[n][1] = n
    /\ conn[n] \notin connectTrans[n]
    /\ cli[conn[n]].state # "NONE"
    /\ mpc[n] = "connect" =>
         /\ cli[conn[n]].state = "INIT"
         /\ Untouched(conn[n]) /\ toCli[conn[n]] = "NONE"

(* The transports kept, and the one whose events are read. *)
Kept(n) ==
  /\ \A t \in connectTrans[n] :
       t[1] = n /\ cli[t].state # "NONE" /\ cli[t].isServer = FALSE
  /\ loop[n] # None => loop[n] \in Trans /\ loop[n][1] = n

Shape ==
  /\ ListsRight
  /\ \A t \in Trans : Stage(t) /\ StateRight(t)
  /\ \A n \in Node : Trying(n) /\ Kept(n)

(* A client that is not told of an error before its transport is kept      *)
(* leaves the list of the node's server alone.                             *)
Counts ==
  Without({"drop", "client_error", "server_error"}) =>
    /\ \A t \in Trans : /\ toCli[t] # "CONNECT_ERROR"
                        /\ toCli[t] = "DISCONNECTED" => t \in connectTrans[t[1]]
    /\ \A n \in Node : curConnections[n] = Cardinality(clientList[n])

IndInv == TypeOK /\ Shape /\ Counts

----------------------------------------------------------------------------
(* Faults are counted down, never below 0. *)
LEMMA FaultsCounted ==
  ASSUME FaultsLeft, Works \/ (\E f \in faults : Fails(f))
  PROVE  FaultsLeft'
  <1>1. PICK s \in Troubles : faults = s.kinds /\ left \in 0 .. s.most
    BY DEF FaultsLeft
  <1>2. s.most \in Nat
    BY ConnectionAssumption
  <1>3. faults' = faults /\ left' \in 0 .. s.most
    BY <1>1, <1>2 DEF Works, Fails
  <1> QED
    BY <1>1, <1>3 DEF FaultsLeft

(* Every client_list is finite. *)
LEMMA ListsFinite ==
  ASSUME TypeOK, NEW n \in Node
  PROVE  IsFiniteSet(clientList[n])
  <1>1. IsFiniteSet(Node) /\ IsFiniteSet(1 .. MaxTrans)
    BY ConnectionAssumption, FS_Interval DEF Node
  <1>2. IsFiniteSet(Trans)
    BY <1>1, FS_Product DEF Trans
  <1> QED
    BY <1>2, FS_Subset DEF TypeOK

(* What an assignment to trans_state changes. *)
LEMMA StateAssigned ==
  ASSUME TypeOK, NEW t \in Trans, NEW s \in CliStates,
         cli' = [cli EXCEPT ![t].state = s]
  PROVE  /\ cli' \in [Trans -> [state : CliStates, to : Node \cup {Done}, isServer : BOOLEAN]]
         /\ cli'[t].state = s
         /\ \A u \in Trans : /\ cli'[u].to = cli[u].to
                             /\ cli'[u].isServer = cli[u].isServer
                             /\ u # t => cli'[u].state = cli[u].state
  <1> DEFINE R == [state : CliStates, to : Node \cup {Done}, isServer : BOOLEAN]
  <1>1. cli \in [Trans -> R]
    BY DEF TypeOK
  <1>2. [cli[t] EXCEPT !.state = s] \in R
    BY <1>1
  <1>3. cli' = [cli EXCEPT ![t] = [cli[t] EXCEPT !.state = s]]
    BY <1>1
  <1>4. cli' \in [Trans -> R]
    <2> HIDE DEF R
    <2> QED BY <1>1, <1>2, <1>3
  <1>5. cli'[t] = [cli[t] EXCEPT !.state = s] /\ \A u \in Trans : u # t => cli'[u] = cli[u]
    <2> HIDE DEF R
    <2> QED BY <1>1, <1>3
  <1>6. /\ [cli[t] EXCEPT !.state = s].state = s
        /\ [cli[t] EXCEPT !.state = s].to = cli[t].to
        /\ [cli[t] EXCEPT !.state = s].isServer = cli[t].isServer
    BY <1>1
  <1> QED
    BY <1>4, <1>5, <1>6

(* dhmp_server_init. *)
LEMMA ServerInitInv ==
  ASSUME IndInv, NEW n \in Node, ServerInit(n)
  PROVE  IndInv'
  <1> USE DEF ServerInit, server, Works
  <1>1. TypeOK'
    <2>1. FaultsLeft'
      BY FaultsCounted DEF IndInv, TypeOK
    <2>2. mpc' \in [Node -> {"server", "client", "connect", "store", "sleep", "return", "crash"}]
      BY DEF IndInv, TypeOK
    <2> QED
      BY <2>1, <2>2 DEF IndInv, TypeOK
  <1>2. ListsRight'
    BY DEF IndInv, Shape, ListsRight, TypeOK, Stage, StateRight, Untouched, Listed
  <1>3. \A u \in Trans : Stage(u)'
    BY DEF IndInv, Shape, TypeOK, Stage, StateRight, Untouched, Listed
  <1>4. \A u \in Trans : StateRight(u)'
    BY DEF IndInv, Shape, TypeOK, Stage, StateRight, Untouched, Listed
  <1>5. \A m \in Node : Trying(m)' /\ Kept(m)'
    BY DEF IndInv, Shape, TypeOK, StateRight, Trying, Kept, Untouched, Listed
  <1>6. Counts'
    BY DEF IndInv, Shape, TypeOK, Kept, Counts, Without
  <1> QED
    BY <1>1, <1>2, <1>3, <1>4, <1>5, <1>6 DEF IndInv, Shape

(* dhmp_transport_create, in place of a transport nobody uses any more. *)
LEMMA CreateInv ==
  ASSUME IndInv, NEW n \in Node, Create(n)
  PROVE  IndInv'
  <1> DEFINE R == [state : CliStates, to : Node \cup {Done}, isServer : BOOLEAN]
             r == [state |-> "INIT", to |-> next[n], isServer |-> TRUE]
  <1>1. PICK k \in FreeTrans(n) :
          /\ conn' = [conn EXCEPT ![n] = <<n, k>>]
          /\ cli' = [cli EXCEPT ![<<n, k>>] = r]
          /\ srv' = [srv EXCEPT ![<<n, k>>] = "NONE"]
          /\ toCli' = [toCli EXCEPT ![<<n, k>>] = "NONE"]
    BY DEF Create
  <1>2. PICK t \in Trans : t = <<n, k>>
    BY <1>1 DEF FreeTrans, Trans
  <1>3. t[1] = n /\ Forgotten(n, t)
    BY <1>1, <1>2 DEF FreeTrans
  <1>4. /\ next[n] \in Node /\ mpc' = [mpc EXCEPT ![n] = "connect"]
        /\ faults' = faults /\ left' = left /\ next' = next
        /\ connectTrans' = connectTrans /\ loop' = loop /\ stopped' = stopped
        /\ clientList' = clientList /\ curConnections' = curConnections
        /\ toSrv' = toSrv
    BY DEF Create, Works
  <1>5. ~Listed(t) /\ toSrv[t] = "NONE" /\ t \notin connectTrans[n]
    BY <1>3 DEF IndInv, Shape, StateRight, Kept, Untouched, Listed, Forgotten
  <1>6. \A p \in Node : t \notin clientList[p]
    BY <1>5 DEF IndInv, Shape, ListsRight, Listed
  <1>7. cli' \in [Trans -> R] /\ cli'[t] = r /\ \A u \in Trans : u # t => cli'[u] = cli[u]
    <2>1. cli \in [Trans -> R] /\ r \in R
      BY <1>4 DEF IndInv, TypeOK, CliStates
    <2> HIDE DEF R, r
    <2> QED
      BY <1>1, <1>2, <2>1
  <1>8. cli'[t].state = "INIT" /\ cli'[t].to = next[n]
    BY <1>7
  <1>9. /\ conn'[n] = t /\ \A m \in Node : m # n => conn'[m] = conn[m]
        /\ srv'[t] = "NONE" /\ \A u \in Trans : u # t => srv'[u] = srv[u]
        /\ toCli'[t] = "NONE" /\ \A u \in Trans : u # t => toCli'[u] = toCli[u]
        /\ mpc'[n] = "connect" /\ \A m \in Node : m # n => mpc'[m] = mpc[m]
    BY <1>1, <1>2, <1>4 DEF IndInv, TypeOK
  <1>10. TypeOK'
    <2>1. FaultsLeft'
      BY <1>4, FaultsCounted DEF IndInv, TypeOK, Works
    <2>2. conn' \in [Node -> Trans \cup {None}]
      BY <1>1, <1>2 DEF IndInv, TypeOK
    <2>3. /\ srv' \in [Trans -> CliStates] /\ toCli' \in [Trans -> ToCli]
          /\ mpc' \in [Node -> {"server", "client", "connect", "store", "sleep",
                                 "return", "crash"}]
      BY <1>1, <1>4 DEF IndInv, TypeOK, CliStates, ToCli
    <2> QED
      BY <1>4, <1>7, <2>1, <2>2, <2>3 DEF IndInv, TypeOK
  <1> HIDE DEF R, r
  <1>11. ListsRight'
    BY <1>4, <1>6, <1>7 DEF IndInv, Shape, ListsRight, TypeOK
  <1>12. \A u \in Trans : Stage(u)'
    <2>1. Stage(t)'
      BY <1>4, <1>5, <1>6, <1>8, <1>9 DEF Stage, Untouched, Listed
    <2>2. ASSUME NEW u \in Trans, u # t PROVE Stage(u)'
      BY <1>4, <1>7, <1>9, <2>2 DEF IndInv, Shape, Stage, Untouched, Listed
    <2> QED
      BY <2>1, <2>2
  <1>13. \A u \in Trans : StateRight(u)'
    <2>1. StateRight(t)'
      BY <1>4, <1>8 DEF StateRight
    <2>2. ASSUME NEW u \in Trans, u # t PROVE StateRight(u)'
      BY <1>4, <1>7, <1>9, <2>2 DEF IndInv, Shape, StateRight, Untouched, Listed
    <2> QED
      BY <2>1, <2>2
  <1>14. \A m \in Node : Trying(m)' /\ Kept(m)'
    <2>1. Trying(n)'
      BY <1>3, <1>4, <1>5, <1>6, <1>8, <1>9 DEF Trying, Untouched, Listed
    <2>2. ASSUME NEW m \in Node, m # n PROVE Trying(m)'
      BY <1>3, <1>4, <1>7, <1>9, <2>2
      DEF IndInv, Shape, Trying, Untouched, Listed
    <2>3. ASSUME NEW m \in Node PROVE Kept(m)'
      <3>1. \A u \in connectTrans[m] : u \in Trans /\ u # t
        BY <1>3, <1>5 DEF IndInv, TypeOK, Shape, Kept
      <3> QED
        BY <1>4, <1>7, <3>1 DEF IndInv, Shape, Kept
    <2> QED
      BY <2>1, <2>2, <2>3
  <1>15. Counts'
    BY <1>4, <1>9 DEF IndInv, Counts, Without
  <1> QED
    BY <1>10, <1>11, <1>12, <1>13, <1>14, <1>15 DEF IndInv, Shape

(* It fails. *)
LEMMA CreateFailsInv ==
  ASSUME IndInv, NEW n \in Node, CreateFails(n)
  PROVE  IndInv'
  <1> USE DEF CreateFails, server, Fails
  <1>1. TypeOK'
    <2>1. FaultsLeft'
      BY FaultsCounted DEF IndInv, TypeOK
    <2>2. mpc' \in [Node -> {"server", "client", "connect", "store", "sleep", "return", "crash"}]
      BY DEF IndInv, TypeOK
    <2>3. next' \in [Node -> 1 .. Done]
      <3>1. NextTarget(n) \in 1 .. Done
        BY ConnectionAssumption DEF IndInv, TypeOK, NextTarget, Done, Node
      <3> QED
        BY <3>1 DEF IndInv, TypeOK
    <2> QED
      BY <2>1, <2>2, <2>3 DEF IndInv, TypeOK
  <1>2. ListsRight'
    BY DEF IndInv, Shape, ListsRight, TypeOK, Stage, StateRight, Untouched, Listed
  <1>3. \A u \in Trans : Stage(u)'
    BY DEF IndInv, Shape, TypeOK, Stage, StateRight, Untouched, Listed
  <1>4. \A u \in Trans : StateRight(u)'
    BY DEF IndInv, Shape, TypeOK, Stage, StateRight, Untouched, Listed
  <1>5. \A m \in Node : Trying(m)' /\ Kept(m)'
    BY DEF IndInv, Shape, TypeOK, StateRight, Trying, Kept, Untouched, Listed
  <1>6. Counts'
    BY DEF IndInv, Shape, TypeOK, Kept, Counts, Without
  <1> QED
    BY <1>1, <1>2, <1>3, <1>4, <1>5, <1>6 DEF IndInv, Shape

(* dhmp_transport_connect. *)
LEMMA ConnectInv ==
  ASSUME IndInv, NEW n \in Node, Connect(n)
  PROVE  IndInv'
  <1> USE DEF Connect, server, Works, Fails
  <1>0. /\ conn[n] \in Trans /\ conn[n][1] = n
        /\ next[n] \in Node /\ cli[conn[n]].state # "NONE"
    BY DEF IndInv, Shape, Trying
  <1>1. TypeOK'
    <2>1. FaultsLeft'
      BY FaultsCounted DEF IndInv, TypeOK
    <2>2. mpc' \in [Node -> {"server", "client", "connect", "store", "sleep", "return", "crash"}]
      BY <1>0 DEF IndInv, TypeOK
    <2>3. toCli' \in [Trans -> ToCli]
      BY <1>0 DEF IndInv, TypeOK, ToCli
    <2> QED
      BY <2>1, <2>2, <2>3 DEF IndInv, TypeOK
  <1>2. ListsRight'
    BY <1>0
    DEF IndInv, Shape, ListsRight, TypeOK, Stage, StateRight, Untouched, Listed
  <1>a. /\ Untouched(conn[n]) /\ toCli[conn[n]] = "NONE"
        /\ cli[conn[n]].state = "INIT"
        /\ toCli'[conn[n]] \in {"NONE", "ADDR_RESOLVED"}
        /\ \A u \in Trans : u # conn[n] => toCli'[u] = toCli[u]
    BY <1>0 DEF IndInv, Shape, Trying, TypeOK
  <1>3. \A u \in Trans : Stage(u)'
    <2>1. Stage(conn[n])'
      BY <1>a DEF Stage, Untouched, Listed
    <2>2. ASSUME NEW u \in Trans, u # conn[n] PROVE Stage(u)'
      BY <1>a, <2>2 DEF IndInv, Shape, Stage, Untouched, Listed
    <2> QED
      BY <2>1, <2>2
  <1>4. \A u \in Trans : StateRight(u)'
    <2>1. StateRight(conn[n])'
      BY <1>0, <1>a DEF IndInv, Shape, StateRight
    <2>2. ASSUME NEW u \in Trans, u # conn[n] PROVE StateRight(u)'
      BY <1>a, <2>2 DEF IndInv, Shape, StateRight, Untouched, Listed
    <2> QED
      BY <2>1, <2>2
  <1>5. \A m \in Node : Trying(m)' /\ Kept(m)'
    BY <1>0 DEF IndInv, Shape, TypeOK, StateRight, Trying, Kept, Untouched, Listed
  <1>6. Counts'
    BY <1>0 DEF IndInv, Shape, TypeOK, Kept, Counts, Without
  <1> QED
    BY <1>1, <1>2, <1>3, <1>4, <1>5, <1>6 DEF IndInv, Shape

(* Its last assignment. *)
LEMMA StoreConnectingInv ==
  ASSUME IndInv, NEW n \in Node, StoreConnecting(n)
  PROVE  IndInv'
  <1> USE DEF StoreConnecting, server, Works
  <1>0. /\ conn[n] \in Trans /\ conn[n][1] = n
        /\ next[n] \in Node /\ cli[conn[n]].state # "NONE"
    BY DEF IndInv, Shape, Trying
  <1>a. /\ cli' \in [Trans -> [state : CliStates, to : Node \cup {Done}, isServer : BOOLEAN]]
        /\ cli'[conn[n]].state = "CONNECTING"
        /\ \A u \in Trans : /\ cli'[u].to = cli[u].to
                            /\ cli'[u].isServer = cli[u].isServer
                            /\ u # conn[n] => cli'[u].state = cli[u].state
    BY <1>0, StateAssigned DEF IndInv, CliStates
  <1>1. TypeOK'
    <2>1. FaultsLeft'
      BY FaultsCounted DEF IndInv, TypeOK
    <2>2. mpc' \in [Node -> {"server", "client", "connect", "store", "sleep", "return", "crash"}]
      BY <1>0, <1>a DEF IndInv, TypeOK
    <2>3. cli' \in [Trans -> [state : CliStates, to : Node \cup {Done}, isServer : BOOLEAN]]
      BY <1>0, <1>a DEF IndInv, TypeOK, CliStates
    <2> QED
      BY <2>1, <2>2, <2>3 DEF IndInv, TypeOK
  <1>2. ListsRight'
    BY <1>0, <1>a
    DEF IndInv, Shape, ListsRight, TypeOK, Stage, StateRight, Untouched, Listed
  <1>3. \A u \in Trans : Stage(u)'
    BY <1>0, <1>a DEF IndInv, Shape, TypeOK, Stage, StateRight, Untouched, Listed
  <1>4. \A u \in Trans : StateRight(u)'
    BY <1>0, <1>a DEF IndInv, Shape, TypeOK, Stage, StateRight, Untouched, Listed
  <1>5. \A m \in Node : Trying(m)' /\ Kept(m)'
    BY <1>0, <1>a
    DEF IndInv, Shape, TypeOK, StateRight, Trying, Kept, Untouched, Listed
  <1>6. Counts'
    BY <1>0, <1>a DEF IndInv, Shape, TypeOK, Kept, Counts, Without
  <1> QED
    BY <1>1, <1>2, <1>3, <1>4, <1>5, <1>6 DEF IndInv, Shape

(* A transport is given up. *)
LEMMA GiveUpInv ==
  ASSUME IndInv, NEW n \in Node, GiveUp(n)
  PROVE  IndInv'
  <1> USE DEF GiveUp, SleepOver, server, Works, Fails
  <1>1. TypeOK'
    <2>1. FaultsLeft'
      BY FaultsCounted DEF IndInv, TypeOK
    <2>2. mpc' \in [Node -> {"server", "client", "connect", "store", "sleep", "return", "crash"}]
      BY DEF IndInv, TypeOK
    <2> QED
      BY <2>1, <2>2 DEF IndInv, TypeOK
  <1>2. ListsRight'
    BY DEF IndInv, Shape, ListsRight, TypeOK, Stage, StateRight, Untouched, Listed
  <1>3. \A u \in Trans : Stage(u)'
    BY DEF IndInv, Shape, TypeOK, Stage, StateRight, Untouched, Listed
  <1>4. \A u \in Trans : StateRight(u)'
    BY DEF IndInv, Shape, TypeOK, Stage, StateRight, Untouched, Listed
  <1>5. \A m \in Node : Trying(m)' /\ Kept(m)'
    BY DEF IndInv, Shape, TypeOK, StateRight, Trying, Kept, Untouched, Listed
  <1>6. Counts'
    BY DEF IndInv, Shape, TypeOK, Kept, Counts, Without
  <1> QED
    BY <1>1, <1>2, <1>3, <1>4, <1>5, <1>6 DEF IndInv, Shape

(* A rejected one is freed. *)
LEMMA FreeRejectedInv ==
  ASSUME IndInv, NEW n \in Node, FreeRejected(n)
  PROVE  IndInv'
  <1> USE DEF FreeRejected, SleepOver, server, Works, Fails, Unused
  <1>0. /\ conn[n] \in Trans /\ conn[n][1] = n
        /\ next[n] \in Node /\ cli[conn[n]].state # "NONE"
    BY DEF IndInv, Shape, Trying
  <1>1. TypeOK'
    <2>1. FaultsLeft'
      BY FaultsCounted DEF IndInv, TypeOK
    <2>2. mpc' \in [Node -> {"server", "client", "connect", "store", "sleep", "return", "crash"}]
      BY <1>0 DEF IndInv, TypeOK
    <2>3. cli' \in [Trans -> [state : CliStates, to : Node \cup {Done}, isServer : BOOLEAN]]
      BY <1>0 DEF IndInv, TypeOK, CliStates
    <2>4. toCli' \in [Trans -> ToCli]
      BY <1>0 DEF IndInv, TypeOK, ToCli
    <2> QED
      BY <2>1, <2>2, <2>3, <2>4 DEF IndInv, TypeOK
  <1>2. ListsRight'
    BY <1>0
    DEF IndInv, Shape, ListsRight, TypeOK, Stage, StateRight, Untouched, Listed
  <1>a. /\ Untouched(conn[n]) /\ toCli'[conn[n]] = "NONE"
        /\ cli'[conn[n]].state = "NONE" /\ cli'[conn[n]].to = Done /\ Done \notin Node
        /\ \A u \in Trans : u # conn[n] => toCli'[u] = toCli[u] /\ cli'[u] = cli[u]
    BY <1>0, ConnectionAssumption DEF IndInv, Shape, StateRight, TypeOK, Done, Node
  <1>3. \A u \in Trans : Stage(u)'
    <2>1. Stage(conn[n])'
      BY <1>a DEF Stage, Untouched, Listed
    <2>2. ASSUME NEW u \in Trans, u # conn[n] PROVE Stage(u)'
      BY <1>a, <2>2 DEF IndInv, Shape, Stage, Untouched, Listed
    <2> QED
      BY <2>1, <2>2
  <1>4. \A u \in Trans : StateRight(u)'
    <2>1. StateRight(conn[n])'
      BY <1>a DEF StateRight, Untouched, Listed
    <2>2. ASSUME NEW u \in Trans, u # conn[n] PROVE StateRight(u)'
      BY <1>a, <2>2 DEF IndInv, Shape, StateRight, Untouched, Listed
    <2> QED
      BY <2>1, <2>2
  <1>5. \A m \in Node : Trying(m)' /\ Kept(m)'
    BY <1>0 DEF IndInv, Shape, TypeOK, StateRight, Trying, Kept, Untouched, Listed
  <1>6. Counts'
    BY <1>0 DEF IndInv, Shape, TypeOK, Kept, Counts, Without
  <1> QED
    BY <1>1, <1>2, <1>3, <1>4, <1>5, <1>6 DEF IndInv, Shape

(* dhmp_connect returns. *)
LEMMA LeaveLoopInv ==
  ASSUME IndInv, NEW n \in Node, LeaveLoop(n)
  PROVE  IndInv'
  <1> USE DEF LeaveLoop, SleepOver, server, Works, Fails
  <1>1. TypeOK'
    <2>1. FaultsLeft'
      BY FaultsCounted DEF IndInv, TypeOK
    <2>2. mpc' \in [Node -> {"server", "client", "connect", "store", "sleep", "return", "crash"}]
      BY DEF IndInv, TypeOK
    <2> QED
      BY <2>1, <2>2 DEF IndInv, TypeOK
  <1>2. ListsRight'
    BY DEF IndInv, Shape, ListsRight, TypeOK, Stage, StateRight, Untouched, Listed
  <1>3. \A u \in Trans : Stage(u)'
    BY DEF IndInv, Shape, TypeOK, Stage, StateRight, Untouched, Listed
  <1>4. \A u \in Trans : StateRight(u)'
    BY DEF IndInv, Shape, TypeOK, Stage, StateRight, Untouched, Listed
  <1>5. \A m \in Node : Trying(m)' /\ Kept(m)'
    BY DEF IndInv, Shape, TypeOK, StateRight, Trying, Kept, Untouched, Listed
  <1>6. Counts'
    BY DEF IndInv, Shape, TypeOK, Kept, Counts, Without
  <1> QED
    BY <1>1, <1>2, <1>3, <1>4, <1>5, <1>6 DEF IndInv, Shape

(* The transport is kept. *)
LEMMA KeepTransInv ==
  ASSUME IndInv, NEW n \in Node, KeepTrans(n)
  PROVE  IndInv'
  <1> USE DEF KeepTrans, server, Works
  <1>0. /\ conn[n] \in Trans /\ conn[n][1] = n
        /\ next[n] \in Node /\ cli[conn[n]].state # "NONE"
    BY DEF IndInv, Shape, Trying
  <1>1. TypeOK'
    <2>1. FaultsLeft'
      BY FaultsCounted DEF IndInv, TypeOK
    <2>2. mpc' \in [Node -> {"server", "client", "connect", "store", "sleep", "return", "crash"}]
      BY <1>0 DEF IndInv, TypeOK
    <2>3. next' \in [Node -> 1 .. Done]
      BY <1>0, ConnectionAssumption DEF IndInv, TypeOK, NextTarget, Done, Node
    <2>4. connectTrans' \in [Node -> SUBSET Trans]
      BY <1>0 DEF IndInv, TypeOK
    <2>5. cli' \in [Trans -> [state : CliStates, to : Node \cup {Done}, isServer : BOOLEAN]]
      <3> DEFINE R == [state : CliStates, to : Node \cup {Done}, isServer : BOOLEAN]
                 r == [cli[conn[n]] EXCEPT !.isServer = FALSE]
      <3>1. cli \in [Trans -> R] /\ cli' = [cli EXCEPT ![conn[n]] = r]
        BY <1>0 DEF IndInv, TypeOK
      <3>2. r \in R
        BY <1>0, <3>1
      <3> HIDE DEF R, r
      <3>3. cli' \in [Trans -> R]
        BY <3>1, <3>2
      <3> QED
        BY <3>3 DEF R
    <2> QED
      BY <2>1, <2>2, <2>3, <2>4, <2>5 DEF IndInv, TypeOK
  <1>2. ListsRight'
    BY <1>0
    DEF IndInv, Shape, ListsRight, TypeOK, Stage, StateRight, Untouched, Listed
  <1>3. \A u \in Trans : Stage(u)'
    BY <1>0 DEF IndInv, Shape, TypeOK, Stage, StateRight, Untouched, Listed
  <1>4. \A u \in Trans : StateRight(u)'
    BY <1>0 DEF IndInv, Shape, TypeOK, Stage, StateRight, Untouched, Listed
  <1>5. \A m \in Node : Trying(m)' /\ Kept(m)'
    BY <1>0 DEF IndInv, Shape, TypeOK, StateRight, Trying, Kept, Untouched, Listed
  <1>6. Counts'
    BY <1>0 DEF IndInv, Shape, TypeOK, Kept, Counts, Without
  <1> QED
    BY <1>1, <1>2, <1>3, <1>4, <1>5, <1>6 DEF IndInv, Shape

(* The epoll thread starts to read a channel. *)
LEMMA EnterHandlerInv ==
  ASSUME IndInv, NEW n \in Node, EnterHandler(n)
  PROVE  IndInv'
  <1> USE DEF EnterHandler, main, server, Works, Fails, Trans
  <1>1. TypeOK'
    <2>1. FaultsLeft'
      BY FaultsCounted DEF IndInv, TypeOK
    <2>2. loop' \in [Node -> Trans \cup {None}]
      BY DEF IndInv, TypeOK
    <2> QED
      BY <2>1, <2>2 DEF IndInv, TypeOK
  <1>2. ListsRight'
    BY DEF IndInv, Shape, ListsRight, TypeOK, Stage, StateRight, Untouched, Listed
  <1>3. \A u \in Trans : Stage(u)'
    BY DEF IndInv, Shape, TypeOK, Stage, StateRight, Untouched, Listed
  <1>4. \A u \in Trans : StateRight(u)'
    BY DEF IndInv, Shape, TypeOK, Stage, StateRight, Untouched, Listed
  <1>5. \A m \in Node : Trying(m)' /\ Kept(m)'
    BY DEF IndInv, Shape, TypeOK, StateRight, Trying, Kept, Untouched, Listed
  <1>6. Counts'
    BY DEF IndInv, Shape, TypeOK, Kept, Counts, Without
  <1> QED
    BY <1>1, <1>2, <1>3, <1>4, <1>5, <1>6 DEF IndInv, Shape

(* It has read all events. *)
LEMMA LeaveHandlerInv ==
  ASSUME IndInv, NEW n \in Node, LeaveHandler(n)
  PROVE  IndInv'
  <1> USE DEF LeaveHandler, main, server, Works
  <1>0. loop[n] \in Trans /\ loop[n][1] = n
    BY DEF IndInv, Shape, Kept
  <1>1. TypeOK'
    <2>1. FaultsLeft'
      BY FaultsCounted DEF IndInv, TypeOK
    <2>2. loop' \in [Node -> Trans \cup {None}]
      BY <1>0 DEF IndInv, TypeOK
    <2> QED
      BY <2>1, <2>2 DEF IndInv, TypeOK
  <1>2. ListsRight'
    BY <1>0
    DEF IndInv, Shape, ListsRight, TypeOK, Stage, StateRight, Untouched, Listed
  <1>3. \A u \in Trans : Stage(u)'
    BY <1>0 DEF IndInv, Shape, TypeOK, Stage, StateRight, Untouched, Listed
  <1>4. \A u \in Trans : StateRight(u)'
    BY <1>0 DEF IndInv, Shape, TypeOK, Stage, StateRight, Untouched, Listed
  <1>5. \A m \in Node : Trying(m)' /\ Kept(m)'
    BY <1>0 DEF IndInv, Shape, TypeOK, StateRight, Trying, Kept, Untouched, Listed
  <1>6. Counts'
    BY <1>0 DEF IndInv, Shape, TypeOK, Kept, Counts, Without
  <1> QED
    BY <1>1, <1>2, <1>3, <1>4, <1>5, <1>6 DEF IndInv, Shape

(* on_cm_addr_resolved. *)
LEMMA AddrResolvedInv ==
  ASSUME IndInv, NEW n \in Node, OnAddrResolved(n)
  PROVE  IndInv'
  <1> USE DEF OnAddrResolved, Gets, Acked, Tells, SetState, ReturnsZero,
              ReturnsError, main, server, Works, Fails
  <1>0. loop[n] \in Trans /\ loop[n][1] = n
    BY DEF IndInv, Shape, Kept
  <1>1. TypeOK'
    <2>1. FaultsLeft'
      BY FaultsCounted DEF IndInv, TypeOK
    <2>2. loop' \in [Node -> Trans \cup {None}]
      BY <1>0 DEF IndInv, TypeOK
    <2>3. toCli' \in [Trans -> ToCli]
      BY <1>0 DEF IndInv, TypeOK, ToCli
    <2> QED
      BY <2>1, <2>2, <2>3 DEF IndInv, TypeOK
  <1>2. ListsRight'
    BY <1>0
    DEF IndInv, Shape, ListsRight, TypeOK, Stage, StateRight, Untouched, Listed
  <1>3. \A u \in Trans : Stage(u)'
    BY <1>0 DEF IndInv, Shape, TypeOK, Stage, StateRight, Untouched, Listed
  <1>4. \A u \in Trans : StateRight(u)'
    BY <1>0 DEF IndInv, Shape, TypeOK, Stage, StateRight, Untouched, Listed
  <1>5. \A m \in Node : Trying(m)' /\ Kept(m)'
    BY <1>0 DEF IndInv, Shape, TypeOK, StateRight, Trying, Kept, Untouched, Listed
  <1>6. Counts'
    BY <1>0 DEF IndInv, Shape, TypeOK, Kept, Counts, Without
  <1> QED
    BY <1>1, <1>2, <1>3, <1>4, <1>5, <1>6 DEF IndInv, Shape

(* on_cm_route_resolved. *)
LEMMA RouteResolvedInv ==
  ASSUME IndInv, NEW n \in Node, OnRouteResolved(n)
  PROVE  IndInv'
  <1> USE DEF OnRouteResolved, Gets, Acked, Tells, SetState, ReturnsZero,
              ReturnsError, main, server, Works, Fails
  <1>0. loop[n] \in Trans /\ loop[n][1] = n
    BY DEF IndInv, Shape, Kept
  <1>a. /\ cli' \in [Trans -> [state : CliStates, to : Node \cup {Done}, isServer : BOOLEAN]]
        /\ cli'[loop[n]].state \in {cli[loop[n]].state, "ERROR"}
        /\ \A u \in Trans : /\ cli'[u].to = cli[u].to
                            /\ cli'[u].isServer = cli[u].isServer
                            /\ u # loop[n] => cli'[u].state = cli[u].state
    <2>1. CASE UNCHANGED cli
      BY <2>1 DEF IndInv, TypeOK
    <2>2. CASE SetState(loop[n], "ERROR")
      BY <1>0, <2>2, StateAssigned DEF IndInv, CliStates
    <2> QED
      BY <2>1, <2>2
  <1>1. TypeOK'
    <2>1. FaultsLeft'
      BY FaultsCounted DEF IndInv, TypeOK
    <2>2. loop' \in [Node -> Trans \cup {None}]
      BY <1>0 DEF IndInv, TypeOK
    <2>3. cli' \in [Trans -> [state : CliStates, to : Node \cup {Done}, isServer : BOOLEAN]]
      BY <1>a DEF IndInv, TypeOK
    <2>4. stopped' \subseteq Node
      BY <1>0 DEF IndInv, TypeOK
    <2>5. toCli' \in [Trans -> ToCli]
      BY <1>0 DEF IndInv, TypeOK, ToCli
    <2>6. toSrv' \in [Trans -> ToSrv]
      BY <1>0 DEF IndInv, TypeOK, ToSrv
    <2> QED
      BY <2>1, <2>2, <2>3, <2>4, <2>5, <2>6 DEF IndInv, TypeOK
  <1>2. ListsRight'
    BY <1>0
    DEF IndInv, Shape, ListsRight, TypeOK, Stage, StateRight, Untouched, Listed
  <1>3. \A u \in Trans : Stage(u)'
    BY <1>0 DEF IndInv, Shape, TypeOK, Stage, StateRight, Untouched, Listed
  <1>4. \A u \in Trans : StateRight(u)'
    BY <1>0 DEF IndInv, Shape, TypeOK, Stage, StateRight, Untouched, Listed
  <1>5. \A m \in Node : Trying(m)' /\ Kept(m)'
    <2>1. ASSUME NEW m \in Node PROVE Trying(m)'
      BY <1>0, <1>a DEF IndInv, Shape, TypeOK, Trying, Untouched, Listed
    <2>2. ASSUME NEW m \in Node PROVE Kept(m)'
      <3>1. \A u \in connectTrans[m] : u \in Trans /\ cli[u].state # "NONE"
        BY DEF IndInv, TypeOK, Shape, Kept
      <3>2. \A u \in connectTrans[m] : cli'[u].state # "NONE"
        BY <1>a, <3>1
      <3>3. loop'[m] # None => loop'[m] = loop[m]
        BY <1>0 DEF IndInv, TypeOK
      <3> QED
        BY <1>a, <3>1, <3>2, <3>3 DEF IndInv, Shape, Kept
    <2> QED
      BY <2>1, <2>2
  <1>6. Counts'
    BY <1>0 DEF IndInv, Shape, TypeOK, Kept, Counts, Without
  <1> QED
    BY <1>1, <1>2, <1>3, <1>4, <1>5, <1>6 DEF IndInv, Shape

(* on_cm_established. *)
LEMMA EstablishedInv ==
  ASSUME IndInv, NEW n \in Node, OnEstablished(n)
  PROVE  IndInv'
  <1> USE DEF OnEstablished, Gets, Acked, Tells, SetState, ReturnsZero,
              ReturnsError, main, server, Works, Fails
  <1>0. loop[n] \in Trans /\ loop[n][1] = n
    BY DEF IndInv, Shape, Kept
  <1>a. /\ cli' \in [Trans -> [state : CliStates, to : Node \cup {Done}, isServer : BOOLEAN]]
        /\ cli'[loop[n]].state = "CONNECTED"
        /\ \A u \in Trans : /\ cli'[u].to = cli[u].to
                            /\ cli'[u].isServer = cli[u].isServer
                            /\ u # loop[n] => cli'[u].state = cli[u].state
    BY <1>0, StateAssigned DEF IndInv, CliStates
  <1>1. TypeOK'
    <2>1. FaultsLeft'
      BY FaultsCounted DEF IndInv, TypeOK
    <2>2. cli' \in [Trans -> [state : CliStates, to : Node \cup {Done}, isServer : BOOLEAN]]
      BY <1>0, <1>a DEF IndInv, TypeOK, CliStates
    <2>3. toCli' \in [Trans -> ToCli]
      BY <1>0, <1>a DEF IndInv, TypeOK, ToCli
    <2>4. toSrv' \in [Trans -> ToSrv]
      BY <1>0, <1>a DEF IndInv, TypeOK, ToSrv
    <2> QED
      BY <2>1, <2>2, <2>3, <2>4 DEF IndInv, TypeOK
  <1>2. ListsRight'
    BY <1>0, <1>a
    DEF IndInv, Shape, ListsRight, TypeOK, Stage, StateRight, Untouched, Listed
  <1>3. \A u \in Trans : Stage(u)'
    BY <1>0, <1>a DEF IndInv, Shape, TypeOK, Stage, StateRight, Untouched, Listed
  <1>4. ASSUME NEW u \in Trans PROVE StateRight(u)'
    <2>1. CASE u = loop[n]
      <3>1. toSrv[u] = "NONE" /\ srv[u] = "CONNECTING" /\ Listed(u)
        BY <1>0, <2>1 DEF IndInv, Shape, Stage
      <3>2. Listed(u)' /\ cli'[u].to \in Node
        BY <1>0, <1>a, <2>1, <3>1 DEF Listed
      <3>3. \/ toCli'[u] = "NONE" /\ toSrv'[u] = "ESTABLISHED"
            \/ toCli'[u] = "DISCONNECTED"
        BY <1>0, <2>1 DEF IndInv, TypeOK
      <3> QED
        BY <1>a, <2>1, <3>2, <3>3 DEF StateRight
    <2>2. CASE u # loop[n]
      <3>1. toCli'[u] = toCli[u] /\ toSrv'[u] = toSrv[u] /\ srv'[u] = srv[u]
        BY <1>0, <2>2 DEF IndInv, TypeOK
      <3>2. /\ cli'[u].state = cli[u].state
            /\ cli'[u].to = cli[u].to
            /\ Listed(u)' = Listed(u)
        BY <1>a, <2>2 DEF Listed
      <3>3. StateRight(u)
        BY DEF IndInv, Shape
      <3> QED
        BY <3>1, <3>2, <3>3 DEF StateRight, Untouched
    <2> QED
      BY <2>1, <2>2
  <1>5. \A m \in Node : Trying(m)' /\ Kept(m)'
    BY <1>0, <1>a
    DEF IndInv, Shape, TypeOK, StateRight, Trying, Kept, Untouched, Listed
  <1>6. Counts'
    BY <1>0, <1>a DEF IndInv, Shape, TypeOK, Kept, Counts, Without
  <1> QED
    BY <1>1, <1>2, <1>3, <1>4, <1>5, <1>6 DEF IndInv, Shape

(* on_cm_rejected. *)
LEMMA RejectedInv ==
  ASSUME IndInv, NEW n \in Node, OnRejected(n)
  PROVE  IndInv'
  <1> USE DEF OnRejected, Gets, Acked, Tells, SetState, ReturnsZero, ReturnsError,
              main, server, Works, Fails
  <1>0. loop[n] \in Trans /\ loop[n][1] = n
    BY DEF IndInv, Shape, Kept
  <1>a. /\ cli' \in [Trans -> [state : CliStates, to : Node \cup {Done}, isServer : BOOLEAN]]
        /\ cli'[loop[n]].state = "REJECT"
        /\ \A u \in Trans : /\ cli'[u].to = cli[u].to
                            /\ cli'[u].isServer = cli[u].isServer
                            /\ u # loop[n] => cli'[u].state = cli[u].state
    BY <1>0, StateAssigned DEF IndInv, CliStates
  <1>1. TypeOK'
    <2>1. FaultsLeft'
      BY FaultsCounted DEF IndInv, TypeOK
    <2>2. cli' \in [Trans -> [state : CliStates, to : Node \cup {Done}, isServer : BOOLEAN]]
      BY <1>0, <1>a DEF IndInv, TypeOK, CliStates
    <2>3. toCli' \in [Trans -> ToCli]
      BY <1>0, <1>a DEF IndInv, TypeOK, ToCli
    <2> QED
      BY <2>1, <2>2, <2>3 DEF IndInv, TypeOK
  <1>2. ListsRight'
    BY <1>0, <1>a
    DEF IndInv, Shape, ListsRight, TypeOK, Stage, StateRight, Untouched, Listed
  <1>3. \A u \in Trans : Stage(u)'
    BY <1>0, <1>a DEF IndInv, Shape, TypeOK, Stage, StateRight, Untouched, Listed
  <1>4. \A u \in Trans : StateRight(u)'
    BY <1>0, <1>a DEF IndInv, Shape, TypeOK, Stage, StateRight, Untouched, Listed
  <1>5. \A m \in Node : Trying(m)' /\ Kept(m)'
    BY <1>0, <1>a
    DEF IndInv, Shape, TypeOK, StateRight, Trying, Kept, Untouched, Listed
  <1>6. Counts'
    BY <1>0, <1>a DEF IndInv, Shape, TypeOK, Kept, Counts, Without
  <1> QED
    BY <1>1, <1>2, <1>3, <1>4, <1>5, <1>6 DEF IndInv, Shape

(* on_cm_disconnected. *)
LEMMA DisconnectedInv ==
  ASSUME IndInv, NEW n \in Node, OnDisconnected(n)
  PROVE  IndInv'
  <1> USE DEF OnDisconnected, Unlink, Gets, Acked, Tells, SetState, ReturnsZero,
              ReturnsError, main, server, Works, Fails
  <1>0. loop[n] \in Trans /\ loop[n][1] = n
    BY DEF IndInv, Shape, Kept
  <1>a. /\ cli' \in [Trans -> [state : CliStates, to : Node \cup {Done}, isServer : BOOLEAN]]
        /\ cli'[loop[n]].state = "DISCONNECTED"
        /\ \A u \in Trans : /\ cli'[u].to = cli[u].to
                            /\ cli'[u].isServer = cli[u].isServer
                            /\ u # loop[n] => cli'[u].state = cli[u].state
    BY <1>0, StateAssigned DEF IndInv, CliStates
  <1>1. TypeOK'
    <2>1. FaultsLeft'
      BY FaultsCounted DEF IndInv, TypeOK
    <2>2. mpc' \in [Node -> {"server", "client", "connect", "store", "sleep", "return", "crash"}]
      <3>1. mpc' = mpc \/ mpc' = [mpc EXCEPT ![n] = "crash"]
        OBVIOUS
      <3> QED
        BY <3>1 DEF IndInv, TypeOK
    <2>3. cli' \in [Trans -> [state : CliStates, to : Node \cup {Done}, isServer : BOOLEAN]]
      BY <1>0, <1>a DEF IndInv, TypeOK, CliStates
    <2>4. curConnections' \in [Node -> Int]
      BY <1>0, <1>a DEF IndInv, TypeOK
    <2>5. toCli' \in [Trans -> ToCli]
      BY <1>0, <1>a DEF IndInv, TypeOK, ToCli
    <2> QED
      BY <2>1, <2>2, <2>3, <2>4, <2>5 DEF IndInv, TypeOK
  <1>2. ListsRight'
    BY <1>0, <1>a
    DEF IndInv, Shape, ListsRight, TypeOK, Stage, StateRight, Untouched, Listed
  <1>3. \A u \in Trans : Stage(u)'
    BY <1>0, <1>a DEF IndInv, Shape, TypeOK, Stage, StateRight, Untouched, Listed
  <1>4. \A u \in Trans : StateRight(u)'
    BY <1>0, <1>a DEF IndInv, Shape, TypeOK, Stage, StateRight, Untouched, Listed
  <1>5. \A m \in Node : Trying(m)' /\ Kept(m)'
    BY <1>0, <1>a
    DEF IndInv, Shape, TypeOK, StateRight, Trying, Kept, Untouched, Listed
  <1>6. Counts'
    BY <1>0, <1>a DEF IndInv, Shape, TypeOK, Kept, Counts, Without
  <1> QED
    BY <1>1, <1>2, <1>3, <1>4, <1>5, <1>6 DEF IndInv, Shape

(* on_cm_error. *)
LEMMA ErrorInv ==
  ASSUME IndInv, NEW n \in Node, OnError(n)
  PROVE  IndInv'
  <1> USE DEF OnError, Unlink, Gets, Acked, Tells, SetState, ReturnsZero,
              ReturnsError, main, server, Works, Fails
  <1>0. loop[n] \in Trans /\ loop[n][1] = n
    BY DEF IndInv, Shape, Kept
  <1>a. /\ cli' \in [Trans -> [state : CliStates, to : Node \cup {Done}, isServer : BOOLEAN]]
        /\ cli'[loop[n]].state = "ERROR"
        /\ \A u \in Trans : /\ cli'[u].to = cli[u].to
                            /\ cli'[u].isServer = cli[u].isServer
                            /\ u # loop[n] => cli'[u].state = cli[u].state
    BY <1>0, StateAssigned DEF IndInv, CliStates
  <1>1. TypeOK'
    <2>1. FaultsLeft'
      BY FaultsCounted DEF IndInv, TypeOK
    <2>2. mpc' \in [Node -> {"server", "client", "connect", "store", "sleep", "return", "crash"}]
      BY <1>0, <1>a DEF IndInv, TypeOK
    <2>3. cli' \in [Trans -> [state : CliStates, to : Node \cup {Done}, isServer : BOOLEAN]]
      BY <1>0, <1>a DEF IndInv, TypeOK, CliStates
    <2>4. curConnections' \in [Node -> Int]
      BY <1>0, <1>a DEF IndInv, TypeOK
    <2>5. toCli' \in [Trans -> ToCli]
      BY <1>0, <1>a DEF IndInv, TypeOK, ToCli
    <2> QED
      BY <2>1, <2>2, <2>3, <2>4, <2>5 DEF IndInv, TypeOK
  <1>2. ListsRight'
    BY <1>0, <1>a
    DEF IndInv, Shape, ListsRight, TypeOK, Stage, StateRight, Untouched, Listed
  <1>3. \A u \in Trans : Stage(u)'
    BY <1>0, <1>a DEF IndInv, Shape, TypeOK, Stage, StateRight, Untouched, Listed
  <1>4. \A u \in Trans : StateRight(u)'
    BY <1>0, <1>a DEF IndInv, Shape, TypeOK, Stage, StateRight, Untouched, Listed
  <1>5. \A m \in Node : Trying(m)' /\ Kept(m)'
    BY <1>0, <1>a
    DEF IndInv, Shape, TypeOK, StateRight, Trying, Kept, Untouched, Listed
  <1>6. Counts'
    BY <1>0, <1>a DEF IndInv, Shape, TypeOK, Kept, Counts, Without
  <1> QED
    BY <1>1, <1>2, <1>3, <1>4, <1>5, <1>6 DEF IndInv, Shape

(* Any other event. *)
LEMMA OtherInv ==
  ASSUME IndInv, NEW n \in Node, OnOther(n)
  PROVE  IndInv'
  <1> USE DEF OnOther, Gets, Acked, Tells, SetState, ReturnsZero, ReturnsError,
              main, server, Works, Fails
  <1>0. loop[n] \in Trans /\ loop[n][1] = n
    BY DEF IndInv, Shape, Kept
  <1>1. TypeOK'
    <2>1. FaultsLeft'
      BY FaultsCounted DEF IndInv, TypeOK
    <2>2. loop' \in [Node -> Trans \cup {None}]
      BY <1>0 DEF IndInv, TypeOK
    <2>3. toCli' \in [Trans -> ToCli]
      BY <1>0 DEF IndInv, TypeOK, ToCli
    <2> QED
      BY <2>1, <2>2, <2>3 DEF IndInv, TypeOK
  <1>2. ListsRight'
    BY <1>0
    DEF IndInv, Shape, ListsRight, TypeOK, Stage, StateRight, Untouched, Listed
  <1>3. \A u \in Trans : Stage(u)'
    BY <1>0 DEF IndInv, Shape, TypeOK, Stage, StateRight, Untouched, Listed
  <1>4. \A u \in Trans : StateRight(u)'
    BY <1>0 DEF IndInv, Shape, TypeOK, Stage, StateRight, Untouched, Listed
  <1>5. \A m \in Node : Trying(m)' /\ Kept(m)'
    BY <1>0 DEF IndInv, Shape, TypeOK, StateRight, Trying, Kept, Untouched, Listed
  <1>6. Counts'
    BY <1>0 DEF IndInv, Shape, TypeOK, Kept, Counts, Without
  <1> QED
    BY <1>1, <1>2, <1>3, <1>4, <1>5, <1>6 DEF IndInv, Shape

(* A request is not answered. *)
LEMMA DropRequestInv ==
  ASSUME IndInv, NEW t \in Trans, DropRequest(t)
  PROVE  IndInv'
  <1> USE DEF DropRequest, server, Served, Taken, Answers, main, Works, Fails
  <1>0. cli[t].to \in Node
    BY DEF IndInv, Shape, Stage, StateRight, Untouched, Listed
  <1>1. TypeOK'
    <2>1. FaultsLeft'
      BY FaultsCounted DEF IndInv, TypeOK
    <2>2. toCli' \in [Trans -> ToCli]
      BY <1>0 DEF IndInv, TypeOK, ToCli
    <2>3. toSrv' \in [Trans -> ToSrv]
      BY <1>0 DEF IndInv, TypeOK, ToSrv
    <2> QED
      BY <2>1, <2>2, <2>3 DEF IndInv, TypeOK
  <1>2. ListsRight'
    BY <1>0
    DEF IndInv, Shape, ListsRight, TypeOK, Stage, StateRight, Untouched, Listed
  <1>3. \A u \in Trans : Stage(u)'
    BY <1>0 DEF IndInv, Shape, TypeOK, Stage, StateRight, Untouched, Listed
  <1>4. \A u \in Trans : StateRight(u)'
    BY <1>0 DEF IndInv, Shape, TypeOK, Stage, StateRight, Untouched, Listed
  <1>5. \A m \in Node : Trying(m)' /\ Kept(m)'
    BY <1>0 DEF IndInv, Shape, TypeOK, StateRight, Trying, Kept, Untouched, Listed
  <1>6. Counts'
    BY <1>0 DEF IndInv, Shape, TypeOK, Kept, Counts, Without
  <1> QED
    BY <1>1, <1>2, <1>3, <1>4, <1>5, <1>6 DEF IndInv, Shape

(* on_cm_connect_request: one more connection, which was in no list. *)
LEMMA ConnectRequestInv ==
  ASSUME IndInv, NEW t \in Trans, OnConnectRequest(t)
  PROVE  IndInv'
  <1> USE DEF OnConnectRequest, Served, Taken, Answers, main, Works, Fails
  <1>0. cli[t].to \in Node /\ ~Listed(t)
    BY DEF IndInv, Shape, Stage, StateRight, Untouched, Listed
  <1>1. TypeOK'
    <2>1. FaultsLeft'
      BY FaultsCounted DEF IndInv, TypeOK
    <2>2. clientList' \in [Node -> SUBSET Trans]
      BY <1>0 DEF IndInv, TypeOK
    <2>3. curConnections' \in [Node -> Int]
      BY <1>0 DEF IndInv, TypeOK
    <2>4. srv' \in [Trans -> CliStates]
      BY <1>0 DEF IndInv, TypeOK, CliStates
    <2>5. toCli' \in [Trans -> ToCli]
      BY <1>0 DEF IndInv, TypeOK, ToCli
    <2>6. toSrv' \in [Trans -> ToSrv]
      BY <1>0 DEF IndInv, TypeOK, ToSrv
    <2> QED
      BY <2>1, <2>2, <2>3, <2>4, <2>5, <2>6 DEF IndInv, TypeOK
  <1>2. ListsRight'
    BY <1>0
    DEF IndInv, Shape, ListsRight, TypeOK, Stage, StateRight, Untouched, Listed
  <1>3. \A u \in Trans : Stage(u)'
    BY <1>0 DEF IndInv, Shape, TypeOK, Stage, StateRight, Untouched, Listed
  <1>4. \A u \in Trans : StateRight(u)'
    BY <1>0 DEF IndInv, Shape, TypeOK, Stage, StateRight, Untouched, Listed
  <1>5. \A m \in Node : Trying(m)' /\ Kept(m)'
    BY <1>0 DEF IndInv, Shape, TypeOK, StateRight, Trying, Kept, Untouched, Listed
  <1>6. Counts'
    <2>1. Cardinality(clientList[cli[t].to] \cup {t}) = Cardinality(clientList[cli[t].to]) + 1
      BY <1>0, ListsFinite, FS_AddElement DEF IndInv, Listed
    <2> QED
      BY <1>0, <2>1 DEF IndInv, TypeOK, Counts, Without
  <1> QED
    BY <1>1, <1>2, <1>3, <1>4, <1>5, <1>6 DEF IndInv, Shape

(* on_cm_established of the server. *)
LEMMA EstablishedServerInv ==
  ASSUME IndInv, NEW t \in Trans, OnEstablishedServer(t)
  PROVE  IndInv'
  <1> USE DEF OnEstablishedServer, Served, Taken, Answers, main, Works, Fails
  <1>0. cli[t].to \in Node
    BY DEF IndInv, Shape, Stage, StateRight, Untouched, Listed
  <1>1. TypeOK'
    <2>1. FaultsLeft'
      BY FaultsCounted DEF IndInv, TypeOK
    <2>2. srv' \in [Trans -> CliStates]
      BY <1>0 DEF IndInv, TypeOK, CliStates
    <2>3. toSrv' \in [Trans -> ToSrv]
      BY <1>0 DEF IndInv, TypeOK, ToSrv
    <2> QED
      BY <2>1, <2>2, <2>3 DEF IndInv, TypeOK
  <1>2. ListsRight'
    BY <1>0
    DEF IndInv, Shape, ListsRight, TypeOK, Stage, StateRight, Untouched, Listed
  <1>3. \A u \in Trans : Stage(u)'
    BY <1>0 DEF IndInv, Shape, TypeOK, Stage, StateRight, Untouched, Listed
  <1>4. \A u \in Trans : StateRight(u)'
    BY <1>0 DEF IndInv, Shape, TypeOK, Stage, StateRight, Untouched, Listed
  <1>5. \A m \in Node : Trying(m)' /\ Kept(m)'
    BY <1>0 DEF IndInv, Shape, TypeOK, StateRight, Trying, Kept, Untouched, Listed
  <1>6. Counts'
    BY <1>0 DEF IndInv, Shape, TypeOK, Kept, Counts, Without
  <1> QED
    BY <1>1, <1>2, <1>3, <1>4, <1>5, <1>6 DEF IndInv, Shape

(* on_cm_rejected of the server. *)
LEMMA RejectedServerInv ==
  ASSUME IndInv, NEW t \in Trans, OnRejectedServer(t)
  PROVE  IndInv'
  <1> USE DEF OnRejectedServer, Served, Taken, Answers, main, Works, Fails
  <1>0. cli[t].to \in Node
    BY DEF IndInv, Shape, Stage, StateRight, Untouched, Listed
  <1>1. TypeOK'
    <2>1. FaultsLeft'
      BY FaultsCounted DEF IndInv, TypeOK
    <2>2. srv' \in [Trans -> CliStates]
      BY <1>0 DEF IndInv, TypeOK, CliStates
    <2>3. toSrv' \in [Trans -> ToSrv]
      BY <1>0 DEF IndInv, TypeOK, ToSrv
    <2> QED
      BY <2>1, <2>2, <2>3 DEF IndInv, TypeOK
  <1>2. ListsRight'
    BY <1>0
    DEF IndInv, Shape, ListsRight, TypeOK, Stage, StateRight, Untouched, Listed
  <1>3. \A u \in Trans : Stage(u)'
    BY <1>0 DEF IndInv, Shape, TypeOK, Stage, StateRight, Untouched, Listed
  <1>4. \A u \in Trans : StateRight(u)'
    BY <1>0 DEF IndInv, Shape, TypeOK, Stage, StateRight, Untouched, Listed
  <1>5. \A m \in Node : Trying(m)' /\ Kept(m)'
    BY <1>0 DEF IndInv, Shape, TypeOK, StateRight, Trying, Kept, Untouched, Listed
  <1>6. Counts'
    BY <1>0 DEF IndInv, Shape, TypeOK, Kept, Counts, Without
  <1> QED
    BY <1>1, <1>2, <1>3, <1>4, <1>5, <1>6 DEF IndInv, Shape

(* on_cm_disconnected and on_cm_error of the server: one connection less. *)
LEMMA LostServerInv ==
  ASSUME IndInv, NEW t \in Trans,
         NEW e, NEW s,
         <<e, s>> \in {<<"DISCONNECTED", "DISCONNECTED">>, <<"CONNECT_ERROR", "ERROR">>},
         OnLostServer(t, e, s)
  PROVE  IndInv'
  <1> USE DEF OnLostServer, Served, Taken, Answers, main, Works, Fails
  <1>0. Listed(t) /\ cli[t].to \in Node
    BY DEF IndInv, Shape, Stage, Untouched, Listed
  <1>1. TypeOK'
    <2>1. FaultsLeft'
      BY FaultsCounted DEF IndInv, TypeOK
    <2>2. clientList' \in [Node -> SUBSET Trans]
      BY <1>0 DEF IndInv, TypeOK
    <2>3. curConnections' \in [Node -> Int]
      BY <1>0 DEF IndInv, TypeOK
    <2>4. srv' \in [Trans -> CliStates]
      BY <1>0 DEF IndInv, TypeOK, CliStates
    <2>5. toSrv' \in [Trans -> ToSrv]
      BY <1>0 DEF IndInv, TypeOK, ToSrv
    <2> QED
      BY <2>1, <2>2, <2>3, <2>4, <2>5 DEF IndInv, TypeOK
  <1>2. ListsRight'
    BY <1>0
    DEF IndInv, Shape, ListsRight, TypeOK, Stage, StateRight, Untouched, Listed
  <1>3. \A u \in Trans : Stage(u)'
    BY <1>0 DEF IndInv, Shape, TypeOK, Stage, StateRight, Untouched, Listed
  <1>4. \A u \in Trans : StateRight(u)'
    BY <1>0 DEF IndInv, Shape, TypeOK, Stage, StateRight, Untouched, Listed
  <1>5. \A m \in Node : Trying(m)' /\ Kept(m)'
    BY <1>0 DEF IndInv, Shape, TypeOK, StateRight, Trying, Kept, Untouched, Listed
  <1>6. Counts'
    <2>1. Cardinality(clientList[cli[t].to] \ {t}) = Cardinality(clientList[cli[t].to]) - 1
      BY <1>0, ListsFinite, FS_RemoveElement DEF IndInv, Listed
    <2> QED
      BY <1>0, <2>1 DEF IndInv, TypeOK, Counts, Without, Listed
  <1> QED
    BY <1>1, <1>2, <1>3, <1>4, <1>5, <1>6 DEF IndInv, Shape

(* Nobody listens. *)
LEMMA RejectInv ==
  ASSUME IndInv, NEW t \in Trans, Reject(t)
  PROVE  IndInv'
  <1> USE DEF Reject, server, Served, Taken, Answers, main, Works, Fails
  <1>0. cli[t].to \in Node
    BY DEF IndInv, Shape, Stage, StateRight, Untouched, Listed
  <1>1. TypeOK'
    <2>1. FaultsLeft'
      BY FaultsCounted DEF IndInv, TypeOK
    <2>2. toCli' \in [Trans -> ToCli]
      BY <1>0 DEF IndInv, TypeOK, ToCli
    <2>3. toSrv' \in [Trans -> ToSrv]
      BY <1>0 DEF IndInv, TypeOK, ToSrv
    <2> QED
      BY <2>1, <2>2, <2>3 DEF IndInv, TypeOK
  <1>2. ListsRight'
    BY <1>0
    DEF IndInv, Shape, ListsRight, TypeOK, Stage, StateRight, Untouched, Listed
  <1>3. \A u \in Trans : Stage(u)'
    BY <1>0 DEF IndInv, Shape, TypeOK, Stage, StateRight, Untouched, Listed
  <1>4. \A u \in Trans : StateRight(u)'
    BY <1>0 DEF IndInv, Shape, TypeOK, Stage, StateRight, Untouched, Listed
  <1>5. \A m \in Node : Trying(m)' /\ Kept(m)'
    BY <1>0 DEF IndInv, Shape, TypeOK, StateRight, Trying, Kept, Untouched, Listed
  <1>6. Counts'
    BY <1>0 DEF IndInv, Shape, TypeOK, Kept, Counts, Without
  <1> QED
    BY <1>1, <1>2, <1>3, <1>4, <1>5, <1>6 DEF IndInv, Shape

(* The client cannot take the answer. *)
LEMMA AnswerFailsInv ==
  ASSUME IndInv, NEW t \in Trans, AnswerFails(t)
  PROVE  IndInv'
  <1> USE DEF AnswerFails, Tells, server, Served, Taken, Answers, main, Works, Fails
  <1>0. cli[t].to \in Node
    BY DEF IndInv, Shape, Stage, StateRight, Untouched, Listed
  <1>1. TypeOK'
    <2>1. FaultsLeft'
      BY FaultsCounted DEF IndInv, TypeOK
    <2>2. toCli' \in [Trans -> ToCli]
      BY <1>0 DEF IndInv, TypeOK, ToCli
    <2>3. toSrv' \in [Trans -> ToSrv]
      BY <1>0 DEF IndInv, TypeOK, ToSrv
    <2> QED
      BY <2>1, <2>2, <2>3 DEF IndInv, TypeOK
  <1>2. ListsRight'
    BY <1>0
    DEF IndInv, Shape, ListsRight, TypeOK, Stage, StateRight, Untouched, Listed
  <1>3. \A u \in Trans : Stage(u)'
    BY <1>0 DEF IndInv, Shape, TypeOK, Stage, StateRight, Untouched, Listed
  <1>4. \A u \in Trans : StateRight(u)'
    BY <1>0 DEF IndInv, Shape, TypeOK, Stage, StateRight, Untouched, Listed
  <1>5. \A m \in Node : Trying(m)' /\ Kept(m)'
    BY <1>0 DEF IndInv, Shape, TypeOK, StateRight, Trying, Kept, Untouched, Listed
  <1>6. Counts'
    BY <1>0 DEF IndInv, Shape, TypeOK, Kept, Counts, Without
  <1> QED
    BY <1>1, <1>2, <1>3, <1>4, <1>5, <1>6 DEF IndInv, Shape

(* A connection breaks. *)
LEMMA BreakInv ==
  ASSUME IndInv, NEW t \in Trans, Break(t)
  PROVE  IndInv'
  <1> USE DEF Break, Tells, server, Served, Taken, Answers, main, Works, Fails
  <1>0. cli[t].to \in Node
    BY DEF IndInv, Shape, Stage, StateRight, Untouched, Listed
  <1>1. TypeOK'
    <2>1. FaultsLeft'
      BY FaultsCounted DEF IndInv, TypeOK
    <2>2. toCli' \in [Trans -> ToCli]
      BY <1>0 DEF IndInv, TypeOK, ToCli
    <2>3. toSrv' \in [Trans -> ToSrv]
      BY <1>0 DEF IndInv, TypeOK, ToSrv
    <2> QED
      BY <2>1, <2>2, <2>3 DEF IndInv, TypeOK
  <1>2. ListsRight'
    BY <1>0
    DEF IndInv, Shape, ListsRight, TypeOK, Stage, StateRight, Untouched, Listed
  <1>3. \A u \in Trans : Stage(u)'
    BY <1>0 DEF IndInv, Shape, TypeOK, Stage, StateRight, Untouched, Listed
  <1>4. \A u \in Trans : StateRight(u)'
    BY <1>0 DEF IndInv, Shape, TypeOK, Stage, StateRight, Untouched, Listed
  <1>5. \A m \in Node : Trying(m)' /\ Kept(m)'
    BY <1>0 DEF IndInv, Shape, TypeOK, StateRight, Trying, Kept, Untouched, Listed
  <1>6. Counts'
    BY <1>0 DEF IndInv, Shape, TypeOK, Kept, Counts, Without
  <1> QED
    BY <1>1, <1>2, <1>3, <1>4, <1>5, <1>6 DEF IndInv, Shape

----------------------------------------------------------------------------
(* The invariant holds at first, and every step keeps it. *)
LEMMA InitInv == Init => IndInv
  <1> SUFFICES ASSUME Init PROVE IndInv
    OBVIOUS
  <1> USE DEF Init, Unused
  <1>1. TypeOK
    <2>1. FaultsLeft
      BY ConnectionAssumption DEF FaultsLeft
    <2>2. next \in [Node -> 1 .. Done]
      BY ConnectionAssumption DEF FirstTarget, Node, Done
    <2>3. cli \in [Trans -> [state : CliStates, to : Node \cup {Done}, isServer : BOOLEAN]]
      BY DEF CliStates
    <2> QED
      BY <2>1, <2>2, <2>3 DEF TypeOK, CliStates, ToCli, ToSrv
  <1>2. Done \notin Node
    BY ConnectionAssumption DEF Done, Node
  <1>3. Shape
    BY <1>2
    DEF Shape, ListsRight, Stage, StateRight, Trying, Kept, Untouched, Listed
  <1>4. Counts
    BY FS_EmptySet DEF Counts
  <1> QED
    BY <1>1, <1>3, <1>4 DEF IndInv

LEMMA NextInv == IndInv /\ [Next]_vars => IndInv'
  <1> SUFFICES ASSUME IndInv, [Next]_vars PROVE IndInv'
    OBVIOUS
  <1>1. ASSUME NEW n \in Node, Main(n) PROVE IndInv'
    BY <1>1, ServerInitInv, CreateInv, CreateFailsInv, ConnectInv,
           StoreConnectingInv,
       GiveUpInv, FreeRejectedInv, LeaveLoopInv, KeepTransInv DEF Main
  <1>2. ASSUME NEW n \in Node, ClientEpoll(n) PROVE IndInv'
    BY <1>2, EnterHandlerInv, LeaveHandlerInv, AddrResolvedInv, RouteResolvedInv,
       EstablishedInv, RejectedInv, DisconnectedInv, ErrorInv, OtherInv DEF ClientEpoll
  <1>3. ASSUME NEW t \in Trans, ServerEpoll(t) PROVE IndInv'
    BY <1>3, DropRequestInv, ConnectRequestInv, EstablishedServerInv,
           RejectedServerInv,
       LostServerInv DEF ServerEpoll
  <1>4. CASE UNCHANGED vars
    BY <1>4
    DEF vars, IndInv, TypeOK, FaultsLeft, Shape, Counts, Without, ListsRight, Stage,
                StateRight, Trying, Kept, Untouched, Listed
  <1> QED
    BY <1>1, <1>2, <1>3, <1>4, RejectInv, AnswerFailsInv, BreakInv DEF Next

(* All state of the connecting nodes has its type, whatever fails: in      *)
(* particular next never runs past the last node.                          *)
THEOREM ConnectionTypes == Spec => []TypeOK
  <1>1. IndInv => TypeOK
    BY DEF IndInv
  <1> QED
    BY <1>1, InitInv, NextInv, PTL DEF Spec

(* cur_connections is the length of client_list, for any number of nodes   *)
(* and of faults other than a connection lost or failing at one end before *)
(* dhmp_connect has returned it ("drop", "client_error", "server_error").  *)
THEOREM ConnectionsCounted == Spec => []CountIsOfList
  <1>1. IndInv => CountIsOfList
    BY DEF IndInv, Counts, CountIsOfList
  <1> QED
    BY <1>1, InitInv, NextInv, PTL DEF Spec

(* A kept transport that is CONNECTED and quiet is connected at the other  *)
(* end and listed there, for any number of nodes and whatever fails.       *)
THEOREM KeptTransportsServed == Spec => []KeptIsServed
  <1>1. IndInv => KeptIsServed
    <2> SUFFICES ASSUME IndInv, NEW n \in Node, NEW t \in connectTrans[n],
                        cli[t].state = "CONNECTED", toCli[t] = "NONE", toSrv[t] = "NONE"
                 PROVE  srv[t] = "CONNECTED" /\ t \in clientList[cli[t].to]
      BY DEF KeptIsServed
    <2>1. t \in Trans
      BY DEF IndInv, TypeOK
    <2> QED
      BY <2>1 DEF IndInv, Shape, StateRight, Listed
  <1> QED
    BY <1>1, InitInv, NextInv, PTL DEF Spec

----------------------------------------------------------------------------
(* As long as handshakes take less than a second, a connection in the      *)
(* making is always the one the main thread is waiting for, whatever       *)
(* state the main thread's last assignment leaves it in.                   *)

(* It may still end up connected. *)
Going(t) ==
  \/ toCli[t] \in {"ADDR_RESOLVED", "ROUTE_RESOLVED", "ESTABLISHED"}
  \/ toSrv[t] \in {"CONNECT_REQUEST", "ESTABLISHED"}

(* It is waited for, or kept, or nobody will read its event any more. *)
InHand(t) ==
  \/ t = conn[t[1]] /\ mpc[t[1]] \in {"store", "sleep", "return", "crash"}
  \/ t \in connectTrans[t[1]]
  \/ t[1] \in stopped /\ toCli[t] # "NONE" /\ Quiet(t) /\ srv[t] # "CONNECTED"

(* Both ends have got past connecting. *)
Final(t) == srv[t] \in {"CONNECTED", "DISCONNECTED", "ERROR"}

(* An entry of a client_list that is connected or may still become so. *)
Live(t) ==
  /\ Listed(t)
  /\ \/ srv[t] = "CONNECTED"
     \/ /\ srv[t] = "CONNECTING"
        /\ toSrv[t] = "ESTABLISHED" \/ (toSrv[t] = "NONE" /\ t[1] \notin stopped)

Waits(n) ==
  /\ n \in stopped => loop[n] = None
  /\ mpc[n] = "return" => Final(conn[n])
  /\ \A t \in connectTrans[n] : Final(t)

Single == \A t, u \in Trans :
  t[1] = u[1] /\ cli[t].to = cli[u].to /\ Live(t) /\ Live(u) => t = u

Calm ==
  Without({"late"}) =>
    /\ \A n \in Node : Waits(n)
    /\ \A t \in Trans : Going(t) => InHand(t)
    /\ Single

(* The faults that may happen never change. *)
LEMMA SameFaults ==
  ASSUME faults' = faults
  PROVE  Without({"late"})' <=> Without({"late"})
  BY DEF Without

(* A server's step about a transport that nobody has yet been given. *)
LEMMA OthersWait ==
  ASSUME IndInv, \A m \in Node : Waits(m), NEW t \in Trans, ~Final(t),
         \A u \in Trans : u # t => srv'[u] = srv[u],
         UNCHANGED <<mpc, conn, connectTrans, loop, stopped>>
  PROVE  \A m \in Node : Waits(m)'
  <1> SUFFICES ASSUME NEW m \in Node PROVE Waits(m)'
    OBVIOUS
  <1>1. /\ mpc[m] = "return" => conn[m] \in Trans \ {t}
        /\ connectTrans[m] \subseteq Trans \ {t}
    BY DEF IndInv, Shape, Trying, TypeOK, Waits
  <1> QED
    BY <1>1 DEF Waits, Final

(* Calm is kept by every action. *)
LEMMA ServerInitCalm ==
  ASSUME IndInv, IndInv', Calm, NEW n \in Node, ServerInit(n)
  PROVE  Calm'
  <1> USE DEF ServerInit, server, Works
  <1> SUFFICES ASSUME Without({"late"})
               PROVE  /\ \A m \in Node : Waits(m)'
                      /\ \A u \in Trans : Going(u)' => InHand(u)'
                      /\ Single'
    BY SameFaults DEF Calm
  <1>1. \A m \in Node : Waits(m)'
    BY DEF IndInv, Shape, TypeOK, Calm, Waits, Trying, Kept, Final, Without, Stage,
           StateRight, Untouched, Listed
  <1>2. \A u \in Trans : Going(u)' => InHand(u)'
    BY DEF IndInv, Shape, TypeOK, Calm, Going, InHand, Waits, Trying, Quiet,
           Without, Stage, StateRight, Untouched, Listed
  <1>3. Single'
    BY DEF IndInv, Shape, TypeOK, Calm, Single, Live, Waits, Trying, Stage,
           StateRight, Untouched, Listed
  <1> QED
    BY <1>1, <1>2, <1>3

LEMMA CreateCalm ==
  ASSUME IndInv, IndInv', Calm, NEW n \in Node, Create(n)
  PROVE  Calm'
  <1> SUFFICES ASSUME Without({"late"})
               PROVE  /\ \A m \in Node : Waits(m)'
                      /\ \A u \in Trans : Going(u)' => InHand(u)'
                      /\ Single'
    BY SameFaults DEF Calm, Create, Works
  <1>1. PICK k \in FreeTrans(n) :
          /\ conn' = [conn EXCEPT ![n] = <<n, k>>]
          /\ cli' = [cli EXCEPT ![<<n, k>>] =
                       [state |-> "INIT", to |-> next[n], isServer |-> TRUE]]
          /\ srv' = [srv EXCEPT ![<<n, k>>] = "NONE"]
          /\ toCli' = [toCli EXCEPT ![<<n, k>>] = "NONE"]
    BY DEF Create
  <1> DEFINE t == <<n, k>>
  <1>2. t \in Trans /\ t[1] = n /\ Forgotten(n, t)
    BY DEF Trans, FreeTrans
  <1>3. loop[n] # t /\ t \notin connectTrans[n] /\ toSrv[t] = "NONE" /\ ~Listed(t)
    BY <1>2 DEF Forgotten, Listed, IndInv, Shape, Kept, StateRight, Untouched
  <1>4. \A p \in Node : t \notin clientList[p]
    BY <1>3 DEF IndInv, Shape, ListsRight, Listed
  <1> HIDE DEF t
  <1>5. /\ mpc[n] = "client" /\ mpc' = [mpc EXCEPT ![n] = "connect"]
        /\ conn' = [conn EXCEPT ![n] = t]
        /\ UNCHANGED <<next, connectTrans, loop, stopped, clientList, toSrv>>
    BY <1>1 DEF Create, t
  <1>6. /\ cli'[t].state = "INIT" /\ srv'[t] = "NONE" /\ toCli'[t] = "NONE"
        /\ \A u \in Trans : u # t =>
             cli'[u] = cli[u] /\ srv'[u] = srv[u] /\ toCli'[u] = toCli[u]
    BY <1>1, <1>2 DEF t, IndInv, TypeOK
  <1>7. Untouched(t)' /\ \A u \in Trans : u # t => Listed(u)' = Listed(u)
    BY <1>3, <1>4, <1>5, <1>6 DEF Untouched, Listed
  <1>8. /\ mpc'[n] = "connect" /\ conn'[n] = t
        /\ \A m \in Node : m # n => mpc'[m] = mpc[m] /\ conn'[m] = conn[m]
    BY <1>5 DEF IndInv, TypeOK
  <1>9. ASSUME NEW m \in Node PROVE Waits(m)'
    <2>1. \A u \in connectTrans[m] : u \in Trans /\ u # t
      BY <1>2, <1>3 DEF IndInv, TypeOK, Shape, Kept
    <2>2. Waits(m) /\ Trying(m)
      BY DEF Calm, IndInv, Shape
    <2>3. \A u \in connectTrans'[m] : Final(u)'
      BY <1>5, <1>6, <2>1, <2>2 DEF Waits, Final
    <2>4. CASE m = n
      BY <1>3, <1>5, <1>6, <1>7, <1>8, <2>2, <2>3, <2>4 DEF Waits
    <2>5. CASE m # n
      <3>1. mpc[m] \in {"connect", "store", "return"} => conn[m] \in Trans \ {t}
        BY <1>2, <2>2, <2>5 DEF Trying
      <3> QED
        BY <1>5, <1>6, <1>7, <1>8, <2>2, <2>3, <2>5, <3>1 DEF Waits, Untouched, Final
    <2> QED
      BY <2>4, <2>5
  <1>10. ASSUME NEW u \in Trans, Going(u)' PROVE InHand(u)'
    <2>1. u # t
      BY <1>3, <1>5, <1>6, <1>10 DEF Going
    <2>2. Going(u)
      BY <1>5, <1>6, <1>10, <2>1 DEF Going
    <2>3. InHand(u) /\ u[1] \in Node
      BY <2>2 DEF Calm, Trans
    <2> QED
      BY <1>5, <1>6, <1>8, <2>1, <2>3 DEF InHand, Quiet
  <1>11. Single'
    <2>1. ~Live(t)'
      BY <1>7 DEF Live, Untouched
    <2>2. \A u \in Trans : u # t => Live(u)' = Live(u)
      BY <1>5, <1>6, <1>7 DEF Live
    <2> QED
      BY <1>6, <2>1, <2>2 DEF Calm, Single
  <1> QED
    BY <1>9, <1>10, <1>11

LEMMA CreateFailsCalm ==
  ASSUME IndInv, IndInv', Calm, NEW n \in Node, CreateFails(n)
  PROVE  Calm'
  <1> USE DEF CreateFails, server, Fails
  <1> SUFFICES ASSUME Without({"late"})
               PROVE  /\ \A m \in Node : Waits(m)'
                      /\ \A u \in Trans : Going(u)' => InHand(u)'
                      /\ Single'
    BY SameFaults DEF Calm
  <1>1. \A m \in Node : Waits(m)'
    BY DEF IndInv, Shape, TypeOK, Calm, Waits, Trying, Kept, Final, Without, Stage,
           StateRight, Untouched, Listed
  <1>2. \A u \in Trans : Going(u)' => InHand(u)'
    <2> SUFFICES ASSUME NEW u \in Trans, Going(u)' PROVE InHand(u)'
      OBVIOUS
    <2>1. u[1] \in Node
      BY DEF Trans
    <2>2. Going(u)
      BY DEF Going, IndInv, TypeOK
    <2>3. InHand(u)
      BY <2>2 DEF Calm
    <2>4. mpc'[u[1]] \in {mpc[u[1]], "crash"}
      BY <2>1 DEF IndInv, TypeOK
    <2> QED
      BY <2>2, <2>3, <2>4 DEF InHand, Quiet, Going
  <1>3. Single'
    BY DEF IndInv, Shape, TypeOK, Calm, Single, Live, Waits, Trying, Stage,
           StateRight, Untouched, Listed
  <1> QED
    BY <1>1, <1>2, <1>3

LEMMA ConnectCalm ==
  ASSUME IndInv, IndInv', Calm, NEW n \in Node, Connect(n)
  PROVE  Calm'
  <1> USE DEF Connect, server, Works, Fails
  <1> SUFFICES ASSUME Without({"late"})
               PROVE  /\ \A m \in Node : Waits(m)'
                      /\ \A u \in Trans : Going(u)' => InHand(u)'
                      /\ Single'
    BY SameFaults DEF Calm
  <1>1. \A m \in Node : Waits(m)'
    BY DEF IndInv, Shape, TypeOK, Calm, Waits, Trying, Kept, Final, Without, Stage,
           StateRight, Untouched, Listed
  <1>2. \A u \in Trans : Going(u)' => InHand(u)'
    <2> SUFFICES ASSUME NEW u \in Trans, Going(u)' PROVE InHand(u)'
      OBVIOUS
    <2>1. conn[n] \in Trans /\ conn[n][1] = n
      BY DEF IndInv, Shape, Trying
    <2>2. CASE u = conn[n]
      <3>1. mpc'[n] \in {"store", "sleep"}
        BY DEF IndInv, TypeOK
      <3> QED
        BY <2>1, <2>2, <3>1 DEF InHand
    <2>3. CASE u # conn[n]
      <3>1. toCli'[u] = toCli[u] /\ u[1] \in Node
        BY <2>1, <2>3 DEF IndInv, TypeOK, Trans
      <3>2. InHand(u)
        BY <3>1 DEF Going, Calm
      <3>3. u = conn[u[1]] /\ mpc[u[1]] \in {"store", "sleep", "return", "crash"}
              => mpc'[u[1]] = mpc[u[1]]
        BY <2>3, <3>1 DEF IndInv, TypeOK
      <3> QED
        BY <3>1, <3>2, <3>3 DEF InHand, Quiet
    <2> QED
      BY <2>2, <2>3
  <1>3. Single'
    BY DEF IndInv, Shape, TypeOK, Calm, Single, Live, Waits, Trying, Stage,
           StateRight, Untouched, Listed
  <1> QED
    BY <1>1, <1>2, <1>3

LEMMA StoreConnectingCalm ==
  ASSUME IndInv, IndInv', Calm, NEW n \in Node, StoreConnecting(n)
  PROVE  Calm'
  <1> USE DEF StoreConnecting, server, Works
  <1> SUFFICES ASSUME Without({"late"})
               PROVE  /\ \A m \in Node : Waits(m)'
                      /\ \A u \in Trans : Going(u)' => InHand(u)'
                      /\ Single'
    BY SameFaults DEF Calm
  <1>1. \A m \in Node : Waits(m)'
    BY DEF IndInv, Shape, TypeOK, Calm, Waits, Trying, Kept, Final, Without, Stage,
           StateRight, Untouched, Listed
  <1>2. \A u \in Trans : Going(u)' => InHand(u)'
    BY DEF IndInv, Shape, TypeOK, Calm, Going, InHand, Waits, Trying, Quiet,
           Without, Stage, StateRight, Untouched, Listed
  <1>3. Single'
    BY DEF IndInv, Shape, TypeOK, Calm, Single, Live, Waits, Trying, Stage,
           StateRight, Untouched, Listed
  <1> QED
    BY <1>1, <1>2, <1>3

LEMMA GiveUpCalm ==
  ASSUME IndInv, IndInv', Calm, NEW n \in Node, GiveUp(n)
  PROVE  Calm'
  <1> USE DEF GiveUp, TriesAgain, SleepOver, Quiet, server, Works, Fails
  <1> SUFFICES ASSUME Without({"late"})
               PROVE  /\ \A m \in Node : Waits(m)'
                      /\ \A u \in Trans : Going(u)' => InHand(u)'
                      /\ Single'
    BY SameFaults DEF Calm
  <1>1. \A m \in Node : Waits(m)'
    BY DEF IndInv, Shape, TypeOK, Calm, Waits, Trying, Kept, Final, Without, Stage,
           StateRight, Untouched, Listed
  <1>2. \A u \in Trans : Going(u)' => InHand(u)'
    BY DEF IndInv, Shape, TypeOK, Calm, Going, InHand, Waits, Trying, Quiet,
           Without, Stage, StateRight, Untouched, Listed
  <1>3. Single'
    BY DEF IndInv, Shape, TypeOK, Calm, Single, Live, Waits, Trying, Stage,
           StateRight, Untouched, Listed
  <1> QED
    BY <1>1, <1>2, <1>3

LEMMA FreeRejectedCalm ==
  ASSUME IndInv, IndInv', Calm, NEW n \in Node, FreeRejected(n)
  PROVE  Calm'
  <1> USE DEF FreeRejected, Unused, SleepOver, Quiet, server, Works, Fails
  <1> SUFFICES ASSUME Without({"late"})
               PROVE  /\ \A m \in Node : Waits(m)'
                      /\ \A u \in Trans : Going(u)' => InHand(u)'
                      /\ Single'
    BY SameFaults DEF Calm
  <1>1. \A m \in Node : Waits(m)'
    BY DEF IndInv, Shape, TypeOK, Calm, Waits, Trying, Kept, Final, Without, Stage,
           StateRight, Untouched, Listed
  <1>2. \A u \in Trans : Going(u)' => InHand(u)'
    BY DEF IndInv, Shape, TypeOK, Calm, Going, InHand, Waits, Trying, Quiet,
           Without, Stage, StateRight, Untouched, Listed
  <1>3. Single'
    BY DEF IndInv, Shape, TypeOK, Calm, Single, Live, Waits, Trying, Stage,
           StateRight, Untouched, Listed
  <1> QED
    BY <1>1, <1>2, <1>3

LEMMA LeaveLoopCalm ==
  ASSUME IndInv, IndInv', Calm, NEW n \in Node, LeaveLoop(n)
  PROVE  Calm'
  <1> USE DEF LeaveLoop, SleepOver, Quiet, server, Works, Fails
  <1> SUFFICES ASSUME Without({"late"})
               PROVE  /\ \A m \in Node : Waits(m)'
                      /\ \A u \in Trans : Going(u)' => InHand(u)'
                      /\ Single'
    BY SameFaults DEF Calm
  <1>1. \A m \in Node : Waits(m)'
    <2>1. conn[n] \in Trans
      BY DEF IndInv, Shape, Trying
    <2>2. Quiet(conn[n])
      BY DEF Without
    <2>3. Final(conn[n])
      BY <2>1, <2>2 DEF IndInv, Shape, Stage, StateRight, Final, Untouched
    <2>4. mpc'[n] = "return" /\ \A m \in Node : m # n => mpc'[m] = mpc[m]
      BY DEF IndInv, TypeOK
    <2> QED
      BY <2>3, <2>4 DEF Calm, Waits, Untouched, Listed, Final
  <1>2. \A u \in Trans : Going(u)' => InHand(u)'
    BY DEF IndInv, Shape, TypeOK, Calm, Going, InHand, Waits, Trying, Quiet,
           Without, Stage, StateRight, Untouched, Listed
  <1>3. Single'
    BY DEF IndInv, Shape, TypeOK, Calm, Single, Live, Waits, Trying, Stage,
           StateRight, Untouched, Listed
  <1> QED
    BY <1>1, <1>2, <1>3

LEMMA KeepTransCalm ==
  ASSUME IndInv, IndInv', Calm, NEW n \in Node, KeepTrans(n)
  PROVE  Calm'
  <1> SUFFICES ASSUME Without({"late"})
               PROVE  /\ \A m \in Node : Waits(m)'
                      /\ \A u \in Trans : Going(u)' => InHand(u)'
                      /\ Single'
    BY SameFaults DEF Calm, KeepTrans, Works
  <1>1. /\ mpc[n] = "return" /\ conn[n] \in Trans
        /\ UNCHANGED <<conn, loop, stopped, srv, clientList, toCli, toSrv>>
    BY DEF KeepTrans, server, IndInv, Shape, Trying
  <1>2. \A u \in Trans : cli'[u].state = cli[u].state /\ cli'[u].to = cli[u].to
    BY <1>1 DEF KeepTrans, IndInv, TypeOK
  <1>3. /\ mpc'[n] = "client" /\ connectTrans'[n] = connectTrans[n] \cup {conn[n]}
        /\ \A m \in Node :
             m # n => mpc'[m] = mpc[m] /\ connectTrans'[m] = connectTrans[m]
    BY DEF KeepTrans, IndInv, TypeOK
  <1>4. \A u \in Trans : Listed(u)' = Listed(u)
    BY <1>1, <1>2 DEF Listed
  <1>5. ASSUME NEW m \in Node PROVE Waits(m)'
    <2>1. Waits(m) /\ Trying(m)
      BY DEF Calm, IndInv, Shape
    <2>2. CASE m = n
      BY <1>1, <1>3, <2>1, <2>2 DEF Waits, Final
    <2>3. CASE m # n
      BY <1>1, <1>2, <1>3, <1>4, <2>1, <2>3 DEF Waits, Trying, Untouched, Final
    <2> QED
      BY <2>2, <2>3
  <1>6. ASSUME NEW u \in Trans, Going(u)' PROVE InHand(u)'
    <2>1. InHand(u) /\ u[1] \in Node
      BY <1>1, <1>6 DEF Calm, Going, Trans
    <2> QED
      BY <1>1, <1>3, <2>1 DEF InHand, Quiet
  <1>7. Single'
    BY <1>1, <1>2, <1>4 DEF Calm, Single, Live
  <1> QED
    BY <1>5, <1>6, <1>7

LEMMA EnterHandlerCalm ==
  ASSUME IndInv, IndInv', Calm, NEW n \in Node, EnterHandler(n)
  PROVE  Calm'
  <1> USE DEF EnterHandler, main, server, Works, Fails
  <1> SUFFICES ASSUME Without({"late"})
               PROVE  /\ \A m \in Node : Waits(m)'
                      /\ \A u \in Trans : Going(u)' => InHand(u)'
                      /\ Single'
    BY SameFaults DEF Calm
  <1>1. \A m \in Node : Waits(m)'
    <2>1. PICK k \in 1 .. MaxTrans :
            loop' = [loop EXCEPT ![n] = <<n, k>>]
      OBVIOUS
    <2>2. n \notin stopped /\ \A m \in Node : m # n => loop'[m] = loop[m]
      BY <2>1 DEF IndInv, TypeOK
    <2> QED
      BY <2>2 DEF Calm, Waits, Final
  <1>2. \A u \in Trans : Going(u)' => InHand(u)'
    BY DEF IndInv, Shape, TypeOK, Calm, Going, InHand, Waits, Trying, Quiet,
           Without, Stage, StateRight, Untouched, Listed
  <1>3. Single'
    BY DEF IndInv, Shape, TypeOK, Calm, Single, Live, Waits, Trying, Stage,
           StateRight, Untouched, Listed
  <1> QED
    BY <1>1, <1>2, <1>3

LEMMA LeaveHandlerCalm ==
  ASSUME IndInv, IndInv', Calm, NEW n \in Node, LeaveHandler(n)
  PROVE  Calm'
  <1> USE DEF LeaveHandler, main, server, Works
  <1> SUFFICES ASSUME Without({"late"})
               PROVE  /\ \A m \in Node : Waits(m)'
                      /\ \A u \in Trans : Going(u)' => InHand(u)'
                      /\ Single'
    BY SameFaults DEF Calm
  <1>1. \A m \in Node : Waits(m)'
    <2>1. \A m \in Node : loop'[m] = loop[m] \/ loop'[m] = None
      BY DEF IndInv, TypeOK
    <2> QED
      BY <2>1 DEF Calm, Waits, Final
  <1>2. \A u \in Trans : Going(u)' => InHand(u)'
    BY DEF IndInv, Shape, TypeOK, Calm, Going, InHand, Waits, Trying, Quiet,
           Without, Stage, StateRight, Untouched, Listed
  <1>3. Single'
    BY DEF IndInv, Shape, TypeOK, Calm, Single, Live, Waits, Trying, Stage,
           StateRight, Untouched, Listed
  <1> QED
    BY <1>1, <1>2, <1>3

LEMMA AddrResolvedCalm ==
  ASSUME IndInv, IndInv', Calm, NEW n \in Node, OnAddrResolved(n)
  PROVE  Calm'
  <1> USE DEF OnAddrResolved, Gets, Acked, Tells, SetState, ReturnsZero,
              ReturnsError, main, server, Works, Fails
  <1> SUFFICES ASSUME Without({"late"})
               PROVE  /\ \A m \in Node : Waits(m)'
                      /\ \A u \in Trans : Going(u)' => InHand(u)'
                      /\ Single'
    BY SameFaults DEF Calm
  <1>0. loop[n] \in Trans /\ loop[n][1] = n
    BY DEF IndInv, Shape, Kept
  <1>1. \A m \in Node : Waits(m)'
    <2>1. \A m \in Node : loop'[m] = loop[m] \/ loop'[m] = None
      BY DEF IndInv, TypeOK
    <2> QED
      BY <2>1 DEF Calm, Waits, Final
  <1>2. \A u \in Trans : Going(u)' => InHand(u)'
    BY <1>0
    DEF IndInv, Shape, TypeOK, Calm, Going, InHand, Waits, Trying, Quiet,
        Without, Stage, StateRight, Untouched, Listed
  <1>3. Single'
    BY <1>0
    DEF IndInv, Shape, TypeOK, Calm, Single, Live, Waits, Trying, Stage, StateRight,
        Untouched, Listed
  <1> QED
    BY <1>1, <1>2, <1>3

LEMMA RouteResolvedCalm ==
  ASSUME IndInv, IndInv', Calm, NEW n \in Node, OnRouteResolved(n)
  PROVE  Calm'
  <1> USE DEF OnRouteResolved, Gets, Acked, Tells, SetState, ReturnsZero,
              ReturnsError, main, server, Works, Fails
  <1> SUFFICES ASSUME Without({"late"})
               PROVE  /\ \A m \in Node : Waits(m)'
                      /\ \A u \in Trans : Going(u)' => InHand(u)'
                      /\ Single'
    BY SameFaults DEF Calm
  <1>0. loop[n] \in Trans /\ loop[n][1] = n
    BY DEF IndInv, Shape, Kept
  <1>1. \A m \in Node : Waits(m)'
    <2>1. \A m \in Node : \/ loop'[m] = loop[m] /\ (m \in stopped' => m \in stopped)
                          \/ loop'[m] = None
      BY DEF IndInv, TypeOK
    <2> QED
      BY <2>1 DEF Calm, Waits, Final
  <1>2. \A u \in Trans : Going(u)' => InHand(u)'
    BY <1>0
    DEF IndInv, Shape, TypeOK, Calm, Going, InHand, Waits, Trying, Quiet,
        Without, Stage, StateRight, Untouched, Listed
  <1>3. Single'
    BY <1>0
    DEF IndInv, Shape, TypeOK, Calm, Single, Live, Waits, Trying, Stage, StateRight,
        Untouched, Listed
  <1> QED
    BY <1>1, <1>2, <1>3

LEMMA EstablishedCalm ==
  ASSUME IndInv, IndInv', Calm, NEW n \in Node, OnEstablished(n)
  PROVE  Calm'
  <1> USE DEF OnEstablished, Gets, Acked, Tells, SetState, ReturnsZero,
              ReturnsError, main, server, Works, Fails
  <1> SUFFICES ASSUME Without({"late"})
               PROVE  /\ \A m \in Node : Waits(m)'
                      /\ \A u \in Trans : Going(u)' => InHand(u)'
                      /\ Single'
    BY SameFaults DEF Calm
  <1>0. loop[n] \in Trans /\ loop[n][1] = n
    BY DEF IndInv, Shape, Kept
  <1>1. \A m \in Node : Waits(m)'
    BY <1>0
    DEF IndInv, Shape, TypeOK, Calm, Waits, Trying, Kept, Final, Without, Stage,
        StateRight, Untouched, Listed
  <1>2. \A u \in Trans : Going(u)' => InHand(u)'
    BY <1>0
    DEF IndInv, Shape, TypeOK, Calm, Going, InHand, Waits, Trying, Quiet,
        Without, Stage, StateRight, Untouched, Listed
  <1>3. Single'
    BY <1>0
    DEF IndInv, Shape, TypeOK, Calm, Single, Live, Waits, Trying, Stage, StateRight,
        Untouched, Listed
  <1> QED
    BY <1>1, <1>2, <1>3

LEMMA RejectedCalm ==
  ASSUME IndInv, IndInv', Calm, NEW n \in Node, OnRejected(n)
  PROVE  Calm'
  <1> USE DEF OnRejected, Gets, Acked, Tells, SetState, ReturnsZero, ReturnsError,
              main, server, Works, Fails
  <1> SUFFICES ASSUME Without({"late"})
               PROVE  /\ \A m \in Node : Waits(m)'
                      /\ \A u \in Trans : Going(u)' => InHand(u)'
                      /\ Single'
    BY SameFaults DEF Calm
  <1>0. loop[n] \in Trans /\ loop[n][1] = n
    BY DEF IndInv, Shape, Kept
  <1>1. \A m \in Node : Waits(m)'
    BY <1>0
    DEF IndInv, Shape, TypeOK, Calm, Waits, Trying, Kept, Final, Without, Stage,
        StateRight, Untouched, Listed
  <1>2. \A u \in Trans : Going(u)' => InHand(u)'
    BY <1>0
    DEF IndInv, Shape, TypeOK, Calm, Going, InHand, Waits, Trying, Quiet,
        Without, Stage, StateRight, Untouched, Listed
  <1>3. Single'
    <2>1. \A u \in Trans : cli'[u].to = cli[u].to
      BY <1>0, StateAssigned DEF IndInv, CliStates
    <2>2. \A u \in Trans : Live(u)' = Live(u)
      BY <2>1 DEF Live, Listed
    <2> QED
      BY <2>1, <2>2 DEF Calm, Single
  <1> QED
    BY <1>1, <1>2, <1>3

LEMMA DisconnectedCalm ==
  ASSUME IndInv, IndInv', Calm, NEW n \in Node, OnDisconnected(n)
  PROVE  Calm'
  <1> USE DEF OnDisconnected, Unlink, Gets, Acked, Tells, SetState, ReturnsZero,
              ReturnsError, main, server, Works, Fails
  <1> SUFFICES ASSUME Without({"late"})
               PROVE  /\ \A m \in Node : Waits(m)'
                      /\ \A u \in Trans : Going(u)' => InHand(u)'
                      /\ Single'
    BY SameFaults DEF Calm
  <1>0. loop[n] \in Trans /\ loop[n][1] = n
    BY DEF IndInv, Shape, Kept
  <1>1. \A m \in Node : Waits(m)'
    BY <1>0
    DEF IndInv, Shape, TypeOK, Calm, Waits, Trying, Kept, Final, Without, Stage,
        StateRight, Untouched, Listed
  <1>2. \A u \in Trans : Going(u)' => InHand(u)'
    <2> SUFFICES ASSUME NEW u \in Trans, Going(u)' PROVE InHand(u)'
      OBVIOUS
    <2>1. u[1] \in Node
      BY DEF Trans
    <2>2. Going(u)
      BY <1>0 DEF Going, IndInv, TypeOK
    <2>3. InHand(u)
      BY <2>2 DEF Calm
    <2>4. mpc'[u[1]] \in {mpc[u[1]], "crash"}
      BY <2>1 DEF IndInv, TypeOK
    <2> QED
      BY <1>0, <2>2, <2>3, <2>4 DEF InHand, Quiet, Going, IndInv, TypeOK
  <1>3. Single'
    <2>1. \A u \in Trans : cli'[u].to = cli[u].to
      BY <1>0, StateAssigned DEF IndInv, CliStates
    <2>2. \A u \in Trans : Live(u)' = Live(u)
      BY <2>1 DEF Live, Listed
    <2> QED
      BY <2>1, <2>2 DEF Calm, Single
  <1> QED
    BY <1>1, <1>2, <1>3

LEMMA ErrorCalm ==
  ASSUME IndInv, IndInv', Calm, NEW n \in Node, OnError(n)
  PROVE  Calm'
  <1> USE DEF OnError, Unlink, Gets, Acked, Tells, SetState, ReturnsZero,
              ReturnsError, main, server, Works, Fails
  <1> SUFFICES ASSUME Without({"late"})
               PROVE  /\ \A m \in Node : Waits(m)'
                      /\ \A u \in Trans : Going(u)' => InHand(u)'
                      /\ Single'
    BY SameFaults DEF Calm
  <1>0. loop[n] \in Trans /\ loop[n][1] = n
    BY DEF IndInv, Shape, Kept
  <1>1. \A m \in Node : Waits(m)'
    BY <1>0
    DEF IndInv, Shape, TypeOK, Calm, Waits, Trying, Kept, Final, Without, Stage,
        StateRight, Untouched, Listed
  <1>2. \A u \in Trans : Going(u)' => InHand(u)'
    <2> SUFFICES ASSUME NEW u \in Trans, Going(u)' PROVE InHand(u)'
      OBVIOUS
    <2>1. u[1] \in Node
      BY DEF Trans
    <2>2. Going(u)
      BY <1>0 DEF Going, IndInv, TypeOK
    <2>3. InHand(u)
      BY <2>2 DEF Calm
    <2>4. mpc'[u[1]] \in {mpc[u[1]], "crash"}
      BY <2>1 DEF IndInv, TypeOK
    <2> QED
      BY <1>0, <2>2, <2>3, <2>4 DEF InHand, Quiet, Going, IndInv, TypeOK
  <1>3. Single'
    <2>1. \A u \in Trans : cli'[u].to = cli[u].to
      BY <1>0, StateAssigned DEF IndInv, CliStates
    <2>2. \A u \in Trans : Live(u)' = Live(u)
      BY <2>1 DEF Live, Listed
    <2> QED
      BY <2>1, <2>2 DEF Calm, Single
  <1> QED
    BY <1>1, <1>2, <1>3

LEMMA OtherCalm ==
  ASSUME IndInv, IndInv', Calm, NEW n \in Node, OnOther(n)
  PROVE  Calm'
  <1> USE DEF OnOther, Gets, Acked, Tells, SetState, ReturnsZero, ReturnsError,
              main, server, Works, Fails
  <1> SUFFICES ASSUME Without({"late"})
               PROVE  /\ \A m \in Node : Waits(m)'
                      /\ \A u \in Trans : Going(u)' => InHand(u)'
                      /\ Single'
    BY SameFaults DEF Calm
  <1>0. loop[n] \in Trans /\ loop[n][1] = n
    BY DEF IndInv, Shape, Kept
  <1>1. \A m \in Node : Waits(m)'
    <2>1. \A m \in Node : loop'[m] = loop[m] \/ loop'[m] = None
      BY DEF IndInv, TypeOK
    <2> QED
      BY <2>1 DEF Calm, Waits, Final
  <1>2. \A u \in Trans : Going(u)' => InHand(u)'
    BY <1>0
    DEF IndInv, Shape, TypeOK, Calm, Going, InHand, Waits, Trying, Quiet,
        Without, Stage, StateRight, Untouched, Listed
  <1>3. Single'
    BY <1>0
    DEF IndInv, Shape, TypeOK, Calm, Single, Live, Waits, Trying, Stage, StateRight,
        Untouched, Listed
  <1> QED
    BY <1>1, <1>2, <1>3

LEMMA DropRequestCalm ==
  ASSUME IndInv, IndInv', Calm, NEW t \in Trans, DropRequest(t)
  PROVE  Calm'
  <1> USE DEF DropRequest, server, Served, Taken, Answers, main, Works, Fails
  <1> SUFFICES ASSUME Without({"late"})
               PROVE  /\ \A m \in Node : Waits(m)'
                      /\ \A u \in Trans : Going(u)' => InHand(u)'
                      /\ Single'
    BY SameFaults DEF Calm
  <1>1. \A m \in Node : Waits(m)'
    BY DEF IndInv, Shape, TypeOK, Calm, Waits, Trying, Kept, Final, Without, Stage,
           StateRight, Untouched, Listed
  <1>2. \A u \in Trans : Going(u)' => InHand(u)'
    BY DEF IndInv, Shape, TypeOK, Calm, Going, InHand, Waits, Trying, Quiet,
           Without, Stage, StateRight, Untouched, Listed
  <1>3. Single'
    BY DEF IndInv, Shape, TypeOK, Calm, Single, Live, Waits, Trying, Stage,
           StateRight, Untouched, Listed
  <1> QED
    BY <1>1, <1>2, <1>3

LEMMA ConnectRequestCalm ==
  ASSUME IndInv, IndInv', Calm, NEW t \in Trans, OnConnectRequest(t)
  PROVE  Calm'
  <1> USE DEF OnConnectRequest, Served, Taken, Answers, main, Works, Fails
  <1> SUFFICES ASSUME Without({"late"})
               PROVE  /\ \A m \in Node : Waits(m)'
                      /\ \A u \in Trans : Going(u)' => InHand(u)'
                      /\ Single'
    BY SameFaults DEF Calm
  <1>1. \A m \in Node : Waits(m)'
    <2>1. ~Final(t)
      BY DEF IndInv, Shape, Stage, Untouched, Final
    <2>2. \A u \in Trans : u # t => srv'[u] = srv[u]
      BY DEF IndInv, TypeOK
    <2> QED
      BY <2>1, <2>2, OthersWait DEF Calm
  <1>2. \A u \in Trans : Going(u)' => InHand(u)'
    BY DEF IndInv, Shape, TypeOK, Calm, Going, InHand, Waits, Trying, Quiet,
           Without, Stage, StateRight, Untouched, Listed
  <1>3. Single'
    <2> DEFINE p == cli[t].to
    <2>1. p \in Node /\ t[1] \in Node
      BY DEF IndInv, Shape, StateRight, Untouched, Trans
    <2>2. t = conn[t[1]]
      <3>1. InHand(t) /\ ~Final(t)
        BY DEF Calm, Going, IndInv, Shape, Stage, Untouched, Final
      <3> QED
        BY <2>1, <3>1 DEF InHand, Quiet, Calm, Waits
    <2>3. ASSUME NEW u \in Trans, u # t, u[1] = t[1], cli[u].to = p, Live(u)
          PROVE  FALSE
      <3>1. u \in clientList[p]
        BY <2>3 DEF Live, Listed
      <3>2. srv[u] # "CONNECTED"
        BY <2>3, <3>1 DEF IsExistConnection
      <3>3. Going(u) /\ ~Final(u)
        BY <2>3, <3>2 DEF Live, Going, Final, IndInv, Shape, Stage, Untouched
      <3>4. InHand(u)
        BY <3>3 DEF Calm
      <3>5. u \notin connectTrans[u[1]]
        BY <2>1, <2>3, <3>3 DEF Calm, Waits
      <3>6. t[1] \notin stopped \/ toSrv[u] = "ESTABLISHED"
        BY <2>3, <3>2 DEF Live
      <3> QED
        BY <2>2, <2>3, <3>4, <3>5, <3>6 DEF InHand, Quiet
    <2>4. \A u \in Trans : u # t => (Live(u)' => Live(u))
      BY <2>1 DEF IndInv, TypeOK, Live, Listed
    <2> QED
      BY <2>3, <2>4 DEF Single, Calm
  <1> QED
    BY <1>1, <1>2, <1>3

LEMMA EstablishedServerCalm ==
  ASSUME IndInv, IndInv', Calm, NEW t \in Trans, OnEstablishedServer(t)
  PROVE  Calm'
  <1> USE DEF OnEstablishedServer, Served, Taken, Answers, main, Works, Fails
  <1> SUFFICES ASSUME Without({"late"})
               PROVE  /\ \A m \in Node : Waits(m)'
                      /\ \A u \in Trans : Going(u)' => InHand(u)'
                      /\ Single'
    BY SameFaults DEF Calm
  <1>1. \A m \in Node : Waits(m)'
    BY DEF IndInv, Shape, TypeOK, Calm, Waits, Trying, Kept, Final, Without, Stage,
           StateRight, Untouched, Listed
  <1>2. \A u \in Trans : Going(u)' => InHand(u)'
    BY DEF IndInv, Shape, TypeOK, Calm, Going, InHand, Waits, Trying, Quiet,
           Without, Stage, StateRight, Untouched, Listed
  <1>3. Single'
    BY DEF IndInv, Shape, TypeOK, Calm, Single, Live, Waits, Trying, Stage,
           StateRight, Untouched, Listed
  <1> QED
    BY <1>1, <1>2, <1>3

LEMMA RejectedServerCalm ==
  ASSUME IndInv, IndInv', Calm, NEW t \in Trans, OnRejectedServer(t)
  PROVE  Calm'
  <1> USE DEF OnRejectedServer, Served, Taken, Answers, main, Works, Fails
  <1> SUFFICES ASSUME Without({"late"})
               PROVE  /\ \A m \in Node : Waits(m)'
                      /\ \A u \in Trans : Going(u)' => InHand(u)'
                      /\ Single'
    BY SameFaults DEF Calm
  <1>1. \A m \in Node : Waits(m)'
    <2>1. ~Final(t)
      BY DEF IndInv, Shape, Stage, Untouched, Final
    <2>2. \A u \in Trans : u # t => srv'[u] = srv[u]
      BY DEF IndInv, TypeOK
    <2> QED
      BY <2>1, <2>2, OthersWait DEF Calm
  <1>2. \A u \in Trans : Going(u)' => InHand(u)'
    BY DEF IndInv, Shape, TypeOK, Calm, Going, InHand, Waits, Trying, Quiet,
           Without, Stage, StateRight, Untouched, Listed
  <1>3. Single'
    BY DEF IndInv, Shape, TypeOK, Calm, Single, Live, Waits, Trying, Stage,
           StateRight, Untouched, Listed
  <1> QED
    BY <1>1, <1>2, <1>3

LEMMA LostServerCalm ==
  ASSUME IndInv, IndInv', Calm, NEW t \in Trans,
         NEW e, NEW s,
         <<e, s>> \in {<<"DISCONNECTED", "DISCONNECTED">>, <<"CONNECT_ERROR", "ERROR">>},
         OnLostServer(t, e, s)
  PROVE  Calm'
  <1> USE DEF OnLostServer, Served, Taken, Answers, main, Works, Fails
  <1> SUFFICES ASSUME Without({"late"})
               PROVE  /\ \A m \in Node : Waits(m)'
                      /\ \A u \in Trans : Going(u)' => InHand(u)'
                      /\ Single'
    BY SameFaults DEF Calm
  <1>1. \A m \in Node : Waits(m)'
    BY DEF IndInv, Shape, TypeOK, Calm, Waits, Trying, Kept, Final, Without, Stage,
           StateRight, Untouched, Listed
  <1>2. \A u \in Trans : Going(u)' => InHand(u)'
    BY DEF IndInv, Shape, TypeOK, Calm, Going, InHand, Waits, Trying, Quiet,
           Without, Stage, StateRight, Untouched, Listed
  <1>3. Single'
    BY DEF IndInv, Shape, TypeOK, Calm, Single, Live, Waits, Trying, Stage,
           StateRight, Untouched, Listed
  <1> QED
    BY <1>1, <1>2, <1>3

LEMMA RejectCalm ==
  ASSUME IndInv, IndInv', Calm, NEW t \in Trans, Reject(t)
  PROVE  Calm'
  <1> USE DEF Reject, server, Served, Taken, Answers, main, Works, Fails
  <1> SUFFICES ASSUME Without({"late"})
               PROVE  /\ \A m \in Node : Waits(m)'
                      /\ \A u \in Trans : Going(u)' => InHand(u)'
                      /\ Single'
    BY SameFaults DEF Calm
  <1>1. \A m \in Node : Waits(m)'
    BY DEF IndInv, Shape, TypeOK, Calm, Waits, Trying, Kept, Final, Without, Stage,
           StateRight, Untouched, Listed
  <1>2. \A u \in Trans : Going(u)' => InHand(u)'
    BY DEF IndInv, Shape, TypeOK, Calm, Going, InHand, Waits, Trying, Quiet,
           Without, Stage, StateRight, Untouched, Listed
  <1>3. Single'
    BY DEF IndInv, Shape, TypeOK, Calm, Single, Live, Waits, Trying, Stage,
           StateRight, Untouched, Listed
  <1> QED
    BY <1>1, <1>2, <1>3

LEMMA AnswerFailsCalm ==
  ASSUME IndInv, IndInv', Calm, NEW t \in Trans, AnswerFails(t)
  PROVE  Calm'
  <1> USE DEF AnswerFails, Tells, server, Served, Taken, Answers, main, Works, Fails
  <1> SUFFICES ASSUME Without({"late"})
               PROVE  /\ \A m \in Node : Waits(m)'
                      /\ \A u \in Trans : Going(u)' => InHand(u)'
                      /\ Single'
    BY SameFaults DEF Calm
  <1>1. \A m \in Node : Waits(m)'
    BY DEF IndInv, Shape, TypeOK, Calm, Waits, Trying, Kept, Final, Without, Stage,
           StateRight, Untouched, Listed
  <1>2. \A u \in Trans : Going(u)' => InHand(u)'
    BY DEF IndInv, Shape, TypeOK, Calm, Going, InHand, Waits, Trying, Quiet,
           Without, Stage, StateRight, Untouched, Listed
  <1>3. Single'
    BY DEF IndInv, Shape, TypeOK, Calm, Single, Live, Waits, Trying, Stage,
           StateRight, Untouched, Listed
  <1> QED
    BY <1>1, <1>2, <1>3

LEMMA BreakCalm ==
  ASSUME IndInv, IndInv', Calm, NEW t \in Trans, Break(t)
  PROVE  Calm'
  <1> USE DEF Break, Tells, server, Served, Taken, Answers, main, Works, Fails
  <1> SUFFICES ASSUME Without({"late"})
               PROVE  /\ \A m \in Node : Waits(m)'
                      /\ \A u \in Trans : Going(u)' => InHand(u)'
                      /\ Single'
    BY SameFaults DEF Calm
  <1>1. \A m \in Node : Waits(m)'
    BY DEF IndInv, Shape, TypeOK, Calm, Waits, Trying, Kept, Final, Without, Stage,
           StateRight, Untouched, Listed
  <1>2. \A u \in Trans : Going(u)' => InHand(u)'
    BY DEF IndInv, Shape, TypeOK, Calm, Going, InHand, Waits, Trying, Quiet,
           Without, Stage, StateRight, Untouched, Listed
  <1>3. Single'
    BY DEF IndInv, Shape, TypeOK, Calm, Single, Live, Waits, Trying, Stage,
           StateRight, Untouched, Listed
  <1> QED
    BY <1>1, <1>2, <1>3

----------------------------------------------------------------------------
(* The same of Calm, and of both together. *)
LEMMA InitCalm == Init => Calm
  BY DEF Init, Calm, Waits, Going, Single, Live, Listed

LEMMA NextCalm == IndInv /\ IndInv' /\ Calm /\ [Next]_vars => Calm'
  <1> SUFFICES ASSUME IndInv, IndInv', Calm, [Next]_vars PROVE Calm'
    OBVIOUS
  <1>1. ASSUME NEW n \in Node, Main(n) PROVE Calm'
    BY <1>1, ServerInitCalm, CreateCalm, CreateFailsCalm, ConnectCalm,
       StoreConnectingCalm, GiveUpCalm, FreeRejectedCalm, LeaveLoopCalm, KeepTransCalm
    DEF Main
  <1>2. ASSUME NEW n \in Node, ClientEpoll(n) PROVE Calm'
    BY <1>2, EnterHandlerCalm, LeaveHandlerCalm, AddrResolvedCalm,
           RouteResolvedCalm,
       EstablishedCalm, RejectedCalm, DisconnectedCalm, ErrorCalm, OtherCalm
    DEF ClientEpoll
  <1>3. ASSUME NEW t \in Trans, ServerEpoll(t) PROVE Calm'
    BY <1>3, DropRequestCalm, ConnectRequestCalm, EstablishedServerCalm,
       RejectedServerCalm, LostServerCalm DEF ServerEpoll
  <1>4. CASE UNCHANGED vars
    BY <1>4
    DEF vars, Calm, Without, Waits, Going, InHand, Quiet, Single, Live,
                Untouched, Listed, Final
  <1> QED
    BY <1>1, <1>2, <1>3, <1>4, RejectCalm, AnswerFailsCalm, BreakCalm DEF Next

LEMMA CalmAlways == Spec => [](IndInv /\ Calm)
  BY InitInv, NextInv, InitCalm, NextCalm, PTL DEF Spec

(* A server is connected to a peer at most once, for any number of nodes,  *)
(* of attempts and of faults, an epoll thread ahead of the main thread     *)
(* among them, as long as a handshake takes less than a second             *)
(* (mid_rdma_connection.c:307-333, 473-479).                               *)
THEOREM ConnectedOnce == Spec => []OneConnectionPerPeer
  <1>1. IndInv /\ Calm => OneConnectionPerPeer
    <2> SUFFICES ASSUME IndInv, Calm, Without({"late"}), NEW p \in Node,
                        NEW t \in clientList[p], NEW u \in clientList[p],
                        t[1] = u[1], srv[t] = "CONNECTED", srv[u] = "CONNECTED"
                 PROVE  t = u
      BY DEF OneConnectionPerPeer
    <2>1. t \in Trans /\ u \in Trans /\ cli[t].to = p /\ cli[u].to = p
      BY DEF IndInv, TypeOK, Shape, ListsRight
    <2> QED
      BY <2>1 DEF Calm, Single, Live, Listed
  <1> QED
    BY <1>1, CalmAlways, PTL

==============================================================================
