--------------------------- MODULE AgentHubProofs ---------------------------
(***************************************************************************)
(* Safety of the agent hub for any sets of nodes, connections and calls.   *)
(***************************************************************************)
EXTENDS AgentHub, TLAPS

USE ConstantsAssumption, RequestsAssumption

-----------------------------------------------------------------------------
(* What the shared helpers do.                                             *)

(***************************************************************************)
(* fail_all_for_node keeps the call state well typed.                      *)
(***************************************************************************)
LEMMA FailAllType ==
  ASSUME CallTypeOK, NEW N, FailAll(N)
  PROVE  /\ pending' \in SUBSET Call
         /\ fut' \in [Call -> FutState]
BY DEF CallTypeOK, FailAll, PendingOf, FutState

(***************************************************************************)
(* The finally block keeps the hub well typed.                             *)
(***************************************************************************)
LEMMA FinallyType ==
  ASSUME TypeOK, NEW c \in Conn, Finally(c), nodeOf[c] \in Node,
         locked' \in [Conn -> BOOLEAN], fresh' \in [Node -> BOOLEAN]
  PROVE  TypeOK'
<1> USE DEF TypeOK
<1>1. CallTypeOK'
  <2>1. /\ pending' \in SUBSET Call
        /\ fut' \in [Call -> FutState]
    BY FailAllType DEF Finally
  <2> QED BY <2>1 DEF Finally, CallTypeOK
<1>2. /\ conns' \in [Node -> Conn \cup {None}]
      /\ locks' \in [Node -> Conn \cup {None}]
      /\ metrics' \in [Node -> Conn \cup {None}]
      /\ online' \in [Node -> BOOLEAN]
  BY DEF Finally
<1>3. /\ sock' \in [Conn -> SockState]
      /\ pc' \in [Conn -> HandlerState]
      /\ wlock' \in [Conn -> Conn \cup {None}]
  BY DEF Finally, SockState, HandlerState
<1> QED BY <1>1, <1>2, <1>3 DEF Finally, taskVars

(***************************************************************************)
(* Registering a connection keeps the tables, the database and the         *)
(* handlers well typed.                                                    *)
(***************************************************************************)
LEMMA RegisterType ==
  ASSUME TypeOK, NEW c \in Conn, NEW n \in Node, Register(c, n)
  PROVE  /\ conns' \in [Node -> Conn \cup {None}]
         /\ locks' \in [Node -> Conn \cup {None}]
         /\ online' \in [Node -> BOOLEAN]
         /\ fresh' \in [Node -> BOOLEAN]
         /\ pc' \in [Conn -> HandlerState]
         /\ locked' \in [Conn -> BOOLEAN]
         /\ wlock' \in [Conn -> Conn \cup {None}]
BY DEF Register, TypeOK, HandlerState

(***************************************************************************)
(* A stretch of the sweep's loop keeps what it changes well typed.         *)
(***************************************************************************)
LEMMA SweepOnType ==
  ASSUME TypeOK, NEW S \in SUBSET Node, NEW M \in SUBSET Node,
         NEW T \in [Node -> Conn \cup {None}], NEW P, SweepOn(S, M, T, P)
  PROVE  /\ pending' \in SUBSET Call
         /\ fut' \in [Call -> FutState]
         /\ sock' \in [Conn -> SockState]
         /\ online' \in [Node -> BOOLEAN]
         /\ sweep' \in [at : Node \cup {None}, todo : SUBSET Node, marked : SUBSET Node]
<1>1. CASE /\ FailAll(S \cup P)
           /\ online' = [n \in Node |->
                 online[n] /\ ~ (n \in M \cup S /\ \A m \in M \cup S : row[m])]
           /\ sweep' = SweepIdle
           /\ UNCHANGED sock
  <2>1. /\ pending' \in SUBSET Call
        /\ fut' \in [Call -> FutState]
    BY <1>1, FailAllType DEF TypeOK
  <2>2. sweep' \in [at : Node \cup {None}, todo : SUBSET Node, marked : SUBSET Node]
    BY <1>1 DEF SweepIdle
  <2> QED BY <1>1, <2>1, <2>2 DEF TypeOK
<1>2. CASE /\ \E m \in S : \E D \in SUBSET {n \in S : T[n] = None} :
                /\ T[m] # None
                /\ FailAll(D \cup P)
                /\ sock' = [sock EXCEPT ![T[m]] = "shut"]
                /\ sweep' = [at |-> m, todo |-> S \ (D \cup {m}), marked |-> M \cup D]
           /\ UNCHANGED online
  <2>1. PICK m \in S, D \in SUBSET {n \in S : T[n] = None} :
                /\ FailAll(D \cup P)
                /\ sock' = [sock EXCEPT ![T[m]] = "shut"]
                /\ sweep' = [at |-> m, todo |-> S \ (D \cup {m}), marked |-> M \cup D]
    BY <1>2
  <2>2. /\ pending' \in SUBSET Call
        /\ fut' \in [Call -> FutState]
    BY <2>1, FailAllType DEF TypeOK
  <2>3. sock' \in [Conn -> SockState]
    BY <2>1 DEF TypeOK, SockState
  <2>4. sweep' \in [at : Node \cup {None}, todo : SUBSET Node, marked : SUBSET Node]
    BY <2>1
  <2> QED BY <1>2, <2>2, <2>3, <2>4 DEF TypeOK
<1> QED BY <1>1, <1>2 DEF SweepOn

(***************************************************************************)
(* What a disconnecting request commits keeps the database well typed.     *)
(***************************************************************************)
LEMMA CommitType ==
  ASSUME TypeOK, NEW n \in Node, NEW kind, Commit(n, kind)
  PROVE  /\ row' \in [Node -> BOOLEAN]
         /\ online' \in [Node -> BOOLEAN]
         /\ fresh' \in [Node -> BOOLEAN]
<1>1. CASE kind = "delete" \/ kind = "kick"
  BY <1>1 DEF Commit, TypeOK, dbVars
<1>2. CASE kind = "reset"
  BY <1>2 DEF Commit, TypeOK
<1> QED BY <1>1, <1>2 DEF Commit

-----------------------------------------------------------------------------
(* Types.                                                                  *)

LEMMA CallTypeStep ==
  ASSUME TypeOK, CallShape, NEW k \in Call, CallStep(k)
  PROVE  CallTypeOK' /\ locked' \in [Conn -> BOOLEAN]
<1> USE DEF TypeOK, CallTypeOK, CallState, FutState, Outcome, ReplyState
<1>1. CASE CallStart(k)
  <2>1. PICK n \in Node, kind \in {"rpc", "cmd"} : StartCall(k, n, kind)
    BY <1>1 DEF CallStart
  <2>2. CASE conns[n] = None \/ locks[n] = None
    BY <2>1, <2>2 DEF StartCall
  <2>3. CASE ~ (conns[n] = None \/ locks[n] = None)
    <3>1. [kind |-> kind, node |-> n, ws |-> conns[n], lock |-> locks[n]] \in Req
      BY <2>3 DEF Req
    <3>2. req' \in [Call -> Req \cup {NoReq}]
      BY <2>1, <2>3, <3>1 DEF StartCall
    <3>3. /\ cpc' \in [Call -> CallState]
          /\ fut' \in [Call -> FutState]
          /\ UNCHANGED <<reply, out>>
      BY <2>1, <2>3 DEF StartCall
    <3>4. pending' \in SUBSET Call
      BY <2>1, <2>3 DEF StartCall
    <3>5. locked' \in [Conn -> BOOLEAN]
      <4>1. locked' = [locked EXCEPT ![locks[n]] = TRUE] /\ locks[n] \in Conn
        BY <2>1, <2>3 DEF StartCall
      <4> QED BY <4>1
    <3> QED BY <3>2, <3>3, <3>4, <3>5
  <2> QED BY <2>2, <2>3
<1>2. CASE CallLocks(k)
  BY <1>2 DEF CallLocks, AcquireLock
<1>3. CASE CallSent(k)
  BY <1>3 DEF CallSent, SendSucceeds
<1>4. CASE CallNotSent(k)
  BY <1>4 DEF CallNotSent, SendFails
<1>5. CASE CallReturn(k)
  BY <1>5 DEF CallReturn, CallReturns
<1>6. CASE CallExpires(k)
  BY <1>6 DEF CallExpires, TimerFires
<1>7. CASE CallTimeout(k)
  BY <1>7 DEF CallTimeout, CallTimesOut
<1>8. CASE AgentReply(k)
  BY <1>8 DEF AgentReply, AgentAnswers
<1> QED BY <1>1, <1>2, <1>3, <1>4, <1>5, <1>6, <1>7, <1>8 DEF CallStep

LEMMA TypeStep ==
  ASSUME IInv, [Next]_vars
  PROVE  TypeOK'
<1> USE DEF IInv
<1>1. ASSUME NEW c \in Conn, NEW n \in Node, Dial(c, n) PROVE TypeOK'
  BY <1>1 DEF Dial, TypeOK, CallTypeOK, SockState, HandlerState,
     tableVars, dbVars, taskVars, callVars
<1>2. ASSUME NEW c \in Conn, AgentGone(c) \/ DetectGone(c) PROVE TypeOK'
  BY <1>2 DEF AgentGone, DetectGone, TypeOK, CallTypeOK, SockState,
     tableVars, dbVars, taskVars, callVars
<1>3. ASSUME NEW c \in Conn, Handler(c) PROVE TypeOK'
  <2> USE DEF tableVars, dbVars, taskVars, callVars, wsVars
  <2>1. CASE AcceptFirst(c) \/ OldClosed(c)
    <3>1. nodeOf[c] \in Node /\ Register(c, nodeOf[c])
      BY <2>1 DEF AcceptFirst, OldClosed, HandlersRefer
    <3> QED BY <2>1, <3>1, RegisterType DEF AcceptFirst, OldClosed, TypeOK, CallTypeOK
  <2>2. CASE AcceptReconnect(c)
    <3>1. pending' \in SUBSET Call /\ fut' \in [Call -> FutState]
      BY <2>2, FailAllType DEF AcceptReconnect, TypeOK
    <3> QED BY <2>2, <3>1 DEF AcceptReconnect, TypeOK, CallTypeOK, HandlerState, SockState
  <2>3. CASE AcceptFails(c)
    BY <2>3 DEF AcceptFails, TypeOK, CallTypeOK, HandlerState, SockState
  <2>4. CASE IfaceSent(c)
    BY <2>4 DEF IfaceSent, TypeOK, CallTypeOK, HandlerState
  <2>5. CASE ReceiveFails(c)
    <3>1. nodeOf[c] \in Node
      BY <2>5 DEF ReceiveFails, HandlersRefer
    <3> QED BY <2>5, <3>1, FinallyType DEF ReceiveFails, TypeOK
  <2>6. CASE ReceivePing(c)
    BY <2>6 DEF ReceivePing, HandlersRefer, TypeOK, CallTypeOK, HandlerState
  <2>7. CASE PingWithoutLock(c)
    <3>1. nodeOf[c] \in Node /\ fresh' \in [Node -> BOOLEAN]
      BY <2>7 DEF PingWithoutLock, HandlersRefer, TypeOK
    <3> QED BY <2>7, <3>1, FinallyType DEF PingWithoutLock, TypeOK
  <2>8. CASE PongLocked(c) \/ PongSent(c)
    BY <2>8 DEF PongLocked, PongSent, TypeOK, CallTypeOK, HandlerState
  <2>9. CASE PongFails(c)
    <3>1. nodeOf[c] \in Node /\ locked' \in [Conn -> BOOLEAN]
      BY <2>9 DEF PongFails, HandlersRefer, TypeOK
    <3> QED BY <2>9, <3>1, FinallyType DEF PongFails, TypeOK
  <2>10. CASE ReceiveMetrics(c)
    BY <2>10 DEF ReceiveMetrics, TypeOK, CallTypeOK
  <2>11. ASSUME NEW k \in Call, ReceiveReply(c, k) PROVE TypeOK'
    <3>1. pending' \in SUBSET Call /\ fut' \in [Call -> FutState]
      BY <2>11 DEF ReceiveReply, HandleResponse, TypeOK, CallTypeOK, FutState
    <3> QED BY <2>11, <3>1 DEF ReceiveReply, TypeOK, CallTypeOK
  <2> QED BY <1>3, <2>1, <2>2, <2>3, <2>4, <2>5, <2>6, <2>7, <2>8, <2>9, <2>10, <2>11 DEF Handler
<1>4. ASSUME NEW k \in Call, CallStep(k) PROVE TypeOK'
  <2>1. CallTypeOK' /\ locked' \in [Conn -> BOOLEAN]
    BY <1>4, CallTypeStep
  <2>2. UNCHANGED hubVars
    BY <1>4 DEF CallStep, CallStart, CallLocks, CallSent, CallNotSent, CallReturn,
       CallExpires, CallTimeout, AgentReply
  <2> QED BY <2>1, <2>2 DEF TypeOK, hubVars, tableVars, wsVars, dbVars, taskVars
<1>5. ASSUME NEW n \in Node, NEW kind \in Requests, Disconnect(n, kind) PROVE TypeOK'
  <2>1. pending' \in SUBSET Call /\ fut' \in [Call -> FutState]
    BY <1>5, FailAllType DEF Disconnect, DisconnectNode, TypeOK
  <2>2. CallTypeOK'
    BY <1>5, <2>1 DEF Disconnect, TypeOK, CallTypeOK
  <2>3. /\ row' \in [Node -> BOOLEAN]
        /\ online' \in [Node -> BOOLEAN]
        /\ fresh' \in [Node -> BOOLEAN]
        /\ op' \in [Node -> OpKind \cup {"none"}]
    <3>1. CASE conns[n] = None
      BY <1>5, <3>1, CommitType DEF Disconnect, TypeOK
    <3>2. CASE conns[n] # None
      BY <1>5, <3>2 DEF Disconnect, TypeOK, dbVars
    <3> QED BY <3>1, <3>2
  <2>4. /\ conns' \in [Node -> Conn \cup {None}]
        /\ locks' \in [Node -> Conn \cup {None}]
        /\ sock' \in [Conn -> SockState]
    BY <1>5 DEF Disconnect, DisconnectNode, TypeOK, SockState
  <2> QED BY <1>5, <2>2, <2>3, <2>4 DEF Disconnect, TypeOK
<1>6. ASSUME NEW n \in Node, Disconnected(n) \/ LastSeenExpires(n) PROVE TypeOK'
  <2>1. CASE Disconnected(n)
    BY <2>1, CommitType DEF Disconnected, TypeOK, CallTypeOK, tableVars, wsVars, callVars
  <2>2. CASE LastSeenExpires(n)
    BY <2>2 DEF LastSeenExpires, TypeOK, CallTypeOK, tableVars, wsVars, taskVars, callVars
  <2> QED BY <1>6, <2>1, <2>2
<1>7. CASE SweepBegins
  <2>1. SweepOn({n \in Node : row[n] /\ online[n] /\ ~ fresh[n]}, {}, conns, {})
    BY <1>7 DEF SweepBegins
  <2>2. /\ pending' \in SUBSET Call
        /\ fut' \in [Call -> FutState]
        /\ sock' \in [Conn -> SockState]
        /\ online' \in [Node -> BOOLEAN]
        /\ sweep' \in [at : Node \cup {None}, todo : SUBSET Node, marked : SUBSET Node]
    BY <2>1, SweepOnType, Zenon DEF TypeOK
  <2> QED BY <1>7, <2>2 DEF SweepBegins, TypeOK, CallTypeOK, tableVars
<1>8. CASE SweepResumes
  <2>1. /\ conns' \in [Node -> Conn \cup {None}]
        /\ locks' \in [Node -> Conn \cup {None}]
    BY <1>8 DEF SweepResumes, TypeOK
  <2>2. /\ sweep.at \in Node
        /\ sweep.todo \in SUBSET Node
        /\ sweep.marked \cup {sweep.at} \in SUBSET Node
    BY <1>8 DEF SweepResumes, TypeOK
  <2>3. SweepOn(sweep.todo, sweep.marked \cup {sweep.at}, conns', {sweep.at})
    BY <1>8 DEF SweepResumes
  <2>4. /\ pending' \in SUBSET Call
        /\ fut' \in [Call -> FutState]
        /\ sock' \in [Conn -> SockState]
        /\ online' \in [Node -> BOOLEAN]
        /\ sweep' \in [at : Node \cup {None}, todo : SUBSET Node, marked : SUBSET Node]
    BY <2>1, <2>2, <2>3, SweepOnType
  <2> QED BY <1>8, <2>1, <2>4 DEF SweepResumes, TypeOK, CallTypeOK
<1>9. CASE UNCHANGED vars
  BY <1>9 DEF vars, TypeOK, CallTypeOK, tableVars, wsVars, dbVars, taskVars, callVars
<1> QED BY <1>1, <1>2, <1>3, <1>4, <1>5, <1>6, <1>7, <1>8, <1>9 DEF Next

-----------------------------------------------------------------------------
(* What a step can change.                                                 *)

(***************************************************************************)
(* The calls change in a step of a call, by a frame of the agent, or by    *)
(* fail_all_for_node.                                                      *)
(***************************************************************************)
LEMMA CallsChange ==
  ASSUME [Next]_vars
  PROVE  \/ \E k \in Call : CallStep(k)
         \/ \E c \in Conn, k \in Call : ReceiveReply(c, k)
         \/ \E N : FailAll(N) /\ UNCHANGED <<cpc, req, reply, out>>
         \/ UNCHANGED callVars
<1>1. ASSUME NEW c \in Conn, Handler(c)
      PROVE  \/ \E k \in Call : ReceiveReply(c, k)
             \/ \E N : FailAll(N) /\ UNCHANGED <<cpc, req, reply, out>>
             \/ UNCHANGED callVars
  <2>1. CASE AcceptReconnect(c) \/ ReceiveFails(c) \/ PingWithoutLock(c) \/ PongFails(c)
    BY <2>1 DEF AcceptReconnect, ReceiveFails, PingWithoutLock, PongFails, Finally
  <2>2. CASE \/ AcceptFirst(c) \/ OldClosed(c) \/ AcceptFails(c) \/ IfaceSent(c)
             \/ ReceivePing(c) \/ PongLocked(c) \/ PongSent(c) \/ ReceiveMetrics(c)
    BY <2>2 DEF AcceptFirst, OldClosed, AcceptFails, IfaceSent, ReceivePing, PongLocked,
       PongSent, ReceiveMetrics
  <2> QED BY <1>1, <2>1, <2>2 DEF Handler
<1>2. CASE SweepBegins \/ SweepResumes
  <2>1. PICK S, M, T, P : SweepOn(S, M, T, P) /\ UNCHANGED <<cpc, req, reply, out>>
    BY <1>2 DEF SweepBegins, SweepResumes
  <2> QED BY <2>1 DEF SweepOn
<1>3. CASE \E n \in Node, kind \in Requests : Disconnect(n, kind)
  BY <1>3 DEF Disconnect, DisconnectNode
<1>4. CASE \/ \E c \in Conn, n \in Node : Dial(c, n)
           \/ \E c \in Conn : AgentGone(c) \/ DetectGone(c)
           \/ \E n \in Node : Disconnected(n) \/ LastSeenExpires(n)
           \/ UNCHANGED vars
  BY <1>4 DEF Dial, AgentGone, DetectGone, Disconnected, LastSeenExpires, vars
<1> QED BY <1>1, <1>2, <1>3, <1>4 DEF Next

(***************************************************************************)
(* A handler changes only by its own steps and by a dial.                  *)
(***************************************************************************)
LEMMA HandlersChange ==
  ASSUME [Next]_vars
  PROVE  \/ \E c \in Conn, n \in Node : Dial(c, n)
         \/ \E c \in Conn : Handler(c)
         \/ UNCHANGED <<pc, nodeOf, wlock>>
<1>1. CASE \E k \in Call : CallStep(k)
  BY <1>1 DEF CallStep, CallStart, CallLocks, CallSent, CallNotSent, CallReturn,
     CallExpires, CallTimeout, AgentReply, hubVars, wsVars
<1>2. CASE \/ \E c \in Conn : AgentGone(c) \/ DetectGone(c)
           \/ \E n \in Node, kind \in Requests : Disconnect(n, kind)
           \/ \E n \in Node : Disconnected(n) \/ LastSeenExpires(n)
           \/ SweepBegins \/ SweepResumes \/ UNCHANGED vars
  BY <1>2 DEF AgentGone, DetectGone, Disconnect, Disconnected, LastSeenExpires,
     SweepBegins, SweepResumes, vars, wsVars
<1> QED BY <1>1, <1>2 DEF Next

(***************************************************************************)
(* The connection tables are written by registrations, pops and nothing    *)
(* else, and only a registration puts an entry in.                         *)
(***************************************************************************)
LEMMA TablesChange ==
  ASSUME TypeOK, HandlersRefer, [Next]_vars
  PROVE  \/ \E c \in Conn : AcceptFirst(c) \/ OldClosed(c)
         \/ \A n \in Node : /\ conns'[n] \in {conns[n], None}
                            /\ locks'[n] \in {locks[n], None}
                            /\ locks'[n] # locks[n] => conns'[n] = None
<1> USE DEF TypeOK
<1> DEFINE Pops == \A n \in Node : /\ conns'[n] \in {conns[n], None}
                                   /\ locks'[n] \in {locks[n], None}
                                   /\ locks'[n] # locks[n] => conns'[n] = None
<1>1. ASSUME NEW c \in Conn, Handler(c), ~ AcceptFirst(c), ~ OldClosed(c) PROVE Pops
  <2>1. CASE AcceptReconnect(c)
    BY <2>1 DEF AcceptReconnect
  <2>2. CASE ReceiveFails(c) \/ PingWithoutLock(c) \/ PongFails(c)
    <3>1. Finally(c)
      BY <2>2 DEF ReceiveFails, PingWithoutLock, PongFails
    <3> QED BY <3>1 DEF Finally
  <2>3. CASE \/ AcceptFails(c) \/ IfaceSent(c) \/ ReceivePing(c) \/ PongLocked(c)
             \/ PongSent(c) \/ ReceiveMetrics(c) \/ \E k \in Call : ReceiveReply(c, k)
    BY <2>3 DEF AcceptFails, IfaceSent, ReceivePing, PongLocked, PongSent,
       ReceiveMetrics, ReceiveReply, tableVars
  <2> QED BY <1>1, <2>1, <2>2, <2>3 DEF Handler
<1>2. CASE SweepBegins \/ SweepResumes \/ UNCHANGED vars
  BY <1>2 DEF SweepBegins, SweepResumes, tableVars, vars
<1>3. CASE \E n \in Node, kind \in Requests : Disconnect(n, kind)
  BY <1>3 DEF Disconnect, DisconnectNode
<1>4. CASE \/ \E c \in Conn, n \in Node : Dial(c, n)
           \/ \E c \in Conn : AgentGone(c) \/ DetectGone(c)
           \/ \E n \in Node : Disconnected(n) \/ LastSeenExpires(n)
  BY <1>4 DEF Dial, AgentGone, DetectGone, Disconnected, LastSeenExpires, tableVars
<1>5. CASE \E k \in Call : CallStep(k)
  BY <1>5 DEF CallStep, CallStart, CallLocks, CallSent, CallNotSent, CallReturn,
     CallExpires, CallTimeout, AgentReply, hubVars, tableVars
<1> QED BY <1>1, <1>2, <1>3, <1>4, <1>5 DEF Next

(***************************************************************************)
(* A connection keeps its node, and stays registered or done.              *)
(***************************************************************************)
LEMMA HandlersAdvance ==
  ASSUME IInv, [Next]_vars, NEW d \in Conn
  PROVE  /\ Registered(d) => Registered(d)'
         /\ pc[d] # "idle" => pc'[d] # "idle" /\ nodeOf'[d] = nodeOf[d]
<1> USE DEF IInv, Registered, Serving
<1>1. ASSUME NEW c \in Conn, NEW n \in Node, Dial(c, n)
      PROVE  /\ Registered(d) => Registered(d)'
             /\ pc[d] # "idle" => pc'[d] # "idle" /\ nodeOf'[d] = nodeOf[d]
  BY <1>1 DEF Dial, TypeOK
<1>2. ASSUME NEW c \in Conn, Handler(c)
      PROVE  /\ Registered(d) => Registered(d)'
             /\ pc[d] # "idle" => pc'[d] # "idle" /\ nodeOf'[d] = nodeOf[d]
  <2>1. CASE AcceptFirst(c) \/ OldClosed(c)
    BY <2>1 DEF AcceptFirst, OldClosed, Register, TypeOK
  <2>2. CASE AcceptReconnect(c) \/ AcceptFails(c) \/ IfaceSent(c)
    BY <2>2 DEF AcceptReconnect, AcceptFails, IfaceSent, TypeOK
  <2>3. CASE ReceiveFails(c) \/ PingWithoutLock(c) \/ PongFails(c)
    BY <2>3 DEF ReceiveFails, PingWithoutLock, PongFails, Finally, TypeOK
  <2>4. CASE ReceivePing(c) \/ PongLocked(c) \/ PongSent(c)
    BY <2>4 DEF ReceivePing, PongLocked, PongSent, TypeOK
  <2>5. CASE ReceiveMetrics(c) \/ \E k \in Call : ReceiveReply(c, k)
    BY <2>5 DEF ReceiveMetrics, ReceiveReply, wsVars
  <2> QED BY <1>2, <2>1, <2>2, <2>3, <2>4, <2>5 DEF Handler
<1> QED BY <1>1, <1>2, HandlersChange

-----------------------------------------------------------------------------
(* The pending table.                                                      *)

LEMMA PendingStep ==
  ASSUME IInv, [Next]_vars
  PROVE  PendingIsExact' /\ CallShape' /\ AnswerReachesCaller'
<1> USE DEF IInv, TypeOK, CallTypeOK, PendingIsExact, CallShape, AnswerReachesCaller
<1>1. ASSUME NEW k \in Call, CallStep(k)
      PROVE  PendingIsExact' /\ CallShape' /\ AnswerReachesCaller'
  <2>1. CASE CallStart(k)
    <3>1. PICK n \in Node, kind \in {"rpc", "cmd"} : StartCall(k, n, kind)
      BY <2>1 DEF CallStart
    <3>2. CASE conns[n] = None \/ locks[n] = None
      BY <3>1, <3>2 DEF StartCall
    <3>3. CASE ~ (conns[n] = None \/ locks[n] = None)
      <4>1. /\ req' = [req EXCEPT ![k] = [kind |-> kind, node |-> n,
                                          ws |-> conns[n], lock |-> locks[n]]]
            /\ fut' = [fut EXCEPT ![k] = IF kind = "rpc" THEN "open" ELSE @]
            /\ pending' = IF kind = "rpc" THEN pending \cup {k} ELSE pending
            /\ cpc' = [cpc EXCEPT ![k] = IF locked[locks[n]] THEN "lock" ELSE "send"]
            /\ cpc[k] = "idle"
            /\ UNCHANGED <<reply, out>>
        BY <3>1, <3>3 DEF StartCall
      <4>2. req'[k].kind = kind /\ req'[k] # NoReq
        BY <4>1 DEF NoReq
      <4>3. out[k] = "none" /\ fut[k] = "none"
        BY <4>1
      <4>4. PendingIsExact'
        BY <4>1, <4>2
      <4>5. CallShape'
        BY <4>1, <4>2, <4>3
      <4>6. AnswerReachesCaller'
        BY <4>1, <4>3
      <4> QED BY <4>4, <4>5, <4>6
    <3> QED BY <3>2, <3>3
  <2>2. CASE CallLocks(k)
    BY <2>2 DEF CallLocks, AcquireLock
  <2>3. CASE CallSent(k)
    BY <2>3 DEF CallSent, SendSucceeds
  <2>4. CASE CallNotSent(k)
    BY <2>4 DEF CallNotSent, SendFails
  <2>5. CASE CallReturn(k)
    BY <2>5 DEF CallReturn, CallReturns
  <2>6. CASE CallExpires(k)
    BY <2>6 DEF CallExpires, TimerFires
  <2>7. CASE CallTimeout(k)
    BY <2>7 DEF CallTimeout, CallTimesOut
  <2>8. CASE AgentReply(k)
    BY <2>8 DEF AgentReply, AgentAnswers
  <2> QED BY <1>1, <2>1, <2>2, <2>3, <2>4, <2>5, <2>6, <2>7, <2>8 DEF CallStep
<1>2. ASSUME NEW c \in Conn, NEW k \in Call, ReceiveReply(c, k)
      PROVE  PendingIsExact' /\ CallShape' /\ AnswerReachesCaller'
  BY <1>2 DEF ReceiveReply, HandleResponse
<1>3. ASSUME NEW N, FailAll(N), UNCHANGED <<cpc, req, reply, out>>
      PROVE  PendingIsExact' /\ CallShape' /\ AnswerReachesCaller'
  BY <1>3 DEF FailAll, PendingOf
<1>4. CASE UNCHANGED callVars
  BY <1>4 DEF callVars
<1> QED BY <1>1, <1>2, <1>3, <1>4, CallsChange

-----------------------------------------------------------------------------
(* What handlers, locks and calls refer to.                                *)

LEMMA RefsStep ==
  ASSUME IInv, [Next]_vars, TypeOK'
  PROVE  HandlersRefer' /\ LocksRefer' /\ CallsRefer'
<1> USE DEF IInv
<1>1. \A d \in Conn : /\ Registered(d) => Registered(d)'
                      /\ pc[d] # "idle" => pc'[d] # "idle" /\ nodeOf'[d] = nodeOf[d]
  BY HandlersAdvance
<1>2. HandlersRefer'
  <2>1. ASSUME NEW c \in Conn, NEW n \in Node, Dial(c, n) PROVE HandlersRefer'
    BY <1>1, <2>1 DEF HandlersRefer, Dial, TypeOK
  <2>2. ASSUME NEW c \in Conn, Handler(c) PROVE HandlersRefer'
    <3>1. CASE AcceptFirst(c) \/ OldClosed(c)
      BY <1>1, <3>1 DEF AcceptFirst, OldClosed, Register, HandlersRefer, TypeOK,
         Registered, Serving
    <3>2. CASE AcceptReconnect(c) \/ AcceptFails(c) \/ IfaceSent(c)
      BY <1>1, <3>2 DEF AcceptReconnect, AcceptFails, IfaceSent, HandlersRefer, TypeOK
    <3>3. CASE ReceiveFails(c) \/ PingWithoutLock(c) \/ PongFails(c)
      BY <1>1, <3>3 DEF ReceiveFails, PingWithoutLock, PongFails, Finally,
         HandlersRefer, TypeOK
    <3>4. CASE ReceivePing(c)
      BY <1>1, <3>4 DEF ReceivePing, HandlersRefer, LocksRefer, TypeOK
    <3>5. CASE PongLocked(c) \/ PongSent(c)
      BY <1>1, <3>5 DEF PongLocked, PongSent, HandlersRefer, TypeOK
    <3>6. CASE ReceiveMetrics(c) \/ \E k \in Call : ReceiveReply(c, k)
      BY <3>6 DEF ReceiveMetrics, ReceiveReply, wsVars, HandlersRefer, Registered
    <3> QED BY <2>2, <3>1, <3>2, <3>3, <3>4, <3>5, <3>6 DEF Handler
  <2>3. CASE UNCHANGED <<pc, nodeOf, wlock>>
    BY <2>3 DEF HandlersRefer, Registered
  <2> QED BY <2>1, <2>2, <2>3, HandlersChange
<1>3. LocksRefer'
  <2>1. ASSUME NEW n \in Node, locks'[n] # None, locks'[n] # locks[n]
        PROVE  pc'[locks'[n]] \in Serving
    <3>1. PICK c \in Conn : AcceptFirst(c) \/ OldClosed(c)
      BY <2>1, TablesChange
    <3>2. locks'[n] = c
      BY <2>1, <3>1 DEF AcceptFirst, OldClosed, Register, TypeOK
    <3>3. pc'[c] \in Serving
      BY <3>1 DEF AcceptFirst, OldClosed, Register, TypeOK, Serving
    <3> QED BY <3>2, <3>3
  <2>2. ASSUME NEW n \in Node, locks'[n] # None
        PROVE  pc'[locks'[n]] \in Serving \cup {"done"}
    <3>1. CASE locks'[n] = locks[n]
      BY <1>1, <2>2, <3>1 DEF LocksRefer, Registered, TypeOK
    <3>2. CASE locks'[n] # locks[n]
      BY <2>1, <2>2, <3>2
    <3> QED BY <3>1, <3>2
  <2> QED BY <2>2 DEF LocksRefer, Registered
<1>4. CallsRefer'
  <2>1. ASSUME NEW k \in Call, req'[k] # NoReq, req'[k] = req[k]
        PROVE  /\ nodeOf'[req'[k].ws] = req'[k].node
               /\ pc'[req'[k].ws] \in Serving \cup {"done"}
    <3>1. req[k].ws \in Conn /\ Registered(req[k].ws)
      BY <2>1 DEF CallsRefer, TypeOK, CallTypeOK, Req
    <3>2. pc[req[k].ws] # "idle"
      BY <3>1 DEF Registered, Serving
    <3> QED BY <1>1, <2>1, <3>1, <3>2 DEF CallsRefer, Registered
  <2>2. ASSUME NEW k \in Call, req'[k] # NoReq, req'[k] # req[k]
        PROVE  /\ nodeOf'[req'[k].ws] = req'[k].node
               /\ pc'[req'[k].ws] \in Serving \cup {"done"}
    <3>1. CallStart(k)
      <4>1. \E j \in Call : CallStep(j)
        BY <2>2, CallsChange DEF ReceiveReply, callVars
      <4>2. PICK j \in Call : CallStart(j)
        BY <2>2, <4>1 DEF CallStep, CallLocks, CallSent, CallNotSent, CallReturn,
           CallExpires, CallTimeout, AgentReply, AcquireLock, SendSucceeds, SendFails,
           CallReturns, TimerFires, CallTimesOut, AgentAnswers
      <4>3. j = k
        BY <2>2, <4>2 DEF CallStart, StartCall, TypeOK, CallTypeOK
      <4> QED BY <4>2, <4>3
    <3>2. PICK n \in Node, kind \in {"rpc", "cmd"} : StartCall(k, n, kind)
      BY <3>1 DEF CallStart
    <3>3. /\ conns[n] # None
          /\ req'[k] = [kind |-> kind, node |-> n, ws |-> conns[n], lock |-> locks[n]]
      BY <2>2, <3>2 DEF StartCall, TypeOK, CallTypeOK
    <3>4. conns[n] \in Conn /\ nodeOf[conns[n]] = n /\ pc[conns[n]] \in Serving
      BY <3>3 DEF TablesAgree, TypeOK
    <3> QED BY <1>1, <3>3, <3>4 DEF Registered, Serving
  <2> QED BY <2>1, <2>2 DEF CallsRefer, Registered
<1> QED BY <1>2, <1>3, <1>4

-----------------------------------------------------------------------------
(* The tables, the samples and the calls of a handler.                     *)

(***************************************************************************)
(* A handler that serves stops serving only through its finally block.     *)
(***************************************************************************)
LEMMA ServingEnds ==
  ASSUME IInv, [Next]_vars, NEW d \in Conn, pc[d] \in Serving, pc'[d] \notin Serving
  PROVE  Finally(d)
<1> USE DEF IInv, TypeOK, Serving
<1>1. ~ \E c \in Conn, n \in Node : Dial(c, n)
  BY DEF Dial
<1>2. PICK c \in Conn : Handler(c)
  BY <1>1, HandlersChange
<1>3. ~ (AcceptFirst(c) \/ OldClosed(c))
  BY DEF AcceptFirst, OldClosed, Register
<1>4. ~ (AcceptReconnect(c) \/ AcceptFails(c) \/ IfaceSent(c))
  BY DEF AcceptReconnect, AcceptFails, IfaceSent
<1>5. ~ (ReceivePing(c) \/ PongLocked(c) \/ PongSent(c))
  BY DEF ReceivePing, PongLocked, PongSent
<1>6. ~ (ReceiveMetrics(c) \/ \E k \in Call : ReceiveReply(c, k))
  BY DEF ReceiveMetrics, ReceiveReply, wsVars
<1>7. Finally(c)
  BY <1>2, <1>3, <1>4, <1>5, <1>6 DEF Handler, ReceiveFails, PingWithoutLock, PongFails
<1>8. c = d
  BY <1>7 DEF Finally
<1> QED BY <1>7, <1>8

LEMMA TablesStep ==
  ASSUME IInv, [Next]_vars
  PROVE  TablesAgree'
<1> SUFFICES ASSUME NEW n \in Node, conns'[n] # None
             PROVE  /\ locks'[n] = conns'[n]
                    /\ nodeOf'[conns'[n]] = n
                    /\ pc'[conns'[n]] \in Serving
  BY DEF TablesAgree
<1> USE DEF IInv, TypeOK
<1>1. ASSUME NEW c \in Conn, AcceptFirst(c) \/ OldClosed(c)
      PROVE  /\ locks'[n] = conns'[n]
             /\ nodeOf'[conns'[n]] = n
             /\ pc'[conns'[n]] \in Serving
  <2>1. nodeOf[c] \in Node /\ Register(c, nodeOf[c]) /\ UNCHANGED nodeOf
    BY <1>1 DEF AcceptFirst, OldClosed, HandlersRefer
  <2>2. CASE n = nodeOf[c]
    BY <2>1, <2>2 DEF Register, Serving
  <2>3. CASE n # nodeOf[c]
    <3>1. conns'[n] = conns[n] /\ locks'[n] = locks[n] /\ conns[n] \in Conn
      BY <2>1, <2>3 DEF Register
    <3>2. conns[n] # c /\ pc[conns[n]] \in Serving /\ nodeOf[conns[n]] = n
      BY <3>1, <2>3 DEF TablesAgree
    <3>3. pc'[conns[n]] = pc[conns[n]]
      BY <2>1, <3>1, <3>2 DEF Register
    <3> QED BY <2>1, <3>1, <3>2, <3>3 DEF TablesAgree
  <2> QED BY <2>2, <2>3
<1>2. ASSUME /\ conns'[n] \in {conns[n], None}
             /\ locks'[n] \in {locks[n], None}
             /\ locks'[n] # locks[n] => conns'[n] = None
      PROVE  /\ locks'[n] = conns'[n]
             /\ nodeOf'[conns'[n]] = n
             /\ pc'[conns'[n]] \in Serving
  <2>1. /\ conns'[n] = conns[n] /\ locks'[n] = conns[n] /\ conns[n] \in Conn
        /\ nodeOf[conns[n]] = n /\ pc[conns[n]] \in Serving
    BY <1>2 DEF TablesAgree
  <2>2. nodeOf'[conns[n]] = n
    BY <2>1, HandlersAdvance DEF Serving
  <2>3. pc'[conns[n]] \in Serving
    <3>1. ~ Finally(conns[n])
      BY <2>1 DEF Finally
    <3> QED BY <2>1, <3>1, ServingEnds
  <2> QED BY <2>1, <2>2, <2>3
<1> QED BY <1>1, <1>2, TablesChange

LEMMA MetricsStep ==
  ASSUME IInv, [Next]_vars
  PROVE  MetricsFromLiveHandler'
<1> USE DEF IInv, TypeOK
<1> SUFFICES ASSUME NEW n \in Node, metrics'[n] # None
             PROVE  pc'[metrics'[n]] \in Serving /\ nodeOf'[metrics'[n]] = n
  BY DEF MetricsFromLiveHandler
<1>1. CASE metrics'[n] = metrics[n]
  <2>1. metrics[n] \in Conn /\ pc[metrics[n]] \in Serving /\ nodeOf[metrics[n]] = n
    BY <1>1 DEF MetricsFromLiveHandler
  <2>2. ~ Finally(metrics[n])
    BY <1>1, <2>1 DEF Finally
  <2> QED BY <1>1, <2>1, <2>2, ServingEnds, HandlersAdvance DEF Serving
<1>2. CASE metrics'[n] # metrics[n]
  <2>1. PICK c \in Conn : Handler(c)
    BY <1>2 DEF Next, Dial, AgentGone, DetectGone, CallStep, CallStart, CallLocks, CallSent,
       CallNotSent, CallReturn, CallExpires, CallTimeout, AgentReply, hubVars, Disconnect,
       Disconnected, LastSeenExpires, SweepBegins, SweepResumes, vars
  <2>2. ~ Finally(c)
    BY <1>2 DEF Finally
  <2>3. ReceiveMetrics(c)
    BY <1>2, <2>1, <2>2 DEF Handler, AcceptFirst, AcceptReconnect, OldClosed, AcceptFails,
       IfaceSent, ReceiveFails, ReceivePing, PingWithoutLock, PongLocked, PongSent,
       PongFails, ReceiveReply
  <2>4. metrics'[n] = c /\ nodeOf[c] = n
    BY <1>2, <2>3 DEF ReceiveMetrics
  <2> QED BY <2>3, <2>4 DEF ReceiveMetrics, wsVars, Serving
<1> QED BY <1>1, <1>2

LEMMA NobodyWaitsStep ==
  ASSUME IInv, [Next]_vars, CallTypeOK'
  PROVE  NobodyWaitsOnDeadHandler'
<1> USE DEF IInv, TypeOK, CallTypeOK
<1> SUFFICES ASSUME NEW k \in Call, k \in pending', fut'[k] = "open"
             PROVE  pc'[req'[k].ws] \in Serving
  BY DEF NobodyWaitsOnDeadHandler
<1>1. CASE k \in pending /\ fut[k] = "open" /\ req'[k] = req[k]
  <2>1. /\ req[k] # NoReq /\ req[k].ws \in Conn /\ req[k].node \in Node
        /\ nodeOf[req[k].ws] = req[k].node
        /\ pc[req[k].ws] \in Serving
    <3>1. req[k] # NoReq
      BY <1>1 DEF PendingIsExact, CallShape
    <3> QED BY <1>1, <3>1 DEF CallsRefer, NobodyWaitsOnDeadHandler, Req
  <2>2. ~ Finally(req[k].ws)
    BY <1>1, <2>1 DEF Finally, FailAll, PendingOf
  <2> QED BY <1>1, <2>1, <2>2, ServingEnds
<1>2. CASE ~ (k \in pending /\ fut[k] = "open" /\ req'[k] = req[k])
  <2>1. PICK j \in Call : CallStep(j)
    BY <1>2, CallsChange DEF ReceiveReply, HandleResponse, FailAll, PendingOf, callVars
  <2>2. CallStart(j)
    BY <1>2, <2>1 DEF CallStep, CallLocks, CallSent, CallNotSent, CallReturn,
       CallExpires, CallTimeout, AgentReply, AcquireLock, SendSucceeds, SendFails,
       CallReturns, TimerFires, CallTimesOut, AgentAnswers
  <2>3. PICK n \in Node, kind \in {"rpc", "cmd"} : StartCall(j, n, kind)
    BY <2>2 DEF CallStart
  <2>4. j = k /\ conns[n] # None /\ locks[n] # None
    BY <1>2, <2>3 DEF StartCall
  <2>5. req'[k].ws = conns[n]
    BY <2>3, <2>4 DEF StartCall
  <2>6. UNCHANGED pc
    BY <2>2 DEF CallStart, hubVars, wsVars
  <2> QED BY <2>4, <2>5, <2>6 DEF TablesAgree
<1> QED BY <1>1, <1>2

-----------------------------------------------------------------------------
(* The write locks.                                                        *)

LEMMA HoldersSame ==
  ASSUME \A l \in Conn : HeldOnce(l), UNCHANGED locked,
         \A l \in Conn : Holders(l)' = Holders(l)
  PROVE  \A l \in Conn : HeldOnce(l)'
BY DEF HeldOnce

LEMMA HolderEnters ==
  ASSUME \A l \in Conn : HeldOnce(l), locked \in [Conn -> BOOLEAN],
         NEW l0 \in Conn, NEW x, ~ locked[l0], locked' = [locked EXCEPT ![l0] = TRUE],
         \A l \in Conn : Holders(l)' = IF l = l0 THEN Holders(l) \cup {x} ELSE Holders(l)
  PROVE  \A l \in Conn : HeldOnce(l)'
<1>1. Holders(l0)' = {x} /\ locked'[l0]
  BY DEF HeldOnce
<1>2. HeldOnce(l0)'
  BY <1>1 DEF HeldOnce
<1>3. \A l \in Conn \ {l0} : HeldOnce(l)'
  BY DEF HeldOnce
<1> QED BY <1>2, <1>3

LEMMA HolderLeaves ==
  ASSUME \A l \in Conn : HeldOnce(l), locked \in [Conn -> BOOLEAN],
         NEW l0 \in Conn, NEW x \in Holders(l0), locked' = [locked EXCEPT ![l0] = FALSE],
         \A l \in Conn : Holders(l)' = IF l = l0 THEN Holders(l) \ {x} ELSE Holders(l)
  PROVE  \A l \in Conn : HeldOnce(l)'
<1>1. Holders(l0)' = {} /\ ~ locked'[l0]
  BY DEF HeldOnce
<1>2. HeldOnce(l0)'
  BY <1>1 DEF HeldOnce
<1>3. \A l \in Conn \ {l0} : HeldOnce(l)'
  BY DEF HeldOnce
<1> QED BY <1>2, <1>3

(***************************************************************************)
(* The lock that a registration makes is held by nobody yet.               *)
(***************************************************************************)
LEMMA NewLockIsFree ==
  ASSUME IInv, NEW c \in Conn, pc[c] \in {"accept", "closeOld"}
  PROVE  Holders(c) = {} /\ ~ locked[c]
<1>1. ~ Registered(c)
  BY DEF Registered, Serving
<1>2. \A d \in Conn : wlock[d] # c
  BY <1>1 DEF IInv, HandlersRefer
<1>3. \A k \in Call : cpc[k] = "send" => req[k].lock # c
  BY <1>1 DEF IInv, CallShape, CallsRefer, LocksAreExclusive
<1>4. Holders(c) = {}
  BY <1>2, <1>3 DEF Holders
<1> QED BY <1>4 DEF IInv, LocksAreExclusive, HeldOnce

LEMMA HandlerKeepsLocks ==
  ASSUME IInv, NEW c \in Conn, Handler(c)
  PROVE  \A l \in Conn : HeldOnce(l)'
<1> USE DEF IInv, TypeOK
<1>0. \A l \in Conn : HeldOnce(l)
  BY DEF LocksAreExclusive
<1>1. CASE AcceptFirst(c) \/ OldClosed(c)
  <2>1. Holders(c) = {} /\ ~ locked[c]
    BY <1>1, NewLockIsFree DEF AcceptFirst, OldClosed
  <2>2. Register(c, nodeOf[c]) /\ UNCHANGED callVars
    BY <1>1 DEF AcceptFirst, OldClosed
  <2>3. PICK hasIface \in BOOLEAN :
          /\ pc' = [pc EXCEPT ![c] = IF hasIface THEN "setIface" ELSE "recv"]
          /\ locked' = [locked EXCEPT ![c] = hasIface]
          /\ wlock' = [wlock EXCEPT ![c] = IF hasIface THEN c ELSE None]
    BY <2>2 DEF Register
  <2>4. CASE hasIface
    <3>1. \A l \in Conn : Holders(l)' = IF l = c THEN Holders(l) \cup {c} ELSE Holders(l)
      BY <1>1, <2>2, <2>3, <2>4 DEF Holders, callVars, AcceptFirst, OldClosed
    <3>2. Holders(c)' = {c} /\ locked'[c]
      BY <2>1, <2>3, <2>4, <3>1
    <3>3. \A l \in Conn \ {c} : Holders(l)' = Holders(l) /\ locked'[l] = locked[l]
      BY <2>3, <3>1
    <3>4. HeldOnce(c)'
      BY <3>2 DEF HeldOnce
    <3>5. \A l \in Conn \ {c} : HeldOnce(l)'
      BY <1>0, <3>3 DEF HeldOnce
    <3> QED BY <3>4, <3>5
  <2>5. CASE ~ hasIface
    <3>1. \A l \in Conn : Holders(l)' = Holders(l)
      BY <1>1, <2>2, <2>3, <2>5 DEF Holders, callVars, AcceptFirst, OldClosed
    <3>2. UNCHANGED locked
      BY <2>1, <2>3, <2>5
    <3> QED BY <1>0, <3>1, <3>2, HoldersSame
  <2> QED BY <2>4, <2>5
<1>2. CASE \/ AcceptReconnect(c) \/ AcceptFails(c) \/ ReceiveFails(c) \/ PingWithoutLock(c)
           \/ ReceiveMetrics(c) \/ \E k \in Call : ReceiveReply(c, k)
  <2>1. UNCHANGED <<locked, cpc, req>>
    BY <1>2 DEF AcceptReconnect, AcceptFails, ReceiveFails, PingWithoutLock, Finally,
       ReceiveMetrics, ReceiveReply, callVars
  <2>2. \/ UNCHANGED <<pc, wlock>>
        \/ /\ pc[c] \in {"accept", "recv"}
           /\ pc' \in {[pc EXCEPT ![c] = "done"], [pc EXCEPT ![c] = "closeOld"]}
           /\ wlock' \in {wlock, [wlock EXCEPT ![c] = None]}
    BY <1>2 DEF AcceptReconnect, AcceptFails, ReceiveFails, PingWithoutLock, Finally,
       ReceiveMetrics, ReceiveReply, wsVars
  <2>3. \A l \in Conn : Holders(l)' = Holders(l)
    BY <2>1, <2>2 DEF Holders
  <2> QED BY <1>0, <2>1, <2>3, HoldersSame
<1>3. CASE IfaceSent(c) \/ PongSent(c) \/ PongFails(c)
  <2>1. wlock[c] \in Conn /\ pc[c] \in {"setIface", "pongSend"}
    BY <1>3 DEF IfaceSent, PongSent, PongFails, HandlersRefer
  <2>2. locked' = [locked EXCEPT ![wlock[c]] = FALSE]
    BY <1>3 DEF IfaceSent, PongSent, PongFails, HandlersRefer
  <2>3. /\ UNCHANGED <<cpc, req>>
        /\ pc' \in {[pc EXCEPT ![c] = "recv"], [pc EXCEPT ![c] = "done"]}
        /\ wlock' = [wlock EXCEPT ![c] = None]
    BY <1>3 DEF IfaceSent, PongSent, PongFails, Finally, callVars
  <2>4. c \in Holders(wlock[c])
    BY <2>1 DEF Holders
  <2>5. \A l \in Conn :
          Holders(l)' = IF l = wlock[c] THEN Holders(l) \ {c} ELSE Holders(l)
    BY <2>1, <2>3 DEF Holders
  <2> QED BY <1>0, <2>1, <2>2, <2>4, <2>5, HolderLeaves
<1>4. CASE ReceivePing(c)
  <2> DEFINE l0 == locks[nodeOf[c]]
  <2>1. l0 \in Conn
    BY <1>4 DEF ReceivePing, HandlersRefer
  <2>2. /\ pc[c] = "recv"
        /\ UNCHANGED <<cpc, req>>
        /\ wlock' = [wlock EXCEPT ![c] = l0]
        /\ locked' = [locked EXCEPT ![l0] = TRUE]
        /\ pc' = [pc EXCEPT ![c] = IF locked[l0] THEN "pongLock" ELSE "pongSend"]
    BY <1>4 DEF ReceivePing, callVars
  <2> HIDE DEF l0
  <2>3. CASE locked[l0]
    <3>1. \A l \in Conn : Holders(l)' = Holders(l)
      BY <2>1, <2>2, <2>3 DEF Holders
    <3>2. UNCHANGED locked
      BY <2>1, <2>2, <2>3
    <3> QED BY <1>0, <3>1, <3>2, HoldersSame
  <2>4. CASE ~ locked[l0]
    <3>1. \A l \in Conn : Holders(l)' = IF l = l0 THEN Holders(l) \cup {c} ELSE Holders(l)
      BY <2>1, <2>2, <2>4 DEF Holders
    <3> QED BY <1>0, <2>1, <2>2, <2>4, <3>1, HolderEnters
  <2> QED BY <2>3, <2>4
<1>5. CASE PongLocked(c)
  <2>1. wlock[c] \in Conn
    BY <1>5 DEF PongLocked, HandlersRefer
  <2>2. \A l \in Conn :
          Holders(l)' = IF l = wlock[c] THEN Holders(l) \cup {c} ELSE Holders(l)
    BY <1>5, <2>1 DEF PongLocked, Holders, callVars
  <2> QED BY <1>0, <1>5, <2>1, <2>2, HolderEnters DEF PongLocked
<1> QED BY <1>1, <1>2, <1>3, <1>4, <1>5 DEF Handler

LEMMA CallKeepsLocks ==
  ASSUME IInv, NEW k \in Call, CallStep(k)
  PROVE  \A l \in Conn : HeldOnce(l)'
<1> USE DEF IInv, TypeOK, CallTypeOK
<1>0. \A l \in Conn : HeldOnce(l)
  BY DEF LocksAreExclusive
<1>1. UNCHANGED <<pc, wlock>>
  BY DEF CallStep, CallStart, CallLocks, CallSent, CallNotSent, CallReturn, CallExpires,
     CallTimeout, AgentReply, hubVars, wsVars
<1>2. CASE CallStart(k)
  <2>1. PICK n \in Node, kind \in {"rpc", "cmd"} : StartCall(k, n, kind)
    BY <1>2 DEF CallStart
  <2>2. CASE conns[n] = None \/ locks[n] = None
    <3>1. UNCHANGED <<req, locked>> /\ cpc[k] = "idle" /\ cpc' = [cpc EXCEPT ![k] = "done"]
      BY <2>1, <2>2 DEF StartCall
    <3>2. \A l \in Conn : Holders(l)' = Holders(l)
      BY <1>1, <3>1 DEF Holders
    <3> QED BY <1>0, <3>1, <3>2, HoldersSame
  <2>3. CASE ~ (conns[n] = None \/ locks[n] = None)
    <3> DEFINE l0 == locks[n]
    <3>1. l0 \in Conn
      BY <2>3
    <3>2. /\ cpc[k] = "idle"
          /\ req' = [req EXCEPT ![k] = [kind |-> kind, node |-> n, ws |-> conns[n], lock |-> l0]]
          /\ cpc' = [cpc EXCEPT ![k] = IF locked[l0] THEN "lock" ELSE "send"]
          /\ locked' = [locked EXCEPT ![l0] = TRUE]
      BY <2>1, <2>3 DEF StartCall
    <3> HIDE DEF l0
    <3>3. req'[k].lock = l0
      BY <3>2
    <3>4. CASE locked[l0]
      <4>1. \A l \in Conn : Holders(l)' = Holders(l)
        BY <1>1, <3>1, <3>2, <3>4 DEF Holders
      <4>2. UNCHANGED locked
        BY <3>1, <3>2, <3>4
      <4> QED BY <1>0, <4>1, <4>2, HoldersSame
    <3>5. CASE ~ locked[l0]
      <4>1. \A l \in Conn : Holders(l)' = IF l = l0 THEN Holders(l) \cup {k} ELSE Holders(l)
        BY <1>1, <3>1, <3>2, <3>3, <3>5 DEF Holders
      <4> QED BY <1>0, <3>1, <3>2, <3>5, <4>1, HolderEnters
    <3> QED BY <3>4, <3>5
  <2> QED BY <2>2, <2>3
<1>3. CASE CallLocks(k)
  <2>1. req[k].lock \in Conn
    BY <1>3 DEF CallLocks, AcquireLock, CallShape, Req
  <2>2. \A l \in Conn :
          Holders(l)' = IF l = req[k].lock THEN Holders(l) \cup {k} ELSE Holders(l)
    BY <1>1, <1>3, <2>1 DEF CallLocks, AcquireLock, Holders
  <2> QED BY <1>0, <1>3, <2>1, <2>2, HolderEnters DEF CallLocks, AcquireLock
<1>4. CASE CallSent(k) \/ CallNotSent(k)
  <2>1. req[k].lock \in Conn /\ cpc[k] = "send"
    BY <1>4 DEF CallSent, CallNotSent, SendSucceeds, SendFails, CallShape, Req
  <2>2. /\ UNCHANGED req
        /\ locked' = [locked EXCEPT ![req[k].lock] = FALSE]
        /\ cpc' \in {[cpc EXCEPT ![k] = "wait"], [cpc EXCEPT ![k] = "done"]}
    BY <1>4 DEF CallSent, CallNotSent, SendSucceeds, SendFails
  <2>3. k \in Holders(req[k].lock)
    BY <2>1 DEF Holders
  <2>4. \A l \in Conn :
          Holders(l)' = IF l = req[k].lock THEN Holders(l) \ {k} ELSE Holders(l)
    BY <1>1, <2>1, <2>2 DEF Holders
  <2> QED BY <1>0, <2>1, <2>2, <2>3, <2>4, HolderLeaves
<1>5. CASE CallReturn(k) \/ CallExpires(k) \/ CallTimeout(k) \/ AgentReply(k)
  <2>1. /\ UNCHANGED <<req, locked>>
        /\ \/ UNCHANGED cpc
           \/ /\ cpc[k] \in {"wait", "expired"}
              /\ cpc' \in {[cpc EXCEPT ![k] = "done"], [cpc EXCEPT ![k] = "expired"]}
    BY <1>5 DEF CallReturn, CallExpires, CallTimeout, AgentReply, CallReturns, TimerFires,
       CallTimesOut, AgentAnswers
  <2>2. \A l \in Conn : Holders(l)' = Holders(l)
    BY <1>1, <2>1 DEF Holders
  <2> QED BY <1>0, <2>1, <2>2, HoldersSame
<1> QED BY <1>2, <1>3, <1>4, <1>5 DEF CallStep

LEMMA LocksStep ==
  ASSUME IInv, [Next]_vars
  PROVE  LocksAreExclusive'
<1> USE DEF IInv, TypeOK, CallTypeOK
<1>0. \A l \in Conn : HeldOnce(l)
  BY DEF LocksAreExclusive
<1>1. \A l \in Conn : HeldOnce(l)'
  <2>1. CASE \E c \in Conn, n \in Node : Dial(c, n)
    <3>1. PICK c \in Conn, n \in Node : Dial(c, n)
      BY <2>1
    <3>2. \A l \in Conn : Holders(l)' = Holders(l)
      BY <3>1 DEF Dial, Holders, callVars
    <3> QED BY <1>0, <3>1, <3>2, HoldersSame DEF Dial
  <2>2. CASE \E c \in Conn : Handler(c)
    BY <2>2, HandlerKeepsLocks
  <2>3. CASE \E k \in Call : CallStep(k)
    BY <2>3, CallKeepsLocks
  <2>4. CASE \/ \E c \in Conn : AgentGone(c) \/ DetectGone(c)
             \/ \E n \in Node, kind \in Requests : Disconnect(n, kind)
             \/ \E n \in Node : Disconnected(n) \/ LastSeenExpires(n)
             \/ SweepBegins \/ SweepResumes \/ UNCHANGED vars
    <3>1. UNCHANGED <<locked, pc, wlock, cpc, req>>
      BY <2>4 DEF AgentGone, DetectGone, Disconnect, Disconnected, LastSeenExpires,
         SweepBegins, SweepResumes, vars, wsVars, callVars
    <3>2. \A l \in Conn : Holders(l)' = Holders(l)
      BY <3>1 DEF Holders
    <3> QED BY <1>0, <3>1, <3>2, HoldersSame
  <2> QED BY <2>1, <2>2, <2>3, <2>4 DEF Next
<1>2. ASSUME NEW k \in Call PROVE req'[k].lock = req'[k].ws
  <2>1. CASE req'[k] = req[k]
    BY <2>1 DEF LocksAreExclusive
  <2>2. CASE req'[k] # req[k]
    <3>1. PICK j \in Call : CallStep(j)
      BY <2>2, CallsChange DEF ReceiveReply, callVars
    <3>2. CallStart(j)
      BY <2>2, <3>1 DEF CallStep, CallLocks, CallSent, CallNotSent, CallReturn,
         CallExpires, CallTimeout, AgentReply, AcquireLock, SendSucceeds, SendFails,
         CallReturns, TimerFires, CallTimesOut, AgentAnswers
    <3>3. PICK n \in Node, kind \in {"rpc", "cmd"} : StartCall(j, n, kind)
      BY <3>2 DEF CallStart
    <3>4. /\ conns[n] # None
          /\ req'[k] = [kind |-> kind, node |-> n, ws |-> conns[n], lock |-> locks[n]]
      BY <2>2, <3>3 DEF StartCall
    <3> QED BY <3>4 DEF TablesAgree
  <2> QED BY <2>1, <2>2
<1> QED BY <1>1, <1>2 DEF LocksAreExclusive

-----------------------------------------------------------------------------
(* The theorems.                                                           *)

LEMMA InitInv == Init => IInv
<1> SUFFICES ASSUME Init PROVE IInv
  OBVIOUS
<1> USE DEF Init, CallInit
<1>1. TypeOK
  <2>1. CallTypeOK
    BY DEF CallTypeOK, CallState, FutState, ReplyState, Outcome
  <2> QED BY <2>1 DEF TypeOK, SockState, HandlerState, SweepIdle
<1>2. HandlersRefer /\ LocksRefer /\ CallsRefer /\ CallShape /\ AnswerReachesCaller
  BY DEF HandlersRefer, LocksRefer, CallsRefer, CallShape, AnswerReachesCaller
<1>3. TablesAgree /\ PendingIsExact /\ NobodyWaitsOnDeadHandler /\ MetricsFromLiveHandler
  BY DEF TablesAgree, PendingIsExact, NobodyWaitsOnDeadHandler, MetricsFromLiveHandler
<1>4. LocksAreExclusive
  <2>1. \A l \in Conn : Holders(l) = {}
    BY DEF Holders
  <2> QED BY <2>1 DEF LocksAreExclusive, HeldOnce, NoReq
<1> QED BY <1>1, <1>2, <1>3, <1>4 DEF IInv

LEMMA NextInv == IInv /\ [Next]_vars => IInv'
<1> SUFFICES ASSUME IInv, [Next]_vars PROVE IInv'
  OBVIOUS
<1>1. TypeOK'
  BY TypeStep
<1>2. PendingIsExact' /\ CallShape' /\ AnswerReachesCaller'
  BY PendingStep
<1>3. HandlersRefer' /\ LocksRefer' /\ CallsRefer'
  BY <1>1, RefsStep
<1>4. TablesAgree' /\ MetricsFromLiveHandler'
  BY TablesStep, MetricsStep
<1>5. NobodyWaitsOnDeadHandler'
  BY <1>1, NobodyWaitsStep DEF TypeOK
<1>6. LocksAreExclusive'
  BY LocksStep
<1> QED BY <1>1, <1>2, <1>3, <1>4, <1>5, <1>6 DEF IInv

(***************************************************************************)
(* The inductive invariant holds in every reachable state.                 *)
(***************************************************************************)
THEOREM Invariance == Spec => []IInv
<1>1. Init => IInv
  BY InitInv
<1>2. IInv /\ [Next]_vars => IInv'
  BY NextInv
<1> QED BY <1>1, <1>2, PTL DEF Spec

(***************************************************************************)
(* Every variable keeps its type.                                          *)
(***************************************************************************)
THEOREM TypeCorrect == Spec => []TypeOK
<1>1. IInv => TypeOK
  BY DEF IInv
<1> QED BY <1>1, Invariance, PTL

(***************************************************************************)
(* The two connection tables agree, whatever reconnects, sweeps and        *)
(* deletions overlap.                                                      *)
(***************************************************************************)
THEOREM TablesAlwaysAgree == Spec => []TablesAgree
<1>1. IInv => TablesAgree
  BY DEF IInv
<1> QED BY <1>1, Invariance, PTL

(***************************************************************************)
(* A write lock is taken exactly while one coroutine is inside its block.  *)
(***************************************************************************)
THEOREM LocksStayExclusive == Spec => []LocksAreExclusive
<1>1. IInv => LocksAreExclusive
  BY DEF IInv
<1> QED BY <1>1, Invariance, PTL

(***************************************************************************)
(* No call is lost from _pending and none leaks in it.                     *)
(***************************************************************************)
THEOREM PendingStaysExact == Spec => []PendingIsExact
<1>1. IInv => PendingIsExact
  BY DEF IInv
<1> QED BY <1>1, Invariance, PTL

(***************************************************************************)
(* No call waits on a connection whose handler has ended.                  *)
(***************************************************************************)
THEOREM NobodyIsLeftWaiting == Spec => []NobodyWaitsOnDeadHandler
<1>1. IInv => NobodyWaitsOnDeadHandler
  BY DEF IInv
<1> QED BY <1>1, Invariance, PTL

(***************************************************************************)
(* No sample outlives the handler that stored it.                          *)
(***************************************************************************)
THEOREM MetricsStayLive == Spec => []MetricsFromLiveHandler
<1>1. IInv => MetricsFromLiveHandler
  BY DEF IInv
<1> QED BY <1>1, Invariance, PTL

(***************************************************************************)
(* A caller that is given a result is given the agent's answer to it.      *)
(***************************************************************************)
THEOREM AnswersReachCallers == Spec => []AnswerReachesCaller
<1>1. IInv => AnswerReachesCaller
  BY DEF IInv
<1> QED BY <1>1, Invariance, PTL

(***************************************************************************)
(* A future is settled once and a caller is told once.                     *)
(***************************************************************************)
THEOREM FuturesSettleOnce == Spec => SettledOnce
<1> DEFINE Once == \A k \in Call : /\ fut[k] \in Settled => fut'[k] = fut[k]
                                   /\ out[k] # "none" => out'[k] = out[k]
<1>1. ASSUME IInv, [Next]_vars PROVE Once
  <2>1. /\ fut \in [Call -> FutState] /\ out \in [Call -> Outcome] /\ reply \in [Call -> ReplyState]
        /\ \A k \in Call : cpc[k] # "done" => out[k] = "none"
        /\ \A k \in Call : cpc[k] = "idle" => fut[k] = "none"
    BY <1>1 DEF IInv, TypeOK, CallTypeOK, CallShape
  <2>2. ASSUME NEW j \in Call, CallStep(j), NEW i \in Call
        PROVE  /\ fut[i] \in Settled => fut'[i] = fut[i]
               /\ out[i] # "none" => out'[i] = out[i]
    <3>1. CASE CallStart(j)
      BY <2>1, <3>1 DEF CallStart, StartCall, Settled
    <3>2. CASE CallLocks(j) \/ CallSent(j) \/ CallNotSent(j)
      BY <2>1, <3>2 DEF CallLocks, CallSent, CallNotSent, AcquireLock, SendSucceeds, SendFails
    <3>3. CASE CallReturn(j) \/ CallTimeout(j) \/ AgentReply(j)
      BY <2>1, <3>3 DEF CallReturn, CallTimeout, AgentReply, CallReturns, CallTimesOut,
         AgentAnswers
    <3>4. CASE CallExpires(j)
      BY <2>1, <3>4 DEF CallExpires, TimerFires, Settled
    <3> QED BY <2>2, <3>1, <3>2, <3>3, <3>4 DEF CallStep
  <2>3. ASSUME NEW c \in Conn, NEW j \in Call, ReceiveReply(c, j) PROVE Once
    BY <2>1, <2>3 DEF ReceiveReply, HandleResponse, Settled
  <2>4. ASSUME NEW N, FailAll(N), UNCHANGED <<cpc, req, reply, out>> PROVE Once
    BY <2>1, <2>4 DEF FailAll, Settled
  <2>5. CASE UNCHANGED callVars
    BY <2>5 DEF callVars
  <2> QED BY <1>1, <2>2, <2>3, <2>4, <2>5, CallsChange
<1>2. Spec => [][IInv /\ Once]_vars
  <2>1. IInv /\ [Next]_vars => [IInv /\ Once]_vars
    BY <1>1
  <2> QED BY <2>1, Invariance, PTL DEF Spec
<1>3. [IInv /\ Once]_vars => [Once]_vars
  OBVIOUS
<1> QED BY <1>2, <1>3, PTL DEF SettledOnce

(***************************************************************************)
(* The RPC channel over the hub implements the service of RpcService.      *)
(***************************************************************************)
THEOREM HubImplementsService == Spec => ImplementsService
<1> DEFINE st == [k \in Call |-> IF req[k] = NoReq
                                 THEN IF cpc[k] = "idle" THEN "idle" ELSE "refused"
                                 ELSE IF cpc[k] = "done" THEN "done" ELSE req[k].kind]
<1>1. Init => Service!Init
  BY DEF Init, CallInit, Service!Init
<1>2. ASSUME IInv, [Next]_vars PROVE [Service!Next]_(Service!vars)
  <2>1. /\ cpc \in [Call -> CallState] /\ out \in [Call -> Outcome]
        /\ req \in [Call -> Req \cup {NoReq}]
        /\ \A k \in Call : fut[k] \in {"ok", "err"} => reply[k] = fut[k]
        /\ \A k \in Call : cpc[k] \notin {"idle", "done"} =>
                             req[k] # NoReq /\ req[k].kind \in {"rpc", "cmd"}
        /\ \A k \in Call : cpc[k] = "idle" => req[k] = NoReq
        /\ NoReq.kind = "none"
        /\ \A k \in Call : cpc[k] \in {"wait", "expired"} => req[k].kind = "rpc"
    BY <1>2 DEF IInv, TypeOK, CallTypeOK, CallShape, CallState, Req, NoReq
  <2>2. ASSUME NEW k \in Call, NEW x \in CallState, cpc' = [cpc EXCEPT ![k] = x], UNCHANGED req
        PROVE  st' = [st EXCEPT ![k] = IF req[k] = NoReq
                                       THEN IF x = "idle" THEN "idle" ELSE "refused"
                                       ELSE IF x = "done" THEN "done" ELSE req[k].kind]
    BY <2>1, <2>2
  <2>3. \A k \in Call : /\ cpc[k] = "idle" => st[k] = "idle"
                        /\ cpc[k] = "done" /\ req[k] # NoReq => st[k] = "done"
                        /\ cpc[k] \notin {"idle", "done"} => st[k] = req[k].kind
    BY <2>1
  <2>4. ASSUME NEW k \in Call, CallStep(k) PROVE [Service!Next]_(Service!vars)
    <3>1. CASE CallStart(k)
      <4>1. PICK n \in Node, kind \in {"rpc", "cmd"} : StartCall(k, n, kind)
        BY <3>1 DEF CallStart
      <4>2. CASE conns[n] = None \/ locks[n] = None
        <5>1. Service!Refuse(k)
          BY <2>1, <2>2, <2>3, <4>1, <4>2 DEF StartCall, CallState, Service!Refuse
        <5> QED BY <5>1 DEF Service!Next
      <4>3. CASE ~ (conns[n] = None \/ locks[n] = None)
        <5>1. /\ cpc' = [cpc EXCEPT ![k] = IF locked[locks[n]] THEN "lock" ELSE "send"]
              /\ req' = [req EXCEPT ![k] = [kind |-> kind, node |-> n,
                                            ws |-> conns[n], lock |-> locks[n]]]
              /\ cpc[k] = "idle" /\ UNCHANGED <<out, reply>>
          BY <4>1, <4>3 DEF StartCall
        <5>2. req'[k] # NoReq /\ req'[k].kind = kind
          BY <2>1, <5>1
        <5>3. st' = [st EXCEPT ![k] = kind]
          BY <2>1, <5>1, <5>2
        <5>4. Service!Issue(k)
          BY <2>3, <5>1, <5>3 DEF Service!Issue
        <5> QED BY <5>4 DEF Service!Next
      <4> QED BY <4>2, <4>3
    <3>2. CASE CallLocks(k) \/ CallExpires(k)
      <4>1. UNCHANGED <<st, out, reply>>
        BY <2>1, <3>2 DEF CallLocks, CallExpires, AcquireLock, TimerFires
      <4> QED BY <4>1 DEF Service!vars
    <3>3. CASE CallSent(k)
      <4>1. CASE req[k].kind = "rpc"
        <5>1. UNCHANGED <<st, out, reply>>
          BY <2>1, <3>3, <4>1 DEF CallSent, SendSucceeds
        <5> QED BY <5>1 DEF Service!vars
      <4>2. CASE req[k].kind # "rpc"
        <5>1. Service!Tell(k)
          BY <2>1, <2>2, <2>3, <3>3, <4>2 DEF CallSent, SendSucceeds, CallState, Service!Tell,
             Service!OutcomesOf
        <5> QED BY <5>1 DEF Service!Next
      <4> QED BY <4>1, <4>2
    <3>4. CASE CallNotSent(k)
      <4>1. Service!Tell(k)
        BY <2>1, <2>2, <2>3, <3>4 DEF CallNotSent, SendFails, CallState, Service!Tell,
           Service!OutcomesOf
      <4> QED BY <4>1 DEF Service!Next
    <3>5. CASE CallReturn(k) \/ CallTimeout(k)
      <4>1. /\ cpc[k] \in {"wait", "expired"}
            /\ cpc' = [cpc EXCEPT ![k] = "done"]
            /\ UNCHANGED <<req, reply>>
        BY <3>5 DEF CallReturn, CallReturns, CallTimeout, CallTimesOut
      <4>2. st[k] = "rpc" /\ st' = [st EXCEPT ![k] = "done"]
        BY <2>1, <2>2, <2>3, <4>1 DEF CallState
      <4>3. \E o \in Service!OutcomesOf("rpc") : /\ o \in {"ok", "err"} => reply[k] = o
                                                /\ out' = [out EXCEPT ![k] = o]
        BY <2>1, <3>5 DEF CallReturn, CallReturns, CallTimeout, CallTimesOut, Service!OutcomesOf
      <4>4. Service!Tell(k)
        BY <4>1, <4>2, <4>3 DEF Service!Tell
      <4> QED BY <4>4 DEF Service!Next
    <3>6. CASE AgentReply(k)
      <4>1. Service!Answer(k)
        BY <2>1, <2>3, <3>6 DEF AgentReply, AgentAnswers, Service!Answer
      <4> QED BY <4>1 DEF Service!Next
    <3> QED BY <2>4, <3>1, <3>2, <3>3, <3>4, <3>5, <3>6 DEF CallStep
  <2>5. ASSUME UNCHANGED <<cpc, req, reply, out>> PROVE [Service!Next]_(Service!vars)
    BY <2>5 DEF Service!vars
  <2>6. UNCHANGED <<cpc, req, reply, out>> \/ \E k \in Call : CallStep(k)
    BY <1>2, CallsChange DEF ReceiveReply, callVars
  <2> QED BY <2>4, <2>5, <2>6
<1> QED BY <1>1, <1>2, Invariance, PTL DEF Spec, ImplementsService, Service!Spec

=============================================================================
