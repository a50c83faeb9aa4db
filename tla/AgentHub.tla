------------------------------ MODULE AgentHub ------------------------------
(***************************************************************************)
(* The panel's WebSocket hub: backend/ws/agents.py with the RPC channel of *)
(* AgentRpc, the requests that disconnect a node (backend/api/nodes.py)    *)
(* and the agent's end of a connection (agent/ws.go).                      *)
(*                                                                         *)
(* All of the panel's code here runs on one event loop, so an action is    *)
(* the code between two awaits.  A database session that opens, commits    *)
(* and closes without an await is part of its action; the sweep holds one  *)
(* session across awaits and commits at the end.                           *)
(***************************************************************************)
EXTENDS AgentRpc

OpKind == {"delete", "reset", "kick"}

CONSTANT Requests  \* the kinds of disconnecting request made of this instance

ASSUME RequestsAssumption == Requests \subseteq OpKind

VARIABLES
  metrics,  \* _metrics: the connection that reported the stored sample
  pc,       \* where the node_ws coroutine of a connection is
  nodeOf,   \* the node_id it authenticated as
  wlock,    \* the lock the handler waits for or holds
  row,      \* does the nodes row exist
  online,   \* agent_status = "online"
  fresh,    \* agent_last_seen within HEARTBEAT_TIMEOUT
  op,       \* a request that awaits the close of the node's connection
  sweep     \* the sweep_offline_loop task

tableVars == <<conns, locks>>
wsVars    == <<sock, pc, nodeOf, wlock>>
dbVars    == <<row, online, fresh>>
taskVars  == <<op, sweep>>
vars      == <<tableVars, locked, metrics, wsVars, dbVars, taskVars, callVars>>

HandlerState == {"idle", "accept", "closeOld", "setIface", "recv", "pongLock",
                 "pongSend", "done"}
\* After registration and before the finally block.
Serving      == {"setIface", "recv", "pongLock", "pongSend"}

SweepIdle == [at |-> None, todo |-> {}, marked |-> {}]

TypeOK ==
  /\ CallTypeOK
  /\ conns \in [Node -> Conn \cup {None}]
  /\ locks \in [Node -> Conn \cup {None}]
  /\ locked \in [Conn -> BOOLEAN]
  /\ metrics \in [Node -> Conn \cup {None}]
  /\ sock \in [Conn -> SockState]
  /\ pc \in [Conn -> HandlerState]
  /\ nodeOf \in [Conn -> Node \cup {None}]
  /\ wlock \in [Conn -> Conn \cup {None}]
  /\ row \in [Node -> BOOLEAN]
  /\ online \in [Node -> BOOLEAN]
  /\ fresh \in [Node -> BOOLEAN]
  /\ op \in [Node -> OpKind \cup {"none"}]
  /\ sweep \in [at : Node \cup {None}, todo : SUBSET Node, marked : SUBSET Node]

(***************************************************************************)
(* The process has just started: nothing in memory, and whatever an        *)
(* earlier process left in the database.                                   *)
(***************************************************************************)
Init ==
  /\ CallInit
  /\ conns = [n \in Node |-> None]
  /\ locks = [n \in Node |-> None]
  /\ locked = [c \in Conn |-> FALSE]
  /\ metrics = [n \in Node |-> None]
  /\ sock = [c \in Conn |-> "none"]
  /\ pc = [c \in Conn |-> "idle"]
  /\ nodeOf = [c \in Conn |-> None]
  /\ wlock = [c \in Conn |-> None]
  /\ row = [n \in Node |-> TRUE]
  /\ online \in [Node -> BOOLEAN]
  /\ fresh \in [Node -> BOOLEAN]
  /\ op = [n \in Node |-> "none"]
  /\ sweep = SweepIdle

-----------------------------------------------------------------------------
(* The agent, the network and the clock.                                   *)

(***************************************************************************)
(* runLoop dials when serveConn of its last connection has returned, and   *)
(* _authenticate accepts it.  (A refused dial leaves no state behind.)     *)
(***************************************************************************)
Dial(c, n) ==
  /\ pc[c] = "idle"
  /\ row[n]
  /\ \A d \in Conn : nodeOf[d] = n => sock[d] # "open"
  /\ nodeOf' = [nodeOf EXCEPT ![c] = n]
  /\ sock' = [sock EXCEPT ![c] = "open"]
  /\ pc' = [pc EXCEPT ![c] = "accept"]
  /\ UNCHANGED <<tableVars, locked, metrics, wlock, dbVars, taskVars, callVars>>

AgentGone(c) ==
  /\ sock[c] = "open"
  /\ sock' = [sock EXCEPT ![c] = "half"]
  /\ UNCHANGED <<tableVars, locked, metrics, pc, nodeOf, wlock, dbVars, taskVars, callVars>>

DetectGone(c) ==
  /\ sock[c] = "half"
  /\ sock' = [sock EXCEPT ![c] = "eof"]
  /\ UNCHANGED <<tableVars, locked, metrics, pc, nodeOf, wlock, dbVars, taskVars, callVars>>

\* A minute without a ping from n.
LastSeenExpires(n) ==
  /\ fresh[n]
  /\ fresh' = [fresh EXCEPT ![n] = FALSE]
  /\ UNCHANGED <<tableVars, locked, metrics, wsVars, row, online, taskVars, callVars>>

-----------------------------------------------------------------------------
(* node_ws.                                                                *)

\* Mutated form: the lock of an earlier connection is kept (setdefault).
Register_ReusesLock(c, n) ==
  /\ conns' = [conns EXCEPT ![n] = c]
  /\ locks' = [locks EXCEPT ![n] = IF @ = None THEN c ELSE @]
  /\ online' = [online EXCEPT ![n] = row[n] \/ @]
  /\ fresh' = [fresh EXCEPT ![n] = row[n] \/ @]
  /\ pc' = [pc EXCEPT ![c] = "recv"]
  /\ UNCHANGED <<locked, wlock>>

(***************************************************************************)
(* Everything from the registration to the next await: the table, a new    *)
(* lock, _mark_status, and the set_iface frame if the row names one.       *)
(***************************************************************************)
Register(c, n) ==
  /\ conns' = [conns EXCEPT ![n] = c]
  /\ locks' = [locks EXCEPT ![n] = c]
  /\ online' = [online EXCEPT ![n] = row[n] \/ @]
  /\ fresh' = [fresh EXCEPT ![n] = row[n] \/ @]
  /\ \E hasIface \in BOOLEAN :
       /\ hasIface => row[n]
       /\ pc' = [pc EXCEPT ![c] = IF hasIface THEN "setIface" ELSE "recv"]
       /\ locked' = [locked EXCEPT ![c] = hasIface]
       /\ wlock' = [wlock EXCEPT ![c] = IF hasIface THEN c ELSE None]

\* accept returns and the node has no registered connection.
AcceptFirst(c) ==
  LET n == nodeOf[c] IN
  /\ pc[c] = "accept"
  /\ conns[n] = None
  /\ Register(c, n)
  /\ UNCHANGED <<metrics, sock, nodeOf, row, taskVars, callVars>>

\* accept returns and an older connection is registered: it is popped, its
\* calls fail, and old.close() is awaited.
AcceptReconnect(c) ==
  LET n == nodeOf[c] IN
  /\ pc[c] = "accept"
  /\ conns[n] # None
  /\ conns' = [conns EXCEPT ![n] = None]
  /\ FailAll({n})
  /\ sock' = [sock EXCEPT ![conns[n]] = "shut"]
  /\ pc' = [pc EXCEPT ![c] = "closeOld"]
  /\ UNCHANGED <<locks, locked, metrics, nodeOf, wlock, dbVars, taskVars, cpc, req, reply, out>>

\* old.close() returns.
OldClosed(c) ==
  /\ pc[c] = "closeOld"
  /\ Register(c, nodeOf[c])
  /\ UNCHANGED <<metrics, sock, nodeOf, row, taskVars, callVars>>

\* ws.accept raises because the peer has left: nothing was registered.
AcceptFails(c) ==
  /\ pc[c] = "accept"
  /\ sock[c] = "eof"
  /\ pc' = [pc EXCEPT ![c] = "done"]
  /\ sock' = [sock EXCEPT ![c] = "shut"]
  /\ UNCHANGED <<tableVars, locked, metrics, nodeOf, wlock, dbVars, taskVars, callVars>>

\* The set_iface frame is out, or its failure was logged and swallowed.
IfaceSent(c) ==
  /\ pc[c] = "setIface"
  /\ pc' = [pc EXCEPT ![c] = "recv"]
  /\ locked' = [locked EXCEPT ![c] = FALSE]
  /\ wlock' = [wlock EXCEPT ![c] = None]
  /\ UNCHANGED <<tableVars, metrics, sock, nodeOf, dbVars, taskVars, callVars>>

\* Mutated form: the lock is popped whatever is registered.
Finally_DropsLock(c) ==
  LET n       == nodeOf[c]
      current == conns[n] = c
  IN
  /\ conns' = [conns EXCEPT ![n] = IF current THEN None ELSE @]
  /\ locks' = [locks EXCEPT ![n] = None]
  /\ metrics' = [metrics EXCEPT ![n] = None]
  /\ FailAll({n})
  /\ online' = [online EXCEPT ![n] = @ /\ ~ (current /\ row[n])]
  /\ pc' = [pc EXCEPT ![c] = "done"]
  /\ sock' = [sock EXCEPT ![c] = "shut"]
  /\ wlock' = [wlock EXCEPT ![c] = None]
  /\ UNCHANGED <<nodeOf, row, taskVars, cpc, req, reply, out>>

\* Mutated form: the sample is dropped only by the registered connection.
Finally_OwnMetrics(c) ==
  LET n       == nodeOf[c]
      current == conns[n] = c
  IN
  /\ conns' = [conns EXCEPT ![n] = IF current THEN None ELSE @]
  /\ locks' = [locks EXCEPT ![n] = IF current THEN None ELSE @]
  /\ metrics' = [metrics EXCEPT ![n] = IF current THEN None ELSE @]
  /\ FailAll({n})
  /\ online' = [online EXCEPT ![n] = @ /\ ~ (current /\ row[n])]
  /\ pc' = [pc EXCEPT ![c] = "done"]
  /\ sock' = [sock EXCEPT ![c] = "shut"]
  /\ wlock' = [wlock EXCEPT ![c] = None]
  /\ UNCHANGED <<nodeOf, row, taskVars, cpc, req, reply, out>>

\* Mutated form: the calls in flight are left to their timers.
Finally_KeepsCalls(c) ==
  LET n       == nodeOf[c]
      current == conns[n] = c
  IN
  /\ conns' = [conns EXCEPT ![n] = IF current THEN None ELSE @]
  /\ locks' = [locks EXCEPT ![n] = IF current THEN None ELSE @]
  /\ metrics' = [metrics EXCEPT ![n] = None]
  /\ FailAll({})
  /\ online' = [online EXCEPT ![n] = @ /\ ~ (current /\ row[n])]
  /\ pc' = [pc EXCEPT ![c] = "done"]
  /\ sock' = [sock EXCEPT ![c] = "shut"]
  /\ wlock' = [wlock EXCEPT ![c] = None]
  /\ UNCHANGED <<nodeOf, row, taskVars, cpc, req, reply, out>>

(***************************************************************************)
(* The finally block of node_ws, and uvicorn closing what is still open.   *)
(***************************************************************************)
Finally(c) ==
  LET n       == nodeOf[c]
      current == conns[n] = c
  IN
  /\ conns' = [conns EXCEPT ![n] = IF current THEN None ELSE @]
  /\ locks' = [locks EXCEPT ![n] = IF current THEN None ELSE @]
  /\ metrics' = [metrics EXCEPT ![n] = None]
  /\ FailAll({n})
  /\ online' = [online EXCEPT ![n] = @ /\ ~ (current /\ row[n])]
  /\ pc' = [pc EXCEPT ![c] = "done"]
  /\ sock' = [sock EXCEPT ![c] = "shut"]
  /\ wlock' = [wlock EXCEPT ![c] = None]
  /\ UNCHANGED <<nodeOf, row, taskVars, cpc, req, reply, out>>

\* receive_text raises WebSocketDisconnect, or RuntimeError after a close.
ReceiveFails(c) ==
  /\ pc[c] = "recv"
  /\ sock[c] \in {"eof", "shut"}
  /\ Finally(c)
  /\ UNCHANGED <<fresh, locked>>

\* A ping: last_seen is stored, then the lock is looked up by node id.
ReceivePing(c) ==
  LET n == nodeOf[c] IN
  /\ pc[c] = "recv"
  /\ sock[c] = "open"
  /\ locks[n] # None
  /\ fresh' = [fresh EXCEPT ![n] = row[n] \/ @]
  /\ wlock' = [wlock EXCEPT ![c] = locks[n]]
  /\ pc' = [pc EXCEPT ![c] = IF locked[locks[n]] THEN "pongLock" ELSE "pongSend"]
  /\ locked' = [locked EXCEPT ![locks[n]] = TRUE]
  /\ UNCHANGED <<tableVars, metrics, sock, nodeOf, row, online, taskVars, callVars>>

\* Mutated form: a missing lock only skips the pong.
PingWithoutLock_Ignored(c) ==
  /\ pc[c] = "recv"
  /\ sock[c] = "open"
  /\ locks[nodeOf[c]] = None
  /\ fresh' = [fresh EXCEPT ![nodeOf[c]] = row[nodeOf[c]] \/ @]
  /\ UNCHANGED <<tableVars, locked, metrics, wsVars, row, online, taskVars, callVars>>

\* The same with no lock under that id: KeyError ends the handler.
PingWithoutLock(c) ==
  LET n == nodeOf[c] IN
  /\ pc[c] = "recv"
  /\ sock[c] = "open"
  /\ locks[n] = None
  /\ fresh' = [fresh EXCEPT ![n] = row[n] \/ @]
  /\ Finally(c)
  /\ UNCHANGED locked

PongLocked(c) ==
  /\ pc[c] = "pongLock"
  /\ ~ locked[wlock[c]]
  /\ locked' = [locked EXCEPT ![wlock[c]] = TRUE]
  /\ pc' = [pc EXCEPT ![c] = "pongSend"]
  /\ UNCHANGED <<tableVars, metrics, sock, nodeOf, wlock, dbVars, taskVars, callVars>>

PongSent(c) ==
  /\ pc[c] = "pongSend"
  /\ Writable(c)
  /\ locked' = [locked EXCEPT ![wlock[c]] = FALSE]
  /\ wlock' = [wlock EXCEPT ![c] = None]
  /\ pc' = [pc EXCEPT ![c] = "recv"]
  /\ UNCHANGED <<tableVars, metrics, sock, nodeOf, dbVars, taskVars, callVars>>

PongFails(c) ==
  /\ pc[c] = "pongSend"
  /\ ~ Writable(c)
  /\ locked' = [locked EXCEPT ![wlock[c]] = FALSE]
  /\ Finally(c)
  /\ UNCHANGED fresh

\* A metrics frame, possibly one that was in flight when the peer left.
ReceiveMetrics(c) ==
  /\ pc[c] = "recv"
  /\ metrics' = [metrics EXCEPT ![nodeOf[c]] = c]
  /\ UNCHANGED <<tableVars, locked, wsVars, dbVars, taskVars, callVars>>

\* An rpc_resp frame, likewise.
ReceiveReply(c, k) ==
  /\ pc[c] = "recv"
  /\ req[k].ws = c
  /\ reply[k] \in {"ok", "err"}
  /\ HandleResponse(k)
  /\ UNCHANGED <<tableVars, locked, metrics, wsVars, dbVars, taskVars, cpc, req, reply, out>>

-----------------------------------------------------------------------------
(* Requests that disconnect a node.                                        *)

(***************************************************************************)
(* disconnect_node up to its await, for DELETE /nodes/{id} and a forced    *)
(* uninstall ("delete"), a successful uninstall that keeps the row         *)
(* ("reset") and a failed one ("kick").                                    *)
(***************************************************************************)
DisconnectNode(n) ==
  /\ conns' = [conns EXCEPT ![n] = None]
  /\ locks' = [locks EXCEPT ![n] = None]
  /\ FailAll({n})
  /\ sock' = [c \in Conn |-> IF c = conns[n] THEN "shut" ELSE sock[c]]

(***************************************************************************)
(* What the request commits after disconnect_node.  The row object was     *)
(* loaded before the uninstall ran, and SQLAlchemy writes agent_status     *)
(* only if the loaded value differs from "offline".                        *)
(***************************************************************************)
Commit(n, kind) ==
  \/ /\ kind = "delete"
     /\ row' = [row EXCEPT ![n] = FALSE]
     /\ online' = [online EXCEPT ![n] = FALSE]
     /\ fresh' = [fresh EXCEPT ![n] = FALSE]
  \/ /\ kind = "reset"
     /\ \E loadedOnline \in BOOLEAN :
          online' = [online EXCEPT ![n] = @ /\ ~ loadedOnline]
     /\ fresh' = [fresh EXCEPT ![n] = FALSE]
     /\ UNCHANGED row
  \/ /\ kind = "kick"
     /\ UNCHANGED dbVars

Disconnect(n, kind) ==
  /\ row[n]
  /\ op[n] = "none"
  /\ DisconnectNode(n)
  /\ IF conns[n] = None
     THEN Commit(n, kind) /\ UNCHANGED op
     ELSE op' = [op EXCEPT ![n] = kind] /\ UNCHANGED dbVars
  /\ UNCHANGED <<locked, metrics, pc, nodeOf, wlock, sweep, cpc, req, reply, out>>

Disconnected(n) ==
  /\ op[n] # "none"
  /\ Commit(n, op[n])
  /\ op' = [op EXCEPT ![n] = "none"]
  /\ UNCHANGED <<tableVars, locked, metrics, wsVars, sweep, callVars>>

-----------------------------------------------------------------------------
(* sweep_offline_loop.                                                     *)

(***************************************************************************)
(* The loop over the stale nodes S from one await to the next, with M      *)
(* already marked in the session and T the connection table: either it     *)
(* meets a node that is connected and awaits its close, or it reaches the  *)
(* commit.  A marked row that was deleted meanwhile makes the commit fail  *)
(* as a whole.  popped is the node whose connection was just popped.       *)
(***************************************************************************)
SweepOn(S, M, T, popped) ==
  \/ /\ \A n \in S : T[n] = None
     /\ FailAll(S \cup popped)
     /\ online' = [n \in Node |->
                     online[n] /\ ~ (n \in M \cup S /\ \A m \in M \cup S : row[m])]
     /\ sweep' = SweepIdle
     /\ UNCHANGED sock
  \/ /\ \E m \in S : \E D \in SUBSET {n \in S : T[n] = None} :
          /\ T[m] # None
          /\ FailAll(D \cup popped)
          /\ sock' = [sock EXCEPT ![T[m]] = "shut"]
          /\ sweep' = [at |-> m, todo |-> S \ (D \cup {m}), marked |-> M \cup D]
     /\ UNCHANGED online

\* Mutated form: only nodes in the connection table are swept.
SweepBegins_Connected ==
  LET stale == {n \in Node : row[n] /\ online[n] /\ ~ fresh[n] /\ conns[n] # None} IN
  /\ sweep.at = None
  /\ stale # {}
  /\ SweepOn(stale, {}, conns, {})
  /\ UNCHANGED <<tableVars, locked, metrics, pc, nodeOf, wlock, row, fresh, op,
                 cpc, req, reply, out>>

SweepBegins ==
  LET stale == {n \in Node : row[n] /\ online[n] /\ ~ fresh[n]} IN
  /\ sweep.at = None
  /\ stale # {}
  /\ SweepOn(stale, {}, conns, {})
  /\ UNCHANGED <<tableVars, locked, metrics, pc, nodeOf, wlock, row, fresh, op,
                 cpc, req, reply, out>>

\* The awaited close returns: the node's entries are popped by id.
SweepResumes ==
  LET m == sweep.at IN
  /\ m # None
  /\ conns' = [conns EXCEPT ![m] = None]
  /\ locks' = [locks EXCEPT ![m] = None]
  /\ SweepOn(sweep.todo, sweep.marked \cup {m}, conns', {m})
  /\ UNCHANGED <<locked, metrics, pc, nodeOf, wlock, row, fresh, op,
                 cpc, req, reply, out>>

-----------------------------------------------------------------------------
(* Calls, with the rest of the hub left alone.                             *)

hubVars == <<tableVars, metrics, wsVars, dbVars, taskVars>>

CallStart(k)   == /\ \E n \in Node, kind \in {"rpc", "cmd"} : StartCall(k, n, kind)
                  /\ UNCHANGED hubVars
CallLocks(k)   == AcquireLock(k)  /\ UNCHANGED hubVars
CallSent(k)    == SendSucceeds(k) /\ UNCHANGED hubVars
CallNotSent(k) == SendFails(k)    /\ UNCHANGED hubVars
CallReturn(k)  == CallReturns(k)  /\ UNCHANGED <<hubVars, locked>>
CallExpires(k) == TimerFires(k)   /\ UNCHANGED <<hubVars, locked>>
CallTimeout(k) == CallTimesOut(k) /\ UNCHANGED <<hubVars, locked>>
AgentReply(k)  == AgentAnswers(k) /\ UNCHANGED <<hubVars, locked>>

Handler(c) ==
  \/ AcceptFirst(c) \/ AcceptReconnect(c) \/ OldClosed(c) \/ AcceptFails(c)
  \/ IfaceSent(c) \/ ReceiveFails(c) \/ ReceivePing(c) \/ PingWithoutLock(c)
  \/ PongLocked(c) \/ PongSent(c) \/ PongFails(c) \/ ReceiveMetrics(c)
  \/ \E k \in Call : ReceiveReply(c, k)

CallStep(k) ==
  \/ CallStart(k) \/ CallLocks(k) \/ CallSent(k) \/ CallNotSent(k)
  \/ CallReturn(k) \/ CallExpires(k) \/ CallTimeout(k) \/ AgentReply(k)

Next ==
  \/ \E c \in Conn, n \in Node : Dial(c, n)
  \/ \E c \in Conn : AgentGone(c) \/ DetectGone(c) \/ Handler(c)
  \/ \E k \in Call : CallStep(k)
  \/ \E n \in Node, kind \in Requests : Disconnect(n, kind)
  \/ \E n \in Node : Disconnected(n) \/ LastSeenExpires(n)
  \/ SweepBegins
  \/ SweepResumes

Spec == Init /\ [][Next]_vars

-----------------------------------------------------------------------------
(* Safety.                                                                 *)

\* A coroutine holds or waits for lock l.
Holders(l) == {c \in Conn : pc[c] \in {"setIface", "pongSend"} /\ wlock[c] = l}
                \cup {k \in Call : cpc[k] = "send" /\ req[k].lock = l}

(***************************************************************************)
(* The connection registered for a node belongs to that node, has a        *)
(* handler that is past its registration and before its finally block, and *)
(* the lock under the same id is the one made with it.  Five places change *)
(* one or both tables (node_ws twice, its finally block, disconnect_node,  *)
(* the sweep), three of them after an await.                               *)
(***************************************************************************)
TablesAgree ==
  \A n \in Node : conns[n] # None =>
    /\ locks[n] = conns[n]
    /\ nodeOf[conns[n]] = n
    /\ pc[conns[n]] \in Serving

(***************************************************************************)
(* A write lock is taken exactly when one coroutine is inside its async    *)
(* with block, and a caller captured the lock that was made with the       *)
(* WebSocket it writes to: the "serialised writes" of agents.py.           *)
(***************************************************************************)
HeldOnce(l) ==
  /\ locked[l] <=> Holders(l) # {}
  /\ \A x, y \in Holders(l) : x = y

LocksAreExclusive ==
  /\ \A l \in Conn : HeldOnce(l)
  /\ \A k \in Call : req[k].lock = req[k].ws

(***************************************************************************)
(* _pending holds exactly the calls that can still be settled from         *)
(* outside: no running call with an open future is missing from it (it     *)
(* could only time out) and no finished call is left in it (it would leak  *)
(* and a later frame would settle a future nobody awaits).                 *)
(***************************************************************************)
PendingIsExact ==
  /\ \A k \in Call : cpc[k] \in {"lock", "send", "wait"} /\ fut[k] = "open" => k \in pending
  /\ \A k \in pending : /\ cpc[k] \in {"lock", "send", "wait", "expired"}
                        /\ req[k].kind = "rpc"
                        /\ fut[k] \in {"open", "cancelled"}

(***************************************************************************)
(* When the handler of a connection has ended, no call that was sent on it *)
(* is still waiting: "on offline every in-flight future gets               *)
(* RemoteOffline".  A call may be waiting for the lock, sending or waiting *)
(* for its answer when that happens, and may have captured the connection  *)
(* before another one replaced it.                                         *)
(***************************************************************************)
NobodyWaitsOnDeadHandler ==
  \A k \in pending : fut[k] = "open" => pc[req[k].ws] \in Serving

(***************************************************************************)
(* The sample shown for a node came over a connection whose handler still  *)
(* runs.  The finally block drops it even when another connection is       *)
(* registered, because the old handler may have stored it last.            *)
(***************************************************************************)
MetricsFromLiveHandler ==
  \A n \in Node : metrics[n] # None =>
    pc[metrics[n]] \in Serving /\ nodeOf[metrics[n]] = n

(***************************************************************************)
(* A future is settled at most once (asyncio raises InvalidStateError      *)
(* otherwise, which would end the handler that read the late frame), and   *)
(* what a caller was told never changes.                                   *)
(***************************************************************************)
SettledOnce ==
  [][\A k \in Call : /\ fut[k] \in Settled => fut'[k] = fut[k]
                     /\ out[k] # "none" => out'[k] = out[k]]_vars

(***************************************************************************)
(* A caller that is given a result is given what the agent answered to     *)
(* that very request, although answers come in any order, late, and after  *)
(* reconnects.                                                             *)
(***************************************************************************)
AnswerReachesCaller ==
  \A k \in Call : out[k] \in {"ok", "err"} => fut[k] = out[k] /\ reply[k] = out[k]

(***************************************************************************)
(* The inductive invariant.  The tables, the captured pairs and the        *)
(* handlers refer only to connections whose handler got as far as its      *)
(* registration, so that nobody holds the lock that Register makes;        *)
(* CallShape ties a call's position to its future.                         *)
(***************************************************************************)
Registered(c) == pc[c] \in Serving \cup {"done"}

HandlersRefer ==
  \A c \in Conn :
    /\ pc[c] # "idle" => nodeOf[c] \in Node
    /\ pc[c] \in {"setIface", "pongLock", "pongSend"} => wlock[c] \in Conn
    /\ wlock[c] # None => Registered(wlock[c])
    /\ pc[c] = "setIface" => wlock[c] = c

LocksRefer == \A n \in Node : locks[n] # None => Registered(locks[n])

CallsRefer ==
  \A k \in Call : req[k] # NoReq => /\ nodeOf[req[k].ws] = req[k].node
                                    /\ Registered(req[k].ws)

CallShape ==
  \A k \in Call :
    /\ cpc[k] \in {"lock", "send", "wait", "expired"} => req[k] # NoReq
    /\ cpc[k] = "idle" => req[k] = NoReq /\ fut[k] = "none"
    /\ cpc[k] \in {"wait", "expired"} => req[k].kind = "rpc"
    /\ cpc[k] = "expired" => fut[k] = "cancelled"
    /\ cpc[k] \in {"lock", "send", "wait"} => fut[k] # "cancelled"
    /\ fut[k] \in {"ok", "err"} => reply[k] = fut[k]
    /\ out[k] # "none" => cpc[k] = "done"

IInv ==
  /\ TypeOK
  /\ HandlersRefer
  /\ LocksRefer
  /\ CallsRefer
  /\ CallShape
  /\ TablesAgree
  /\ LocksAreExclusive
  /\ PendingIsExact
  /\ NobodyWaitsOnDeadHandler
  /\ MetricsFromLiveHandler
  /\ AnswerReachesCaller

-----------------------------------------------------------------------------
(* The service the callers rely on.                                        *)

Service == INSTANCE RpcService WITH
  state    <- [k \in Call |-> IF req[k] = NoReq
                               THEN IF cpc[k] = "idle" THEN "idle" ELSE "refused"
                               ELSE IF cpc[k] = "done" THEN "done" ELSE req[k].kind],
  told     <- out,
  answered <- reply

(***************************************************************************)
(* The channel implements RpcService: whatever reconnects, timeouts and    *)
(* sweeps do, a call is answered at most once, its caller is told once,    *)
(* and never something the agent did not answer.                           *)
(***************************************************************************)
ImplementsService == Service!Spec

-----------------------------------------------------------------------------
(* Liveness.                                                               *)

(***************************************************************************)
(* What the event loop, uvicorn and the clock guarantee: a runnable        *)
(* coroutine runs, a send returns or raises and a close returns (bounded   *)
(* by uvicorn's keepalive and close timeouts), timers fire, a dead peer is *)
(* noticed by the keepalive, asyncio.Lock is FIFO (hence SF), the agent    *)
(* pings while its connection stands.  Nothing makes the agent dial,       *)
(* answer, or stay.                                                        *)
(***************************************************************************)
Fairness ==
  /\ \A c \in Conn :
       /\ WF_vars(AcceptFirst(c) \/ AcceptReconnect(c) \/ OldClosed(c) \/ IfaceSent(c))
       /\ WF_vars(DetectGone(c))
       /\ WF_vars(ReceiveFails(c))
       /\ WF_vars(ReceivePing(c) \/ PingWithoutLock(c))
       /\ WF_vars(PongSent(c) \/ PongFails(c))
       /\ SF_vars(PongLocked(c))
  /\ \A k \in Call :
       /\ WF_vars(CallSent(k) \/ CallNotSent(k))
       /\ WF_vars(CallReturn(k) \/ CallExpires(k) \/ CallTimeout(k))
       /\ SF_vars(CallLocks(k))
  /\ \A n \in Node : WF_vars(Disconnected(n)) /\ WF_vars(LastSeenExpires(n))
  /\ WF_vars(SweepBegins)
  /\ WF_vars(SweepResumes)

LiveSpec == Spec /\ Fairness

(***************************************************************************)
(* Every call and every command returns to its caller.                     *)
(***************************************************************************)
CallsReturn == \A k \in Call : cpc[k] # "idle" ~> cpc[k] = "done"

\* Some handler of n has not finished.
Served(n) == \E c \in Conn : nodeOf[c] = n /\ pc[c] \notin {"idle", "done"}

(***************************************************************************)
(* A node shown online that no handler serves (the panel was restarted, an *)
(* uninstall failed after its disconnect, the finally block was not that   *)
(* of the registered connection) is eventually shown offline: the sweep is *)
(* the safety net the docs promise.                                        *)
(***************************************************************************)
StaleOnlineIsSwept ==
  \A n \in Node : online[n] /\ ~ Served(n) ~> ~ online[n] \/ Served(n)

(***************************************************************************)
(* A connection that is served but not registered (two reconnects          *)
(* overlapped, or a sweep popped the entry of a newer connection by id)    *)
(* does not stay so: the panel could send it nothing, yet its pings would  *)
(* keep last_seen fresh for ever.                                          *)
(***************************************************************************)
OrphanEnds ==
  \A c \in Conn, n \in Node :
    pc[c] \in Serving /\ nodeOf[c] = n /\ conns[n] # c ~> pc[c] = "done" \/ conns[n] = c

-----------------------------------------------------------------------------
(* What comments and documents say, and the code does not keep.            *)

(***************************************************************************)
(* RemoteOffline means "agent not online / dropped" (agent_rpc.py): a      *)
(* future that gets it was sent on a connection that is registered no      *)
(* longer.                                                                 *)
(***************************************************************************)
OfflineMeansGone ==
  [][\A k \in Call : fut[k] = "open" /\ fut'[k] = "offline" =>
       conns'[req[k].node] # req[k].ws]_vars

(***************************************************************************)
(* A node that is killed and comes back "turns green again" (docs/03):     *)
(* a registered, heart-beating node does not stay offline.                 *)
(***************************************************************************)
ConnectedTurnsGreen ==
  \A n \in Node : row[n] /\ conns[n] # None ~> online[n] \/ conns[n] = None \/ ~ row[n]

=============================================================================
