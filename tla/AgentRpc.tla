------------------------------ MODULE AgentRpc ------------------------------
(***************************************************************************)
(* The RPC side of the agent channel: backend/deploy/agent_rpc.py and      *)
(* send_cmd of backend/ws/agents.py.  Every call is a coroutine on the one *)
(* asyncio event loop; it runs undisturbed up to its next await, so one    *)
(* action stands for the code between two awaits.                          *)
(*                                                                         *)
(* The connection table and the write locks belong to ws/agents.py; they   *)
(* are declared here because a call reads both, and AgentHub adds the      *)
(* handlers that change them.                                              *)
(***************************************************************************)
EXTENDS Naturals, FiniteSets

CONSTANTS
  Node,   \* node ids
  Conn,   \* WebSocket objects, each standing for itself and for the Lock made with it
  Call,   \* calls of agent_rpc.call and send_cmd, each used at most once
  None

ASSUME ConstantsAssumption ==
  /\ None \notin Node /\ None \notin Conn
  /\ Conn \cap Call = {}

VARIABLES
  conns,   \* _connections: the registered WebSocket of a node
  locks,   \* _write_locks: the lock of a node, named by the Conn it was made for
  locked,  \* asyncio.Lock._locked of each lock
  sock,    \* state of each WebSocket, see SockState
  cpc,     \* where a call is
  req,     \* what a call captured before its first await
  fut,     \* its asyncio.Future
  reply,   \* the rpc_resp frame the agent produced for it, read or not
  out,     \* what the caller was told
  pending  \* the calls with an entry in _pending

callVars == <<cpc, req, fut, reply, out, pending>>

(***************************************************************************)
(* "open": both ends live.  "half": the agent is gone (killed, rebooted,   *)
(* network cut) and the panel has not noticed.  "eof": uvicorn has noticed *)
(* (FIN, RST or its own keepalive ping).  "shut": the panel closed it.     *)
(***************************************************************************)
SockState == {"none", "open", "half", "eof", "shut"}

Writable(c) == sock[c] \in {"open", "half"}

CallState  == {"idle", "lock", "send", "wait", "expired", "done"}
FutState   == {"none", "open", "ok", "err", "offline", "cancelled"}
Settled    == {"ok", "err", "offline", "cancelled"}
Outcome    == {"none", "ok", "err", "offline", "timeout", "sent"}
ReplyState == {"none", "ok", "err"}

NoReq == [kind |-> "none", node |-> None, ws |-> None, lock |-> None]
Req   == [kind : {"rpc", "cmd"}, node : Node, ws : Conn, lock : Conn]

CallTypeOK ==
  /\ cpc \in [Call -> CallState]
  /\ req \in [Call -> Req \cup {NoReq}]
  /\ fut \in [Call -> FutState]
  /\ reply \in [Call -> ReplyState]
  /\ out \in [Call -> Outcome]
  /\ pending \in SUBSET Call

CallInit ==
  /\ cpc = [k \in Call |-> "idle"]
  /\ req = [k \in Call |-> NoReq]
  /\ fut = [k \in Call |-> "none"]
  /\ reply = [k \in Call |-> "none"]
  /\ out = [k \in Call |-> "none"]
  /\ pending = {}

-----------------------------------------------------------------------------

\* The calls of _pending whose key names a node of N.
PendingOf(N) == {k \in pending : req[k].node \in N}

(***************************************************************************)
(* fail_all_for_node for every node of N: the entries are popped and the   *)
(* futures that are not done get RemoteOffline.                            *)
(***************************************************************************)
FailAll(N) ==
  /\ pending' = pending \ PendingOf(N)
  /\ fut' = [k \in Call |->
               IF k \in PendingOf(N) /\ fut[k] = "open" THEN "offline" ELSE fut[k]]

\* Mutated form: only the lock is checked before the capture.
StartCall_LockOnly(k, n, kind) ==
  /\ cpc[k] = "idle"
  /\ locks[n] # None
  /\ req' = [req EXCEPT ![k] = [kind |-> kind, node |-> n, ws |-> conns[n], lock |-> locks[n]]]
  /\ fut' = [fut EXCEPT ![k] = "open"]
  /\ pending' = pending \cup {k}
  /\ cpc' = [cpc EXCEPT ![k] = "lock"]
  /\ UNCHANGED <<out, reply, locked>>

(***************************************************************************)
(* call and send_cmd up to their first await.  An rpc enters its future in *)
(* _pending; asyncio.Lock.acquire does not yield when the lock is free.    *)
(***************************************************************************)
StartCall(k, n, kind) ==
  /\ cpc[k] = "idle"
  /\ IF conns[n] = None \/ locks[n] = None
     THEN /\ out' = [out EXCEPT ![k] = "offline"]
          /\ cpc' = [cpc EXCEPT ![k] = "done"]
          /\ UNCHANGED <<req, fut, pending, locked>>
     ELSE /\ req' = [req EXCEPT ![k] = [kind |-> kind, node |-> n,
                                        ws |-> conns[n], lock |-> locks[n]]]
          /\ fut' = [fut EXCEPT ![k] = IF kind = "rpc" THEN "open" ELSE @]
          /\ pending' = IF kind = "rpc" THEN pending \cup {k} ELSE pending
          /\ cpc' = [cpc EXCEPT ![k] = IF locked[locks[n]] THEN "lock" ELSE "send"]
          /\ locked' = [locked EXCEPT ![locks[n]] = TRUE]
          /\ UNCHANGED out
  /\ UNCHANGED reply

AcquireLock(k) ==
  /\ cpc[k] = "lock"
  /\ ~ locked[req[k].lock]
  /\ locked' = [locked EXCEPT ![req[k].lock] = TRUE]
  /\ cpc' = [cpc EXCEPT ![k] = "send"]
  /\ UNCHANGED <<req, fut, reply, out, pending>>

\* ws.send_text returns: send_cmd is finished, call goes on to wait_for.
SendSucceeds(k) ==
  /\ cpc[k] = "send"
  /\ Writable(req[k].ws)
  /\ locked' = [locked EXCEPT ![req[k].lock] = FALSE]
  /\ IF req[k].kind = "rpc"
     THEN cpc' = [cpc EXCEPT ![k] = "wait"] /\ UNCHANGED out
     ELSE /\ cpc' = [cpc EXCEPT ![k] = "done"]
          /\ out' = [out EXCEPT ![k] = "sent"]
  /\ UNCHANGED <<req, fut, reply, pending>>

\* Mutated form: the entry stays in _pending.
SendFails_KeepsEntry(k) ==
  /\ cpc[k] = "send"
  /\ ~ Writable(req[k].ws)
  /\ locked' = [locked EXCEPT ![req[k].lock] = FALSE]
  /\ cpc' = [cpc EXCEPT ![k] = "done"]
  /\ out' = [out EXCEPT ![k] = "offline"]
  /\ UNCHANGED <<req, fut, reply, pending>>

\* ws.send_text raises: call pops its entry and reports RemoteOffline.
SendFails(k) ==
  /\ cpc[k] = "send"
  /\ ~ Writable(req[k].ws)
  /\ locked' = [locked EXCEPT ![req[k].lock] = FALSE]
  /\ pending' = pending \ {k}
  /\ cpc' = [cpc EXCEPT ![k] = "done"]
  /\ out' = [out EXCEPT ![k] = "offline"]
  /\ UNCHANGED <<req, fut, reply>>

\* Mutated form: the future is settled without asking whether it is done.
HandleResponse_Unchecked(k) ==
  /\ pending' = pending \ {k}
  /\ fut' = [fut EXCEPT ![k] = IF k \in pending THEN reply[k] ELSE @]

\* Mutated form: the "ok" field of the frame is not looked at.
HandleResponse_AlwaysOk(k) ==
  /\ pending' = pending \ {k}
  /\ fut' = [fut EXCEPT ![k] = IF k \in pending /\ @ = "open" THEN "ok" ELSE @]

\* Mutated form: the frame settles whatever waits for the node, not its own id.
HandleResponse_ByNode(k) ==
  /\ pending' = pending \ PendingOf({req[k].node})
  /\ fut' = [j \in Call |->
               IF j \in PendingOf({req[k].node}) /\ fut[j] = "open" THEN reply[k] ELSE fut[j]]

(***************************************************************************)
(* handle_response: the entry is popped; a future that is done (cancelled  *)
(* by a timeout whose caller has not run yet) is left alone.               *)
(***************************************************************************)
HandleResponse(k) ==
  /\ pending' = pending \ {k}
  /\ fut' = [fut EXCEPT ![k] = IF k \in pending /\ @ = "open" THEN reply[k] ELSE @]

\* wait_for resumes with a settled future.
CallReturns(k) ==
  /\ cpc[k] = "wait"
  /\ fut[k] \in {"ok", "err", "offline"}
  /\ cpc' = [cpc EXCEPT ![k] = "done"]
  /\ out' = [out EXCEPT ![k] = fut[k]]
  /\ UNCHANGED <<req, fut, reply, pending>>

\* Mutated form: the future is awaited without wait_for.
TimerFires_Never(k) ==
  /\ cpc[k] = "wait"
  /\ fut[k] = "cancelled"
  /\ cpc' = [cpc EXCEPT ![k] = "expired"]
  /\ UNCHANGED <<req, fut, reply, out, pending>>

\* wait_for's timer: the future is cancelled, and wait_for yields once more
\* before call sees TimeoutError.
TimerFires(k) ==
  /\ cpc[k] = "wait"
  /\ fut[k] = "open"
  /\ fut' = [fut EXCEPT ![k] = "cancelled"]
  /\ cpc' = [cpc EXCEPT ![k] = "expired"]
  /\ UNCHANGED <<req, reply, out, pending>>

CallTimesOut(k) ==
  /\ cpc[k] = "expired"
  /\ pending' = pending \ {k}
  /\ cpc' = [cpc EXCEPT ![k] = "done"]
  /\ out' = [out EXCEPT ![k] = "timeout"]
  /\ UNCHANGED <<req, fut, reply>>

(***************************************************************************)
(* The agent reads the frame and handleRPC answers (agent/rpc.go), on the  *)
(* connection the frame came by.  The frame may be out while send_text is  *)
(* still draining, and the caller may have given up long ago.              *)
(***************************************************************************)
AgentAnswers(k) ==
  /\ cpc[k] \in {"send", "wait", "expired", "done"}
  /\ req[k].kind = "rpc"
  /\ sock[req[k].ws] = "open"
  /\ reply[k] = "none"
  /\ \E r \in {"ok", "err"} : reply' = [reply EXCEPT ![k] = r]
  /\ UNCHANGED <<cpc, req, fut, out, pending>>

=============================================================================
