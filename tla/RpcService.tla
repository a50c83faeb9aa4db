----------------------------- MODULE RpcService -----------------------------
(***************************************************************************)
(* What backend/deploy/agent_rpc.py promises the code that calls it: a     *)
(* remote call on a node, without connections, locks or timers.            *)
(*                                                                         *)
(* A call is issued once and its caller is told one outcome.  For an rpc   *)
(* "ok" and "err" repeat the agent's answer; "offline" and "timeout" say   *)
(* nothing about the agent, which may have acted before or may still act.  *)
(* For a cmd (send_cmd) "sent" only says that the command was written.     *)
(***************************************************************************)
CONSTANT Call

VARIABLES
  state,     \* where a call is; one in flight is named by its kind
  told,      \* the outcome its caller was given
  answered   \* the agent's answer

vars == <<state, told, answered>>

TypeOK ==
  /\ state \in [Call -> {"idle", "rpc", "cmd", "done", "refused"}]
  /\ told \in [Call -> {"none", "ok", "err", "offline", "timeout", "sent"}]
  /\ answered \in [Call -> {"none", "ok", "err"}]

Init ==
  /\ state = [k \in Call |-> "idle"]
  /\ told = [k \in Call |-> "none"]
  /\ answered = [k \in Call |-> "none"]

Issue(k) ==
  /\ state[k] = "idle"
  /\ \E kind \in {"rpc", "cmd"} : state' = [state EXCEPT ![k] = kind]
  /\ UNCHANGED <<told, answered>>

\* The node is not connected when the call is made.
Refuse(k) ==
  /\ state[k] = "idle"
  /\ state' = [state EXCEPT ![k] = "refused"]
  /\ told' = [told EXCEPT ![k] = "offline"]
  /\ UNCHANGED answered

\* The agent acts and answers, possibly after the caller gave up.
Answer(k) ==
  /\ state[k] \in {"rpc", "done"}
  /\ answered[k] = "none"
  /\ \E a \in {"ok", "err"} : answered' = [answered EXCEPT ![k] = a]
  /\ UNCHANGED <<state, told>>

OutcomesOf(kind) == IF kind = "rpc" THEN {"ok", "err", "offline", "timeout"}
                    ELSE {"sent", "offline"}

Tell(k) ==
  /\ state[k] \in {"rpc", "cmd"}
  /\ state' = [state EXCEPT ![k] = "done"]
  /\ \E o \in OutcomesOf(state[k]) :
       /\ o \in {"ok", "err"} => answered[k] = o
       /\ told' = [told EXCEPT ![k] = o]
  /\ UNCHANGED answered

Next == \E k \in Call : Issue(k) \/ Refuse(k) \/ Answer(k) \/ Tell(k)

Spec == Init /\ [][Next]_vars

=============================================================================
