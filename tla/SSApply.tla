------------------------------ MODULE SSApply ------------------------------
(***************************************************************************)
(* "Save and apply" of a landing node's sing-box configuration:            *)
(* backend/api/ss_config.py, backend/deploy/config_push.py and the agent   *)
(* commands they send, for one deployed node.                              *)
(*                                                                         *)
(* An apply runs push_config in a worker thread; the thread's remote calls *)
(* and the reload command use the service of RpcService, which AgentHub    *)
(* implements.  Applies of the same node are not serialised by anything.   *)
(*                                                                         *)
(* A file holds one configuration; os.WriteFile is one step, or leaves a   *)
(* torn file when it reports an error.                                     *)
(***************************************************************************)
CONSTANTS
  Apply,    \* POST /ss-config/apply requests, each used at most once
  Config,   \* rendered configurations that validate_ss_config accepts
  Good,     \* those that sing-box accepts too
  First,    \* the configuration the node runs at first
  Torn,     \* a partly written file
  Missing,  \* no such file
  Down      \* sing-box is not running

ASSUME SSAssumption ==
  /\ Good \subseteq Config /\ First \in Good
  /\ Torn \notin Config /\ Missing \notin Config \cup {Torn} /\ Down \notin Config \cup {Torn}

VARIABLES
  stored,   \* the row's ss_config, rendered
  status,   \* its ss_apply_status
  at,       \* the next remote call of an apply
  config,   \* the configuration an apply read
  loaded,   \* the ss_apply_status it read
  said,     \* the result it returned to its client
  new,      \* /opt/meshPanel/config.json.new
  cur,      \* /opt/meshPanel/config.json
  running,  \* what the sing-box process runs
  reloaded, \* the applies whose "reload" the agent carried out
  rc,       \* the remote commands that exited with 0
  state, told, answered  \* the calls, see RpcService

panelVars == <<stored, status, at, config, loaded, said>>
nodeVars  == <<new, cur, running, reloaded, rc>>
rpcVars   == <<state, told, answered>>
vars      == <<panelVars, nodeVars, rpcVars>>

\* The remote calls in the order of push_config and apply_ss.
Step == {"mkdir", "write", "check", "rm", "mv", "reload"}
Calls == Apply \X Step

Rpc == INSTANCE RpcService WITH Call <- Calls

TypeOK ==
  /\ stored \in Config
  /\ status \in {"never", "applied", "failed"}
  /\ at \in [Apply -> Step \cup {"idle", "done"}]
  /\ config \in [Apply -> Config]
  /\ loaded \in [Apply -> {"never", "applied", "failed"}]
  /\ said \in [Apply -> {"none", "applied", "failed"}]
  /\ new \in Config \cup {Torn, Missing}
  /\ cur \in Config \cup {Torn}
  /\ running \in Config \cup {Down}
  /\ reloaded \in SUBSET Apply
  /\ rc \in SUBSET Calls
  /\ Rpc!TypeOK

Init ==
  /\ stored \in Config
  /\ status \in {"never", "applied", "failed"}
  /\ at = [a \in Apply |-> "idle"]
  /\ config = [a \in Apply |-> First]
  /\ loaded = [a \in Apply |-> "never"]
  /\ said = [a \in Apply |-> "none"]
  /\ new = Missing
  /\ cur = First
  /\ running = First
  /\ reloaded = {}
  /\ rc = {}
  /\ Rpc!Init

-----------------------------------------------------------------------------
(* The panel.                                                              *)

PutSS(c) ==
  /\ stored' = c
  /\ UNCHANGED <<status, at, config, loaded, said, nodeVars, rpcVars>>

\* apply_ss up to its first await.
BeginApply(a) ==
  /\ at[a] = "idle"
  /\ at' = [at EXCEPT ![a] = "mkdir"]
  /\ config' = [config EXCEPT ![a] = stored]
  /\ loaded' = [loaded EXCEPT ![a] = status]
  /\ UNCHANGED <<stored, status, said, nodeVars, rpcVars>>

\* The next call is made, or finds the node offline.
CallNext(a) ==
  LET k == <<a, at[a]>> IN
  /\ at[a] \in Step
  /\ \/ Rpc!Issue(k) /\ state'[k] = (IF at[a] = "reload" THEN "cmd" ELSE "rpc")
     \/ Rpc!Refuse(k)
  /\ UNCHANGED <<panelVars, nodeVars>>

\* call, call_sync or send_cmd returns or raises.
CallEnds(k) ==
  /\ Rpc!Tell(k)
  /\ UNCHANGED <<panelVars, nodeVars>>

(***************************************************************************)
(* The step after the one whose call has returned.  The result of mkdir is *)
(* not looked at, a refused configuration is removed, and so far nothing   *)
(* has touched config.json.                                                *)
(***************************************************************************)
Succeeds(a) == told[<<a, at[a]>>] = "ok" /\ <<a, at[a]>> \in rc

\* Mutated form: the exit code of the check is not looked at.
After_CheckIgnored(a) ==
  CASE at[a] = "mkdir" /\ told[<<a, "mkdir">>] = "ok" -> "write"
    [] at[a] = "write" /\ told[<<a, "write">>] = "ok" -> "check"
    [] at[a] = "check" /\ told[<<a, "check">>] = "ok" -> "mv"
    [] at[a] = "mv" /\ Succeeds(a)                    -> "reload"
    [] OTHER                                          -> "done"

\* Mutated form: the exit code of the mv is not looked at.
After_MvIgnored(a) ==
  CASE at[a] = "mkdir" /\ told[<<a, "mkdir">>] = "ok" -> "write"
    [] at[a] = "write" /\ told[<<a, "write">>] = "ok" -> "check"
    [] at[a] = "check" /\ Succeeds(a)                 -> "mv"
    [] at[a] = "check" /\ told[<<a, "check">>] = "ok" -> "rm"
    [] at[a] = "mv" /\ told[<<a, "mv">>] = "ok"       -> "reload"
    [] OTHER                                          -> "done"

\* Mutated form: a call that timed out is tried again.
After_Retries(a) ==
  CASE at[a] = "mkdir" /\ told[<<a, "mkdir">>] = "ok" -> "write"
    [] at[a] = "write" /\ told[<<a, "write">>] = "ok" -> "check"
    [] at[a] = "check" /\ Succeeds(a)                 -> "mv"
    [] at[a] = "check" /\ told[<<a, "check">>] = "ok" -> "rm"
    [] at[a] = "mv" /\ Succeeds(a)                    -> "reload"
    [] told[<<a, at[a]>>] = "timeout"                 -> at[a]
    [] OTHER                                          -> "done"

After(a) ==
  CASE at[a] = "mkdir" /\ told[<<a, "mkdir">>] = "ok" -> "write"
    [] at[a] = "write" /\ told[<<a, "write">>] = "ok" -> "check"
    [] at[a] = "check" /\ Succeeds(a)                 -> "mv"
    [] at[a] = "check" /\ told[<<a, "check">>] = "ok" -> "rm"
    [] at[a] = "mv" /\ Succeeds(a)                    -> "reload"
    [] OTHER                                          -> "done"

(***************************************************************************)
(* The commit that ends apply_ss.  SQLAlchemy writes the column only when  *)
(* the value differs from the one this session loaded.                     *)
(***************************************************************************)
\* Mutated form: the values of the deployment's status.
CommitStatus_Deploy(a, result) ==
  /\ status' = IF result = "applied" THEN "deployed" ELSE result
  /\ said' = [said EXCEPT ![a] = result]

\* Mutated form: a failed apply is not written to the row.
CommitStatus_SuccessOnly(a, result) ==
  /\ status' = IF result = "failed" THEN status ELSE result
  /\ said' = [said EXCEPT ![a] = result]

CommitStatus(a, result) ==
  /\ status' = IF loaded[a] = result THEN status ELSE result
  /\ said' = [said EXCEPT ![a] = result]

\* push_config goes on to its next call, or apply_ss commits and answers.
Continue(a) ==
  /\ at[a] \in Step
  /\ told[<<a, at[a]>>] # "none"
  /\ at' = [at EXCEPT ![a] = After(a)]
  /\ \/ After(a) # "done" /\ UNCHANGED <<status, said>>
     \/ /\ After(a) = "done"
        /\ CommitStatus(a, IF told[<<a, "reload">>] = "sent" THEN "applied" ELSE "failed")
  /\ UNCHANGED <<stored, config, loaded, nodeVars, rpcVars>>

\* The panel process dies: its requests end without a commit.
PanelCrash ==
  /\ \E a \in Apply : at[a] \in Step
  /\ at' = [a \in Apply |-> IF at[a] \in Step THEN "done" ELSE at[a]]
  /\ UNCHANGED <<stored, status, config, loaded, said, nodeVars, rpcVars>>

-----------------------------------------------------------------------------
(* The node.  A command may run long after its caller gave up.             *)

\* The command of a call has its effect and exits with 0.
Works(a, step) ==
  \/ step = "mkdir" /\ UNCHANGED <<new, cur>>
  \/ step = "write" /\ new' = config[a] /\ UNCHANGED cur
  \/ step = "check" /\ new \in Good /\ UNCHANGED <<new, cur>>
  \/ step = "rm"    /\ new' = Missing /\ UNCHANGED cur
  \/ step = "mv"    /\ new # Missing /\ cur' = new /\ new' = Missing

\* It does not; a write that fails may have truncated the file.
Fails(step) ==
  /\ new' = new \/ (step = "write" /\ new' = Torn)
  /\ UNCHANGED cur

(***************************************************************************)
(* handleRPC runs the command and answers.  shell.exec answers "ok" with   *)
(* whatever exit code, and "err" when it killed the command at its         *)
(* timeout, which may have had its effect; fs.write answers "ok" only when *)
(* the file is written.                                                    *)
(***************************************************************************)
AgentRuns(a, step) ==
  LET k == <<a, step>> IN
  /\ Rpc!Answer(k)
  /\ \/ /\ Works(a, step)
        /\ rc' = rc \cup {k}
        /\ step = "write" => answered'[k] = "ok"
     \/ /\ Fails(step)
        /\ UNCHANGED rc
        /\ step = "write" => answered'[k] = "err"
  /\ UNCHANGED <<panelVars, running, reloaded>>

(***************************************************************************)
(* handleCmd: systemctl reload.  sing-box checks the file again and keeps  *)
(* what it runs when the check fails.                                      *)
(***************************************************************************)
AgentReloads(a) ==
  LET k == <<a, "reload">> IN
  /\ state[k] = "cmd" \/ told[k] = "sent"
  /\ a \notin reloaded
  /\ reloaded' = reloaded \cup {a}
  /\ running' = IF running # Down /\ cur \in Good THEN cur ELSE running
  /\ UNCHANGED <<panelVars, new, cur, rc, rpcVars>>

\* The service starts anew: a reboot, a crash, a deployment.
ServiceRestarts ==
  /\ running' = IF cur \in Good THEN cur ELSE Down
  /\ UNCHANGED <<panelVars, new, cur, reloaded, rc, rpcVars>>

-----------------------------------------------------------------------------
Next ==
  \/ \E c \in Config : PutSS(c)
  \/ \E a \in Apply : BeginApply(a) \/ CallNext(a) \/ Continue(a) \/ AgentReloads(a)
  \/ \E k \in Calls : CallEnds(k)
  \/ \E a \in Apply, step \in Step \ {"reload"} : AgentRuns(a, step)
  \/ PanelCrash
  \/ ServiceRestarts

Spec == Init /\ [][Next]_vars

(***************************************************************************)
(* Coroutines and threads run on, and every remote call ends: CallsReturn  *)
(* of AgentHub.                                                            *)
(***************************************************************************)
Fairness ==
  /\ \A a \in Apply : WF_vars(CallNext(a)) /\ WF_vars(Continue(a))
  /\ \A k \in Calls : WF_vars(CallEnds(k))

LiveSpec == Spec /\ Fairness

-----------------------------------------------------------------------------
\* No other apply has written config.json.new so far.
LoneWriter(a) == \A b \in Apply \ {a} : answered[<<b, "write">>] = "none"

(***************************************************************************)
(* As long as only one apply has written to the node, "first the dry run,  *)
(* then the mv" protects it: config.json holds a configuration that        *)
(* sing-box accepts, sing-box runs, and after "applied" the file is what   *)
(* the apply had read; whatever is lost, late, killed or torn, and         *)
(* wherever the panel crashes.                                             *)
(***************************************************************************)
LoneApplyIsSafe ==
  \A a \in Apply : LoneWriter(a) =>
    /\ cur \in {First, config[a]} \cap Good
    /\ running # Down
    /\ said[a] = "applied" => cur = config[a]

(***************************************************************************)
(* With any number of applies: no mv is sent for a configuration file      *)
(* whose check did not exit with 0 after its write had been confirmed, and *)
(* "applied" is not reported unless the node carried out the mv.           *)
(***************************************************************************)
InstallFollowsCheck ==
  \A a \in Apply :
    /\ state[<<a, "mv">>] # "idle" =>
         answered[<<a, "write">>] = "ok" /\ <<a, "check">> \in rc
    /\ said[a] = "applied" => <<a, "mv">> \in rc

(***************************************************************************)
(* The first apply to end leaves its result in the row, although the       *)
(* UPDATE is left out when the session had loaded the same value, and      *)
(* others may have begun before or after.  (A later one may not: it may    *)
(* have loaded its status before an opposite result was written.)          *)
(***************************************************************************)
FirstResultIsStored ==
  \A a \in Apply :
    said[a] # "none" /\ (\A b \in Apply \ {a} : said[b] = "none") => status = said[a]

(***************************************************************************)
(* The inductive invariant.  CallsInOrder: what is known of an apply's     *)
(* calls from where it is.  FilesOfLone: what a lone apply's temporary     *)
(* file holds, and that its accepted check and its mv were about it.       *)
(***************************************************************************)
InOrder(a) ==
  /\ at[a] \in {"idle", "mkdir"} => state[<<a, "write">>] = "idle"
  /\ at[a] \in {"idle", "mkdir", "write"} => state[<<a, "check">>] = "idle"
  /\ at[a] \in {"idle", "mkdir", "write", "check", "rm"} => state[<<a, "mv">>] = "idle"
  /\ at[a] \notin {"reload", "done"} => state[<<a, "reload">>] = "idle"
  /\ at[a] \in {"check", "rm", "mv", "reload"} \/ state[<<a, "check">>] # "idle" =>
       answered[<<a, "write">>] = "ok"
  /\ at[a] \in {"mv", "reload"} => <<a, "check">> \in rc
  /\ at[a] = "reload" => <<a, "mv">> \in rc

CallsInOrder == \A a \in Apply : InOrder(a)

CallsAreServed ==
  \A k \in Calls :
    /\ state[k] = "idle" => told[k] = "none"
    /\ state[k] \in {"idle", "refused"} => answered[k] = "none"
    /\ told[k] = "ok" => answered[k] = "ok"
    /\ k \in rc => answered[k] # "none"

FilesOfLone ==
  \A a \in Apply : LoneWriter(a) =>
    /\ new \in {Missing, Torn, config[a]}
    /\ answered[<<a, "write">>] = "none" => new = Missing /\ cur = First
    /\ <<a, "check">> \in rc => config[a] \in Good /\ new \in {Missing, config[a]}
    /\ <<a, "mv">> \in rc => cur = config[a]

IInv ==
  /\ TypeOK
  /\ CallsInOrder
  /\ CallsAreServed
  /\ FilesOfLone
  /\ LoneApplyIsSafe
  /\ InstallFollowsCheck

\* With FirstResultIsStored inductive on its own: until a result is written,
\* every session has loaded the same status.
LoadedIsCurrent ==
  /\ \A a \in Apply : at[a] # "done" => said[a] = "none"
  /\ (\A b \in Apply : said[b] = "none") =>
       \A a \in Apply : at[a] \in Step => loaded[a] = status

(***************************************************************************)
(* An apply that has begun ends: every one of its remote calls has a       *)
(* timeout, although the node may answer none of them.                     *)
(***************************************************************************)
ApplyEnds == \A a \in Apply : at[a] # "idle" ~> at[a] = "done"

(***************************************************************************)
(* docs/04: the dry run comes before the mv, "a broken configuration does  *)
(* not bring the node down".                                               *)
(***************************************************************************)
NodeStaysUp == running # Down

=============================================================================
