---------------------------- MODULE NodeInstall ----------------------------
(***************************************************************************)
(* The life cycle of one node: deploy, uninstall, delete, reset and push   *)
(* of agent.env (backend/api/nodes.py) with deploy_node, push_agent_env    *)
(* (deploy/installer.py) and uninstall_node (deploy/uninstaller.py), over  *)
(* the scripts of NodeHost.                                                *)
(*                                                                         *)
(* deploy and redeploy-config run in worker threads, uninstall waits for   *)
(* one; each request keeps the row it loaded and later writes back the     *)
(* columns that differ from that copy.  A request slot may be used again.  *)
(***************************************************************************)
EXTENDS NodeHost

VARIABLES
  row,      \* the row of nodes: deploy_status, agent_token, ss_apply_status, kind
  endpoint, \* settings.agent_endpoint
  at,       \* where a request stands
  seen,     \* the row as its session has loaded it
  overlap,  \* a request has begun beside another one or its script
  crashed   \* the panel has died under a request

panelVars == <<row, endpoint, at, seen, overlap, crashed>>
vars == <<hostVars, panelVars>>

Status == {"not_deployed", "deploying", "deployed", "failed", "uninstalled"}
Row    == [status : Status, token : Tokens, ss : {"never", "applied", "pending"}, full : BOOLEAN]
NoRow  == [status |-> "deleted", token |-> None, ss |-> "never", full |-> TRUE]

DeployStep == {"deploy.commit", "deploy.load", "deploy.upload", "deploy.swap", "deploy.run"}
Active(r)  == at[r] # "idle"
Quiet      == \A r \in Request : ~ Active(r) /\ ~ Runs(r)

TypeOK ==
  /\ HostTypeOK
  /\ row \in Row \cup {NoRow}
  /\ endpoint \in Endpoint \cup {None}
  /\ at \in [Request -> DeployStep \cup {"idle", "uninstall.run", "push.run"}]
  /\ seen \in [Request -> Row \cup {NoRow}]
  /\ overlap \in BOOLEAN /\ crashed \in BOOLEAN

\* A new node, or one deployed by an earlier version of the panel.
Init ==
  /\ endpoint \in Endpoint \cup {None}
  /\ \E full, installed \in BOOLEAN :
       LET token == IF installed THEN "first" ELSE None IN
       /\ HostInit(installed, full, [token |-> token, endpoint |-> endpoint])
       /\ row = [status |-> IF installed THEN "deployed" ELSE "not_deployed",
                 token |-> token, ss |-> "never", full |-> full]
  /\ at = [r \in Request |-> "idle"]
  /\ seen = [r \in Request |-> NoRow]
  /\ overlap = FALSE
  /\ crashed = FALSE

-----------------------------------------------------------------------------
Move(r, step) == at' = [at EXCEPT ![r] = step]

Overlaps ==
  IF Quiet /\ ~ overlap THEN UNCHANGED <<overlap, trouble>> ELSE overlap' = TRUE /\ Trouble

\* A request loads the row; nothing keeps another one from running already.
Begins(r, step) ==
  /\ ~ Active(r) /\ ~ Runs(r) /\ row # NoRow
  /\ Move(r, step)
  /\ seen' = [seen EXCEPT ![r] = row]
  /\ Overlaps
  /\ UNCHANGED <<endpoint, crashed>>

\* The request leaves its slot; its script may still run.
Leave(r) ==
  /\ Move(r, "idle")
  /\ seen' = [seen EXCEPT ![r] = NoRow]
  /\ script' = IF Runs(r) THEN script ELSE [script EXCEPT ![r] = NoScript]
  /\ UNCHANGED <<files, enabled, agent, singbox, endpoint, overlap, crashed>>

\* _connect, exec_command: a shell of the node starts the script at pc.
Start(r, pc, env, changed) ==
  /\ script' = [script EXCEPT ![r] = [pc |-> pc, full |-> seen[r].full, env |-> env,
                                      fresh |-> FALSE, changed |-> changed]]
  /\ UNCHANGED <<files, enabled, agent, singbox, trouble>>

EnvFor(r) == [token |-> seen[r].token, endpoint |-> endpoint]

-----------------------------------------------------------------------------
(* deploy.                                                                 *)

BeginDeploy(r) ==
  /\ Begins(r, "deploy.commit")
  /\ UNCHANGED <<row, files, enabled, agent, singbox, script>>

\* A token is made when the loaded row has none; the row may be gone by now.
DeployCommits(r) ==
  /\ at[r] = "deploy.commit"
  /\ IF row = NoRow
     THEN Leave(r) /\ UNCHANGED <<row, trouble>>
     ELSE /\ row' = [row EXCEPT !.status = IF seen[r].status = "deploying" THEN @ ELSE "deploying",
                                !.token = IF seen[r].token = None THEN r ELSE @]
          /\ Move(r, "deploy.load")
          /\ UNCHANGED <<hostVars, seen, endpoint, overlap, crashed>>

\* The commit expired the copy: deploy_node loads it again before it connects.
DeployLoads(r) ==
  /\ at[r] = "deploy.load"
  /\ UNCHANGED row
  /\ IF row = NoRow
     THEN Leave(r) /\ UNCHANGED trouble
     ELSE /\ seen' = [seen EXCEPT ![r] = row]
          /\ Move(r, "deploy.upload")
          /\ UNCHANGED <<hostVars, endpoint, overlap, crashed>>

\* _upload_agent: skipped without an endpoint, for an equal binary, and when it fails.
DeployUploads(r) ==
  /\ at[r] = "deploy.upload"
  /\ \/ /\ Start(r, "version", EnvFor(r), FALSE)
        /\ Move(r, "deploy.run")
     \/ /\ endpoint # None /\ files.agentBin # Local
        /\ script' = [script EXCEPT ![r] = [NoScript EXCEPT !.pc = "swap.stop"]]
        /\ files' = [files EXCEPT !.dir = TRUE]
        /\ Move(r, "deploy.swap")
        /\ UNCHANGED <<enabled, agent, singbox, trouble>>
  /\ UNCHANGED <<row, endpoint, seen, overlap, crashed>>

\* The swap has ended, one way or the other; its result is not looked at.
DeployInstalls(r) ==
  /\ at[r] = "deploy.swap" /\ script[r].pc \in {"swapped", "dead"}
  /\ Start(r, "version", EnvFor(r), TRUE)
  /\ Move(r, "deploy.run")
  /\ UNCHANGED <<row, endpoint, seen, overlap, crashed>>

\* Mutated form: only a success is written to the row.
DeployEnds_SuccessOnly(r) ==
  /\ \/ at[r] \in {"deploy.upload", "deploy.swap"}
     \/ at[r] = "deploy.run"
  /\ row' = IF row # NoRow /\ at[r] = "deploy.run" /\ script[r].pc = "ok"
            THEN [row EXCEPT !.status = "deployed"] ELSE row
  /\ Leave(r)
  /\ UNCHANGED trouble

(***************************************************************************)
(* The result and the final commit.  Success is exit status 0 with the     *)
(* result marker; a failed connection, a failed script, DEPLOY_TIMEOUT and *)
(* DEPLOY_IDLE_TIMEOUT are failures, after which the script may go on.     *)
(* deploy_status is written when it differs from the loaded one.           *)
(***************************************************************************)
DeployEnds(r) ==
  \E status \in {"deployed", "failed"} :
    /\ \/ at[r] \in {"deploy.upload", "deploy.swap"} /\ status = "failed"
       \/ at[r] = "deploy.run" /\ (status = "deployed" => script[r].pc = "ok")
    /\ row' = IF row # NoRow /\ seen[r].status # status THEN [row EXCEPT !.status = status] ELSE row
    /\ Leave(r)
    /\ UNCHANGED trouble

\* reset_deploy_status.
ResetDeploy ==
  /\ row.status = "deploying"
  /\ row' = [row EXCEPT !.status = "failed"]
  /\ UNCHANGED <<hostVars, endpoint, at, seen, overlap, crashed>>

-----------------------------------------------------------------------------
(* uninstall, delete, redeploy-config.                                     *)

BeginUninstall(r) ==
  /\ Begins(r, "uninstall.run")
  /\ \/ script' = [script EXCEPT ![r] = [NoScript EXCEPT !.pc = "stop"]]
     \/ script' = [script EXCEPT ![r] = [NoScript EXCEPT !.pc = "dead"]]  \* no connection
  /\ UNCHANGED <<row, files, enabled, agent, singbox>>

\* Mutated form: the SS status of an uninstalled node is kept.
Cleaned_KeepsSS(r) == [row EXCEPT !.status = "uninstalled"]

\* Mutated form: the SS status is cleared to a value that is none of the column's.
Cleaned_ClearsSS(r) == [row EXCEPT !.status = "uninstalled", !.ss = "null"]

\* The columns are reset where they differ from the copy loaded before the script.
Cleaned(r) ==
  [row EXCEPT !.status = IF seen[r].status = "uninstalled" THEN @ ELSE "uninstalled",
              !.ss = IF seen[r].ss = "pending" THEN @ ELSE "pending"]

\* Mutated form: the row is reset although the node could not be cleaned.
UninstallEnds_Always(r) ==
  /\ at[r] = "uninstall.run"
  /\ row' = IF row = NoRow THEN row ELSE Cleaned(r)
  /\ Leave(r)
  /\ UNCHANGED trouble

\* After a success the row is deleted or reset; after a failure, or without an
\* answer within UNINSTALL_TIMEOUT, it is left alone.
UninstallEnds(r) ==
  /\ at[r] = "uninstall.run"
  /\ Leave(r)
  /\ \/ /\ script[r].pc = "ok"
        /\ row' \in {NoRow, IF row = NoRow THEN row ELSE Cleaned(r)}
        /\ UNCHANGED trouble
     \/ script[r].pc \in {"failed", "dead"} /\ UNCHANGED <<row, trouble>>
     \/ UNCHANGED row /\ Trouble

\* delete_node, and uninstall with force: the node itself is not touched.
DeleteNode ==
  /\ row # NoRow
  /\ row' = NoRow
  /\ UNCHANGED <<hostVars, endpoint, at, seen, overlap, crashed>>

\* redeploy_agent_config asks for a token and an endpoint, not for a status.
BeginPush(r) ==
  /\ Begins(r, "push.run")
  /\ endpoint # None /\ row.token # None
  /\ script' = [script EXCEPT ![r] = [NoScript EXCEPT !.pc = "push.env",
                                        !.env = [token |-> row.token, endpoint |-> endpoint]]]
  /\ UNCHANGED <<row, files, enabled, agent, singbox>>

\* The result is only reported.
PushEnds(r) ==
  /\ at[r] = "push.run"
  /\ Leave(r)
  /\ UNCHANGED <<row, trouble>>

-----------------------------------------------------------------------------
(* The rest of the system.                                                 *)

\* apply_ss, as far as it matters here (see SSApply): over the agent's
\* connection, on a node whose status is deployed.
ApplySS ==
  /\ row.status = "deployed" /\ row.full
  /\ agent # NoAgent /\ agent.env.token = row.token /\ files.singbox = "ok" /\ files.sbUnit
  /\ row' = [row EXCEPT !.ss = "applied"]
  /\ files' = [files EXCEPT !.conf = "applied", !.dir = TRUE]
  /\ singbox' = IF singbox = "none" THEN singbox ELSE "applied"
  /\ Overlaps
  /\ UNCHANGED <<enabled, agent, script, endpoint, at, seen, crashed>>

SetEndpoint ==
  /\ endpoint' \in Endpoint \ {endpoint}
  /\ UNCHANGED <<hostVars, row, at, seen, overlap, crashed>>

\* Requests end without a commit; the scripts on the node go on or not.
PanelCrashes ==
  /\ \E r \in Request : Active(r)
  /\ at' = [r \in Request |-> "idle"]
  /\ seen' = [r \in Request |-> NoRow]
  /\ crashed' = TRUE
  /\ Trouble
  /\ UNCHANGED <<files, enabled, agent, singbox, script, row, endpoint, overlap>>

Deploy(r) ==
  \/ DeployCommits(r) \/ DeployLoads(r) \/ DeployUploads(r) \/ DeployInstalls(r)
  \/ DeployEnds(r)

Next ==
  \/ \E r \in Request :
       \/ BeginDeploy(r) \/ Deploy(r)
       \/ BeginUninstall(r) \/ UninstallEnds(r)
       \/ BeginPush(r) \/ PushEnds(r)
       \/ (ScriptRuns(r) \/ Aborts(r) \/ Dies(r)) /\ UNCHANGED panelVars
  \/ (Respawns \/ Reboots) /\ UNCHANGED panelVars
  \/ ResetDeploy \/ DeleteNode \/ ApplySS \/ SetEndpoint \/ PanelCrashes

Spec == Init /\ [][Next]_vars

-----------------------------------------------------------------------------
(***************************************************************************)
(* The binary is only replaced while no agent runs: without overlaps, a    *)
(* running agent is the binary on the disk, wherever a deploy was cut off. *)
(***************************************************************************)
BinaryIsCurrent ==
  ~ overlap /\ agent # NoAgent => agent.bin = files.agentBin

(***************************************************************************)
(* When nothing was interrupted or overlapped, "deployed" means that the   *)
(* node is what the deploy promised: the agent, if there is one, runs with *)
(* the token the panel will accept and from the files as they are, sing-box*)
(* of a landing node runs, and both come back after a reboot.              *)
(***************************************************************************)
Undisturbed == ~ overlap /\ trouble = 0

DeployedIsRunning ==
  Undisturbed /\ Quiet /\ row.status = "deployed" =>
    /\ files.env.token = row.token
    /\ files.agentBin # "none" => agent = CurrentAgent /\ agent # NoAgent /\ "mesh-agent" \in enabled
    /\ row.full => singbox = files.conf /\ singbox # "none" /\ "sing-box" \in enabled

(***************************************************************************)
(* A node shown as uninstalled runs nothing and starts nothing at its next *)
(* boot, although scripts may have died on it and the panel with them; an  *)
(* agent.env pushed afterwards does not change that.                       *)
(***************************************************************************)
UninstalledStaysDown ==
  ~ overlap /\ Quiet /\ row.status = "uninstalled" =>
    agent = NoAgent /\ singbox = "none" /\ enabled = {}

(***************************************************************************)
(* Whatever overlaps, a row says deploying only while a deploy is at work  *)
(* on it that will write its result, until a panel dies.                   *)
(***************************************************************************)
DeployingIsAtWork ==
  row.status = "deploying" => crashed \/ \E r \in Request : at[r] \in DeployStep

(***************************************************************************)
(* "applied" survives redeploys, uninstalls and reboots only with the file *)
(* it is about.                                                            *)
(***************************************************************************)
AppliedIsInstalled ==
  Undisturbed /\ Quiet /\ row.status = "deployed" /\ row.ss = "applied" =>
    files.conf = "applied"

(***************************************************************************)
(* README: deploying is idempotent.  What a deploy repairs when an earlier *)
(* one, an uninstall, the node or the panel died in the middle: when its   *)
(* script ends well, the files are complete and current, the agent runs    *)
(* from the binary on the disk and sing-box runs its configuration.  (It   *)
(* does not repair everything: an agent.env or a unit that was replaced    *)
(* by the script that died looks unchanged, so the agent keeps the old     *)
(* environment, and its service is not enabled.)                           *)
(***************************************************************************)
Repaired(r) ==
  /\ files'.env = script[r].env
  /\ files'.agentBin # "none" =>
       files'.agentUnit /\ agent' # NoAgent /\ agent'.bin = files'.agentBin
  /\ script[r].full =>
       files'.sbUnit /\ files'.singbox = "ok" /\ singbox' # "none" /\ singbox' = files'.conf

RedeployRepairs ==
  [][\A r \in Request :
       ~ overlap /\ script[r].pc \in InstallStep /\ script'[r].pc = "ok" => Repaired(r)]_vars

=============================================================================
