------------------------- MODULE NodeInstallProofs -------------------------
(***************************************************************************)
(* What is proved of NodeInstall for any number of requests, endpoints and *)
(* faults: its types, that "deploying" always has a deploy behind it, what *)
(* a node keeps to as long as no two requests overlap, what a redeploy     *)
(* repairs, and that "deployed" and "applied" are true of the node.        *)
(*                                                                         *)
(* Three invariants carry it, each on top of the one before it.  HostInv   *)
(* is about which work goes on at all.  InstallInv, as long as no request  *)
(* overlapped another one: what an install script has put in place by each *)
(* of its steps, and that a request's copy of the row is still right where *)
(* it will be used.  PromiseInv, as long as nothing died either: units     *)
(* start at boot and the agent has read the files as they are, unless the  *)
(* one script on the node is about to see to it.                           *)
(***************************************************************************)
EXTENDS NodeInstall, TLAPS

-----------------------------------------------------------------------------
(* Types.                                                                  *)

LEMMA EnvIsTyped ==
  ASSUME TypeOK, NEW r \in Request
  PROVE  EnvFor(r) \in Env /\ NoScript \in Script /\ Wiped \in Files /\ CurrentAgent \in Agent \cup {NoAgent}
<1>1. seen[r].token \in Tokens
  BY HostAssumption DEF TypeOK, Row, NoRow, Tokens
<1>2. EnvFor(r) \in Env
  BY <1>1 DEF TypeOK, EnvFor, Env
<1>3. NoScript \in Script
  BY DEF NoScript, Script
<1>4. Wiped \in Files
  BY DEF Wiped, Files
<1>5. CurrentAgent \in Agent \cup {NoAgent}
  BY DEF TypeOK, HostTypeOK, CurrentAgent, AgentStarts, Agent, Files
<1> QED BY <1>2, <1>3, <1>4, <1>5

LEMMA GotoIsTyped ==
  ASSUME TypeOK, NEW r \in Request, NEW s \in ScriptStep \cup {"none", "swapped", "ok", "failed", "dead"},
         Goto(r, s)
  PROVE  script' \in [Request -> Script]
BY DEF TypeOK, HostTypeOK, Goto, Script

\* The shell variables.
LEMMA VariablesAreTyped ==
  ASSUME TypeOK, NEW r \in Request, NEW s \in ScriptStep \cup {"ok"}, NEW b \in BOOLEAN,
         \/ script' = [script EXCEPT ![r].pc = s, ![r].fresh = b]
         \/ script' = [script EXCEPT ![r].fresh = b, ![r].pc = s]
         \/ script' = [script EXCEPT ![r].pc = s, ![r].changed = b]
  PROVE  script' \in [Request -> Script]
BY DEF TypeOK, HostTypeOK, Script

LEMMA TroubleIsTyped ==
  ASSUME TypeOK, Trouble \/ UNCHANGED trouble
  PROVE  trouble' \in 0..MaxTrouble
BY HostAssumption DEF TypeOK, HostTypeOK, Trouble

LEMMA SwapTypes ==
  ASSUME TypeOK, NEW r \in Request, SwapStops(r) \/ SwapMoves(r)
  PROVE  HostTypeOK'
<1>1. script' \in [Request -> Script]
  BY GotoIsTyped DEF SwapStops, SwapMoves, ScriptStep, SwapStep
<1>2. UNCHANGED <<trouble, enabled, singbox>>
  BY DEF SwapStops, SwapMoves, At
<1>3. agent' \in Agent \cup {NoAgent}
  BY DEF TypeOK, HostTypeOK, SwapStops, SwapMoves
<1>4. files' \in Files
  BY DEF TypeOK, HostTypeOK, SwapStops, SwapMoves, Files, Local
<1> QED BY <1>1, <1>2, <1>3, <1>4 DEF TypeOK, HostTypeOK

LEMMA InstallTypes ==
  ASSUME TypeOK, NEW r \in Request, Install(r)
  PROVE  HostTypeOK'
<1>1. script' \in [Request -> Script]
  <2>1. CASE InstallVersion(r)
    <3> DEFINE fresh == script[r].full /\ files.singbox # "ok"
               next  == IF ~ script[r].full THEN "env" ELSE IF fresh THEN "copy" ELSE "config"
    <3>1. fresh \in BOOLEAN /\ next \in ScriptStep
      BY DEF ScriptStep, InstallStep
    <3>2. script' = [script EXCEPT ![r].fresh = fresh, ![r].pc = next]
      BY <2>1 DEF InstallVersion
    <3> HIDE DEF fresh, next
    <3> QED BY <3>1, <3>2, VariablesAreTyped
  <2>2. CASE InstallCopy(r) \/ InstallConfig(r) \/ InstallSingboxStart(r) \/ InstallAgentStart(r)
             \/ InstallFails(r)
    BY <2>2, GotoIsTyped DEF InstallCopy, InstallConfig, InstallSingboxStart, InstallAgentStart,
          InstallFails, Ends, ScriptStep, InstallStep
  <2>3. CASE InstallSingboxUnit(r)
    <3> DEFINE fresh == script[r].fresh \/ ~ files.sbUnit
               next  == "sb.start"
    <3>1. fresh \in BOOLEAN /\ next \in ScriptStep \cup {"ok"}
      BY DEF ScriptStep, InstallStep
    <3>2. script' = [script EXCEPT ![r].pc = next, ![r].fresh = fresh]
      BY <2>3 DEF InstallSingboxUnit, TypeOK, HostTypeOK
    <3> HIDE DEF fresh, next
    <3> QED BY <3>1, <3>2, VariablesAreTyped
  <2>4. CASE InstallEnv(r)
    <3> DEFINE changed == script[r].changed \/ files.env # script[r].env
               next  == IF files.agentBin = "none" THEN "ok" ELSE "agent.unit"
    <3>1. changed \in BOOLEAN /\ next \in ScriptStep \cup {"ok"}
      BY DEF ScriptStep, InstallStep
    <3>2. script' = [script EXCEPT ![r].pc = next, ![r].changed = changed]
      BY <2>4 DEF InstallEnv, TypeOK, HostTypeOK
    <3> HIDE DEF changed, next
    <3> QED BY <3>1, <3>2, VariablesAreTyped
  <2>5. CASE InstallAgentUnit(r)
    <3> DEFINE changed == script[r].changed \/ ~ files.agentUnit
               next  == "agent.start"
    <3>1. changed \in BOOLEAN /\ next \in ScriptStep \cup {"ok"}
      BY DEF ScriptStep, InstallStep
    <3>2. script' = [script EXCEPT ![r].pc = next, ![r].changed = changed]
      BY <2>5 DEF InstallAgentUnit, TypeOK, HostTypeOK
    <3> HIDE DEF changed, next
    <3> QED BY <3>1, <3>2, VariablesAreTyped
  <2> QED BY <2>1, <2>2, <2>3, <2>4, <2>5 DEF Install
<1>2. trouble' \in 0..MaxTrouble
  BY TroubleIsTyped DEF Install, InstallVersion, InstallCopy, InstallConfig, InstallSingboxUnit,
     InstallSingboxStart, InstallEnv, InstallAgentUnit, InstallAgentStart, InstallFails, Ends, At
<1>3. files' \in Files
  BY DEF TypeOK, HostTypeOK, Install, InstallVersion, InstallCopy, InstallConfig, InstallSingboxUnit,
     InstallSingboxStart, InstallEnv, InstallAgentUnit, InstallAgentStart, InstallFails, Ends,
     Files, Config, Script
<1>4. /\ agent' \in Agent \cup {NoAgent}
      /\ enabled' \in SUBSET Service
  BY EnvIsTyped DEF TypeOK, HostTypeOK, Install, InstallVersion, InstallCopy, InstallConfig, InstallSingboxUnit,
     InstallSingboxStart, InstallEnv, InstallAgentUnit, InstallAgentStart, InstallFails, Ends, Service
<1>5. singbox' \in Config \cup {"none"}
  BY DEF TypeOK, HostTypeOK, Install, InstallVersion, InstallCopy, InstallConfig, InstallSingboxUnit,
     InstallSingboxStart, InstallEnv, InstallAgentUnit, InstallAgentStart, InstallFails, Ends, Files
<1> QED BY <1>1, <1>2, <1>3, <1>4, <1>5 DEF HostTypeOK

LEMMA RestTypes ==
  ASSUME TypeOK, NEW r \in Request, Uninstall(r) \/ PushEnv(r) \/ Aborts(r) \/ Dies(r)
  PROVE  HostTypeOK'
<1>1. script' \in [Request -> Script]
  BY GotoIsTyped DEF Uninstall, PushEnv, Aborts, Dies, Ends, ScriptStep, UninstallStep, EnvStep
<1>2. trouble' \in 0..MaxTrouble
  BY TroubleIsTyped DEF Uninstall, PushEnv, Aborts, Dies, Ends, At
<1>3. files' \in Files
  <2>1. CASE Uninstall(r)
    BY <2>1 DEF TypeOK, HostTypeOK, Uninstall, Files, Wiped
  <2>2. CASE PushEnv(r)
    <3>1. script[r].env \in Env \cup {NoEnv}
      BY DEF TypeOK, HostTypeOK, Script
    <3>2. files' = files \/ files' = [files EXCEPT !.dir = TRUE, !.env = script[r].env]
      BY <2>2 DEF PushEnv
    <3> QED BY <3>1, <3>2 DEF TypeOK, HostTypeOK, Files
  <2>3. CASE Aborts(r) \/ Dies(r)
    BY <2>3 DEF TypeOK, HostTypeOK, Aborts, Dies, Ends
  <2> QED BY <2>1, <2>2, <2>3
<1>4. /\ agent' \in Agent \cup {NoAgent}
      /\ enabled' \in SUBSET Service
      /\ singbox' \in Config \cup {"none"}
  BY EnvIsTyped DEF TypeOK, HostTypeOK, Uninstall, PushEnv, Aborts, Dies, Ends
<1> QED BY <1>1, <1>2, <1>3, <1>4 DEF HostTypeOK

LEMMA NodeTypes ==
  ASSUME TypeOK, Respawns \/ Reboots
  PROVE  HostTypeOK'
<1>1. script' \in [Request -> Script]
  BY DEF TypeOK, HostTypeOK, Respawns, Reboots, Script
<1>2. trouble' \in 0..MaxTrouble
  BY TroubleIsTyped DEF Respawns, Reboots
<1>3. agent' \in Agent \cup {NoAgent}
  BY DEF TypeOK, HostTypeOK, Respawns, Reboots, CurrentAgent, AgentStarts, Agent, Files
<1>4. singbox' \in Config \cup {"none"}
  BY DEF TypeOK, HostTypeOK, Respawns, Reboots, Files
<1> QED BY <1>1, <1>2, <1>3, <1>4 DEF TypeOK, HostTypeOK, Respawns, Reboots
\* What a request that begins, or leaves its slot, does to the variables of both modules.
LEMMA BeginTypes ==
  ASSUME TypeOK, NEW r \in Request,
         NEW step \in DeployStep \cup {"idle", "uninstall.run", "push.run"}, Begins(r, step)
  PROVE  /\ at' = [at EXCEPT ![r] = step]
         /\ seen' = [seen EXCEPT ![r] = row]
         /\ at' \in [Request -> DeployStep \cup {"idle", "uninstall.run", "push.run"}]
         /\ seen' \in [Request -> Row \cup {NoRow}]
         /\ endpoint' = endpoint /\ crashed' = crashed
         /\ overlap' \in BOOLEAN
         /\ trouble' \in 0..MaxTrouble
BY TroubleIsTyped DEF TypeOK, Begins, Move, Overlaps

LEMMA LeaveTypes ==
  ASSUME TypeOK, NEW r \in Request, Leave(r)
  PROVE  /\ at' = [at EXCEPT ![r] = "idle"]
         /\ seen' = [seen EXCEPT ![r] = NoRow]
         /\ at' \in [Request -> DeployStep \cup {"idle", "uninstall.run", "push.run"}]
         /\ seen' \in [Request -> Row \cup {NoRow}]
         /\ script' \in [Request -> Script]
         /\ UNCHANGED <<files, enabled, agent, singbox, endpoint, overlap, crashed>>
BY EnvIsTyped DEF TypeOK, HostTypeOK, Leave, Move

LEMMA StartTypes ==
  ASSUME TypeOK, NEW r \in Request, NEW b \in BOOLEAN, Start(r, "version", EnvFor(r), b)
  PROVE  HostTypeOK'
<1>1. seen[r].full \in BOOLEAN
  <2>1. CASE seen[r] \in Row
    BY <2>1 DEF Row
  <2>2. CASE seen[r] = NoRow
    BY <2>2 DEF NoRow
  <2> QED BY <2>1, <2>2 DEF TypeOK
<1>2. [pc |-> "version", full |-> seen[r].full, env |-> EnvFor(r), fresh |-> FALSE, changed |-> b] \in Script
  BY <1>1, EnvIsTyped DEF Script, ScriptStep, InstallStep
<1>3. script' \in [Request -> Script]
  BY <1>2 DEF Start, TypeOK, HostTypeOK
<1> QED BY <1>3 DEF Start, TypeOK, HostTypeOK

LEMMA DeployTypes ==
  ASSUME TypeOK, NEW r \in Request, BeginDeploy(r) \/ Deploy(r)
  PROVE  TypeOK'
<1>1. CASE BeginDeploy(r)
  BY <1>1, BeginTypes DEF BeginDeploy, DeployStep, TypeOK, HostTypeOK
<1>2. CASE DeployCommits(r)
  <2>1. CASE row = NoRow
    BY <1>2, <2>1, LeaveTypes DEF DeployCommits, TypeOK, HostTypeOK
  <2>2. CASE row # NoRow
    <3>1. r \in Tokens /\ row \in Row
      BY <2>2 DEF Tokens, TypeOK
    <3>2. row' \in Row
      BY <1>2, <2>2, <3>1 DEF DeployCommits, Row, Status
    <3> QED BY <1>2, <2>2, <3>2 DEF DeployCommits, TypeOK, HostTypeOK, hostVars, Move, DeployStep
  <2> QED BY <2>1, <2>2
<1>3. CASE DeployLoads(r)
  <2>1. CASE row = NoRow
    BY <1>3, <2>1, LeaveTypes DEF DeployLoads, TypeOK, HostTypeOK
  <2>2. CASE row # NoRow
    BY <1>3, <2>2 DEF DeployLoads, TypeOK, HostTypeOK, hostVars, Move, DeployStep
  <2> QED BY <2>1, <2>2
<1>4. CASE DeployUploads(r)
  <2>1. /\ at' \in [Request -> DeployStep \cup {"idle", "uninstall.run", "push.run"}]
        /\ UNCHANGED <<row, endpoint, seen, overlap, crashed>>
    BY <1>4 DEF DeployUploads, TypeOK, Move, DeployStep
  <2>2. CASE Start(r, "version", EnvFor(r), FALSE)
    BY <2>1, <2>2, StartTypes DEF TypeOK
  <2>3. CASE script' = [script EXCEPT ![r] = [NoScript EXCEPT !.pc = "swap.stop"]] /\ files' = [files EXCEPT !.dir = TRUE]
             /\ UNCHANGED <<enabled, agent, singbox, trouble>>
    <3>1. [NoScript EXCEPT !.pc = "swap.stop"] \in Script
      BY DEF NoScript, Script, ScriptStep, SwapStep
    <3> QED BY <2>1, <2>3, <3>1 DEF TypeOK, HostTypeOK, Files
  <2> QED BY <1>4, <2>2, <2>3 DEF DeployUploads
<1>5. CASE DeployInstalls(r)
  <2>1. /\ at' \in [Request -> DeployStep \cup {"idle", "uninstall.run", "push.run"}]
        /\ UNCHANGED <<row, endpoint, seen, overlap, crashed>>
    BY <1>5 DEF DeployInstalls, TypeOK, Move, DeployStep
  <2> QED BY <1>5, <2>1, StartTypes DEF DeployInstalls, TypeOK
<1>6. CASE DeployEnds(r)
  <2>1. row' \in Row \cup {NoRow}
    BY <1>6 DEF DeployEnds, TypeOK, Row, Status
  <2> QED BY <1>6, <2>1, LeaveTypes DEF DeployEnds, TypeOK, HostTypeOK
<1> QED BY <1>1, <1>2, <1>3, <1>4, <1>5, <1>6 DEF Deploy

LEMMA OtherTypes ==
  ASSUME TypeOK, NEW r \in Request,
         BeginUninstall(r) \/ UninstallEnds(r) \/ BeginPush(r) \/ PushEnds(r)
  PROVE  TypeOK'
<1>1. CASE BeginUninstall(r)
  <2>1. [NoScript EXCEPT !.pc = "stop"] \in Script /\ [NoScript EXCEPT !.pc = "dead"] \in Script
    BY DEF NoScript, Script, ScriptStep, UninstallStep
  <2>2. script' \in [Request -> Script]
    BY <1>1, <2>1 DEF BeginUninstall, TypeOK, HostTypeOK
  <2> QED BY <1>1, <2>2, BeginTypes DEF BeginUninstall, TypeOK, HostTypeOK
<1>2. CASE UninstallEnds(r)
  <2>1. row' \in Row \cup {NoRow}
    BY <1>2 DEF UninstallEnds, Cleaned, TypeOK, Row, Status
  <2>2. trouble' \in 0..MaxTrouble
    BY <1>2, TroubleIsTyped DEF UninstallEnds
  <2> QED BY <1>2, <2>1, <2>2, LeaveTypes DEF UninstallEnds, TypeOK, HostTypeOK
<1>3. CASE BeginPush(r)
  <2>1. [token |-> row.token, endpoint |-> endpoint] \in Env
    BY <1>3, HostAssumption DEF BeginPush, Begins, TypeOK, Row, Env
  <2>2. [NoScript EXCEPT !.pc = "push.env", !.env = [token |-> row.token, endpoint |-> endpoint]] \in Script
    BY <2>1 DEF NoScript, Script, ScriptStep, EnvStep
  <2>3. script' \in [Request -> Script]
    BY <1>3, <2>2 DEF BeginPush, TypeOK, HostTypeOK
  <2> QED BY <1>3, <2>3, BeginTypes DEF BeginPush, TypeOK, HostTypeOK
<1>4. CASE PushEnds(r)
  BY <1>4, LeaveTypes DEF PushEnds, TypeOK, HostTypeOK
<1> QED BY <1>1, <1>2, <1>3, <1>4

LEMMA PanelTypes ==
  ASSUME TypeOK, ResetDeploy \/ DeleteNode \/ ApplySS \/ SetEndpoint \/ PanelCrashes
  PROVE  TypeOK'
<1>1. CASE ResetDeploy
  BY <1>1 DEF ResetDeploy, TypeOK, HostTypeOK, hostVars, Row, NoRow, Status
<1>2. CASE DeleteNode
  BY <1>2 DEF DeleteNode, TypeOK, HostTypeOK, hostVars
<1>3. CASE ApplySS
  <2>1. row' \in Row \cup {NoRow}
    BY <1>3 DEF ApplySS, TypeOK, Row, NoRow
  <2>2. files' \in Files /\ singbox' \in Config \cup {"none"}
    BY <1>3 DEF ApplySS, TypeOK, HostTypeOK, Files, Config
  <2>3. overlap' \in BOOLEAN /\ trouble' \in 0..MaxTrouble
    BY <1>3, TroubleIsTyped DEF ApplySS, Overlaps, TypeOK
  <2> QED BY <1>3, <2>1, <2>2, <2>3 DEF ApplySS, TypeOK, HostTypeOK
<1>4. CASE SetEndpoint
  BY <1>4 DEF SetEndpoint, TypeOK, HostTypeOK, hostVars
<1>5. CASE PanelCrashes
  BY <1>5, TroubleIsTyped DEF PanelCrashes, TypeOK, HostTypeOK
<1> QED BY <1>1, <1>2, <1>3, <1>4, <1>5

LEMMA InitTypes == Init => TypeOK
<1> SUFFICES ASSUME Init PROVE TypeOK
  OBVIOUS
<1> PICK full \in BOOLEAN, installed \in BOOLEAN :
       LET token == IF installed THEN "first" ELSE None IN
       /\ HostInit(installed, full, [token |-> token, endpoint |-> endpoint])
       /\ row = [status |-> IF installed THEN "deployed" ELSE "not_deployed",
                 token |-> token, ss |-> "never", full |-> full]
  BY DEF Init
<1> DEFINE env == [token |-> IF installed THEN "first" ELSE None, endpoint |-> endpoint]
<1>1. endpoint \in Endpoint \cup {None} /\ env \in Env /\ env.token \in Tokens
  BY DEF Init, Env, Tokens
<1>2. row \in Row
  BY <1>1 DEF Row, Status
<1>3. HostInit(installed, full, env)
  OBVIOUS
<1> HIDE DEF env
<1>4. files \in Files
  BY <1>1, <1>3 DEF HostInit, Files, Wiped, Config
<1>5. /\ enabled \in SUBSET Service
      /\ agent \in Agent \cup {NoAgent}
      /\ singbox \in Config \cup {"none"}
      /\ trouble \in 0..MaxTrouble
  BY <1>1, <1>3, <1>4, HostAssumption DEF HostInit, Service, Agent, Files
<1>6. script \in [Request -> Script]
  <2>1. NoScript \in Script
    BY DEF NoScript, Script
  <2> QED BY <1>3, <2>1 DEF HostInit
<1> QED BY <1>1, <1>2, <1>4, <1>5, <1>6 DEF TypeOK, HostTypeOK, Init

LEMMA NextTypes == TypeOK /\ [Next]_vars => TypeOK'
<1> SUFFICES ASSUME TypeOK, [Next]_vars PROVE TypeOK'
  OBVIOUS
<1>1. ASSUME NEW r \in Request, ScriptRuns(r) \/ Aborts(r) \/ Dies(r), UNCHANGED panelVars
      PROVE  TypeOK'
  <2>1. HostTypeOK'
    BY <1>1, SwapTypes, InstallTypes, RestTypes DEF ScriptRuns
  <2> QED BY <1>1, <2>1 DEF TypeOK, panelVars
<1>2. CASE (Respawns \/ Reboots) /\ UNCHANGED panelVars
  BY <1>2, NodeTypes DEF TypeOK, panelVars
<1>3. CASE UNCHANGED vars
  BY <1>3 DEF vars, hostVars, panelVars, TypeOK, HostTypeOK
<1> QED BY <1>1, <1>2, <1>3, DeployTypes, OtherTypes, PanelTypes DEF Next

(***************************************************************************)
(* Rows, requests, scripts and the node's files keep to their types, for   *)
(* any number of requests, endpoints and faults.                           *)
(***************************************************************************)
THEOREM TypeCorrect == Spec => []TypeOK
BY InitTypes, NextTypes, PTL DEF Spec

-----------------------------------------------------------------------------
(* The inductive invariant of DeployingIsAtWork: the deploy that is at     *)
(* work has yet to load the row, or has loaded "deploying", so that its    *)
(* result differs from what it has loaded and will be written.             *)

AtWork(r) ==
  \/ at[r] = "deploy.load"
  \/ at[r] \in {"deploy.upload", "deploy.swap", "deploy.run"} /\ seen[r].status = "deploying"

DeployingInv ==
  /\ TypeOK
  /\ row.status = "deploying" => crashed \/ \E r \in Request : AtWork(r)

\* Only what happens to one request can end its work on the row.
LEMMA OthersStayAtWork ==
  ASSUME TypeOK, NEW r \in Request, NEW q \in Request \ {r}, AtWork(q),
         NEW s, at' = [at EXCEPT ![r] = s],
         NEW t, seen' = [seen EXCEPT ![r] = t] \/ UNCHANGED seen
  PROVE  AtWork(q)'
BY DEF AtWork, TypeOK

LEMMA NoRowIsDeleted == NoRow.status = "deleted"
BY DEF NoRow

\* A request that is not at work begins or leaves, and sets no row to deploying.
LEMMA BystanderKeepsWork ==
  ASSUME DeployingInv, NEW r \in Request, ~ AtWork(r),
         NEW s, at' = [at EXCEPT ![r] = s],
         NEW t, seen' = [seen EXCEPT ![r] = t] \/ UNCHANGED seen,
         row'.status = "deploying" => row.status = "deploying", UNCHANGED crashed
  PROVE  row'.status = "deploying" => crashed' \/ \E q \in Request : AtWork(q)'
<1> SUFFICES ASSUME row'.status = "deploying", ~ crashed'
             PROVE  \E q \in Request : AtWork(q)'
  OBVIOUS
<1>1. PICK q \in Request : AtWork(q)
  BY DEF DeployingInv
<1> QED BY <1>1, OthersStayAtWork DEF DeployingInv

LEMMA DeployKeepsWork ==
  ASSUME DeployingInv, NEW r \in Request, Deploy(r)
  PROVE  row'.status = "deploying" => crashed' \/ \E q \in Request : AtWork(q)'
<1> SUFFICES ASSUME row'.status = "deploying", ~ crashed'
             PROVE  \E q \in Request : AtWork(q)'
  OBVIOUS
<1> USE NoRowIsDeleted
<1>1. CASE DeployCommits(r)
  <2>1. row # NoRow
    BY <1>1 DEF DeployCommits
  <2> QED BY <1>1, <2>1 DEF DeployCommits, Move, AtWork, DeployingInv, TypeOK
<1>2. CASE DeployLoads(r)
  <2>1. row # NoRow
    BY <1>2 DEF DeployLoads
  <2>2. at'[r] = "deploy.upload" /\ seen'[r] = row /\ row.status = "deploying"
    BY <1>2, <2>1 DEF DeployLoads, Move, DeployingInv, TypeOK
  <2> QED BY <2>2 DEF AtWork
<1>3. CASE DeployUploads(r) \/ DeployInstalls(r)
  <2>1. /\ UNCHANGED <<row, seen, crashed>>
        /\ at[r] \in {"deploy.upload", "deploy.swap"}
        /\ \E s \in {"deploy.swap", "deploy.run"} : at' = [at EXCEPT ![r] = s]
    BY <1>3 DEF DeployUploads, DeployInstalls, Move
  <2>2. PICK q \in Request : AtWork(q)
    BY <2>1 DEF DeployingInv
  <2> QED BY <2>1, <2>2 DEF AtWork, DeployingInv, TypeOK
<1>4. CASE DeployEnds(r)
  <2>1. /\ at' = [at EXCEPT ![r] = "idle"] /\ seen' = [seen EXCEPT ![r] = NoRow]
        /\ UNCHANGED crashed
        /\ at[r] \in {"deploy.upload", "deploy.swap", "deploy.run"}
        /\ \E status \in {"deployed", "failed"} :
             row' = IF row # NoRow /\ seen[r].status # status THEN [row EXCEPT !.status = status] ELSE row
    BY <1>4 DEF DeployEnds, Leave, Move
  <2>2. seen[r].status # "deploying" /\ row.status = "deploying"
    BY <2>1 DEF DeployingInv, TypeOK, Row
  <2>3. ~ AtWork(r)
    BY <2>1, <2>2 DEF AtWork
  <2> QED BY <2>1, <2>2, <2>3, BystanderKeepsWork
<1> QED BY <1>1, <1>2, <1>3, <1>4 DEF Deploy

LEMMA NextKeepsWork ==
  ASSUME DeployingInv, [Next]_vars
  PROVE  row'.status = "deploying" => crashed' \/ \E q \in Request : AtWork(q)'
<1> DEFINE Goal == row'.status = "deploying" => crashed' \/ \E q \in Request : AtWork(q)'
<1> SUFFICES Goal
  OBVIOUS
<1>1. ASSUME NEW r \in Request, BeginDeploy(r) \/ BeginUninstall(r) \/ BeginPush(r) PROVE Goal
  <2>1. /\ \E s : at' = [at EXCEPT ![r] = s]
        /\ \E t : seen' = [seen EXCEPT ![r] = t]
        /\ UNCHANGED <<row, crashed>>
        /\ at[r] = "idle"
    BY <1>1 DEF BeginDeploy, BeginUninstall, BeginPush, Begins, Move, Active
  <2> QED BY <2>1, BystanderKeepsWork DEF AtWork
<1>2. ASSUME NEW r \in Request, UninstallEnds(r) \/ PushEnds(r) PROVE Goal
  <2>1. /\ at' = [at EXCEPT ![r] = "idle"] /\ seen' = [seen EXCEPT ![r] = NoRow]
        /\ UNCHANGED crashed
        /\ row' \in {row, NoRow, Cleaned(r)} /\ (row = NoRow => row' = NoRow)
        /\ at[r] \in {"uninstall.run", "push.run"}
    BY <1>2 DEF UninstallEnds, PushEnds, Leave, Move
  <2>2. row'.status = "deploying" => row.status = "deploying"
    <3>1. CASE row \in Row
      BY <2>1, <3>1, NoRowIsDeleted DEF Cleaned, Row
    <3>2. CASE row = NoRow
      BY <2>1, <3>2
    <3> QED BY <3>1, <3>2 DEF DeployingInv, TypeOK
  <2> QED BY <2>1, <2>2, BystanderKeepsWork DEF AtWork
<1>3. ASSUME UNCHANGED <<at, seen, crashed>>, row'.status = "deploying" => row.status = "deploying"
      PROVE  Goal
  BY <1>3 DEF DeployingInv, AtWork
<1>4. CASE ResetDeploy \/ DeleteNode
  <2>1. row'.status # "deploying"
    BY <1>4, NoRowIsDeleted DEF ResetDeploy, DeleteNode, DeployingInv, TypeOK, Row
  <2> QED BY <2>1
<1>5. CASE ApplySS
  <2>1. row'.status = row.status
    BY <1>5 DEF ApplySS, DeployingInv, TypeOK, Row, NoRow
  <2> QED BY <1>3, <1>5, <2>1 DEF ApplySS
<1>6. CASE PanelCrashes
  BY <1>6 DEF PanelCrashes
<1>7. CASE SetEndpoint
  BY <1>3, <1>7 DEF SetEndpoint
<1>8. CASE UNCHANGED panelVars
  BY <1>3, <1>8 DEF panelVars
<1> QED BY <1>1, <1>2, <1>4, <1>5, <1>6, <1>7, <1>8, DeployKeepsWork DEF Next, vars

(***************************************************************************)
(* A row says deploying only while a deploy is at work on it that will     *)
(* write its result, until a panel dies: for any number of overlapping     *)
(* deploys, resets, uninstalls and deletions.                              *)
(***************************************************************************)
THEOREM DeployingStaysAtWork == Spec => []DeployingIsAtWork
<1>1. Init => DeployingInv
  <2>1. Init => row.status # "deploying"
    BY DEF Init
  <2> QED BY <2>1, InitTypes DEF DeployingInv
<1>2. DeployingInv /\ [Next]_vars => DeployingInv'
  BY NextTypes, NextKeepsWork DEF DeployingInv
<1>3. DeployingInv => DeployingIsAtWork
  BY DEF DeployingInv, DeployingIsAtWork, AtWork, DeployStep
<1> QED BY <1>1, <1>2, <1>3, PTL DEF Spec

-----------------------------------------------------------------------------
(* The inductive invariant of BinaryIsCurrent and UninstalledStaysDown: as *)
(* long as nothing overlapped, at most one request or script works on the  *)
(* node, and what it has done so far is known from its step.               *)

Works(r) == Active(r) \/ Runs(r)
Alone    == \A r, s \in Request : Works(r) /\ Works(s) => r = s

Down    == agent = NoAgent /\ singbox = "none" /\ enabled = {}
NoUnits == ~ files.agentUnit /\ ~ files.sbUnit

ScriptShape(r) ==
  /\ script[r].pc \in {"swap.move", "units", "wipe"} => agent = NoAgent
  /\ script[r].pc \in {"units", "wipe"} => singbox = "none"
  /\ script[r].pc = "wipe" => Down /\ NoUnits
  /\ at[r] = "uninstall.run" =>
       /\ script[r].pc \in UninstallStep \cup {"ok", "failed", "dead"}
       /\ script[r].pc = "ok" => Down /\ NoUnits
  /\ at[r] = "push.run" => script[r].pc \in EnvStep \cup {"ok", "failed", "dead"}
  /\ at[r] \in DeployStep => script[r].pc \notin UninstallStep \cup EnvStep
  /\ at[r] \in {"deploy.commit", "deploy.load", "deploy.upload"} => ~ Runs(r)

BinaryShape == agent # NoAgent => agent.bin = files.agentBin

\* A node that was uninstalled stays as it is until a deploy has committed.
UninstalledShape == row.status = "uninstalled" => Down /\ NoUnits

UninstalledWork(r) ==
  row.status = "uninstalled" =>
    /\ script[r].pc \notin SwapStep \cup InstallStep
    /\ at[r] \in DeployStep => at[r] = "deploy.commit" /\ seen[r].status = "uninstalled"

Shape(r) == BinaryShape /\ UninstalledShape /\ ScriptShape(r) /\ UninstalledWork(r)

HostInv ==
  /\ TypeOK
  /\ ~ overlap =>
       /\ Alone /\ BinaryShape /\ UninstalledShape
       /\ \A r \in Request : ScriptShape(r) /\ UninstalledWork(r)

\* Nobody works beside r.
Lone(r) == \A q \in Request \ {r} : at[q] = "idle" /\ script[q].pc \notin ScriptStep

LEMMA WorkersAreLone ==
  ASSUME HostInv, ~ overlap, NEW r \in Request, Works(r) \/ Quiet
  PROVE  Lone(r) /\ Shape(r)
BY DEF HostInv, Alone, Works, Active, Runs, Quiet, Lone, Shape

LEMMA IdleHasShape ==
  ASSUME NEW q \in Request, at[q] = "idle", script[q].pc \notin ScriptStep
  PROVE  ScriptShape(q) /\ UninstalledWork(q)
BY DEF ScriptShape, UninstalledWork, ScriptStep, SwapStep, InstallStep, UninstallStep, DeployStep

\* What a step of the only request at work has to keep.
LEMMA ShapeIsEnough ==
  ASSUME NEW r \in Request, Lone(r)', Shape(r)', TypeOK'
  PROVE  HostInv'
<1>1. Alone'
  BY DEF Lone, Alone, Works, Active, Runs
<1>2. \A q \in Request \ {r} : (ScriptShape(q) /\ UninstalledWork(q))'
  BY DEF Lone, ScriptShape, UninstalledWork, ScriptStep, SwapStep, InstallStep, UninstallStep, DeployStep, Runs
<1> QED BY <1>1, <1>2 DEF HostInv, Shape

\* A step of r leaves the other requests and their scripts alone.
LEMMA OthersStayIdle ==
  ASSUME NEW r \in Request, Lone(r),
         \A q \in Request \ {r} : at'[q] = at[q] /\ script'[q] = script[q]
  PROVE  Lone(r)'
BY DEF Lone

\* Scripts that stop, install or configure are told apart by their steps.
LEMMA StepsOfScripts ==
  ASSUME TypeOK, NEW r \in Request, Shape(r), Runs(r)
  PROVE  /\ script[r].pc \in SwapStep \cup InstallStep =>
              row.status # "uninstalled" /\ at[r] \notin {"uninstall.run", "push.run"}
         /\ script[r].pc \in UninstallStep => at[r] \notin DeployStep \cup {"push.run"}
         /\ script[r].pc \in EnvStep => at[r] \notin DeployStep \cup {"uninstall.run"}
         /\ at[r] \notin {"deploy.commit", "deploy.load", "deploy.upload"}
BY DEF Shape, ScriptShape, UninstalledWork, Runs, SwapStep, InstallStep, UninstallStep, EnvStep

LEMMA SwapKeeps ==
  ASSUME HostInv, NEW r \in Request, Lone(r), Shape(r), SwapStops(r) \/ SwapMoves(r), UNCHANGED panelVars
  PROVE  Lone(r)' /\ Shape(r)'
<1>1. /\ script[r].pc \in SwapStep
      /\ script'[r].pc \in {"swap.move", "swapped"}
      /\ \A q \in Request \ {r} : at'[q] = at[q] /\ script'[q] = script[q]
      /\ agent' = NoAgent
  BY DEF HostInv, TypeOK, HostTypeOK, Script, SwapStops, SwapMoves, At, Goto, SwapStep, panelVars, Shape, ScriptShape
<1>2. /\ Runs(r)
      /\ row.status # "uninstalled" /\ at[r] \notin {"uninstall.run", "push.run"}
      /\ at[r] \notin {"deploy.commit", "deploy.load", "deploy.upload"}
  BY <1>1, StepsOfScripts DEF HostInv, Runs, ScriptStep
<1>3. Shape(r)'
  BY <1>1, <1>2 DEF Shape, BinaryShape, UninstalledShape, ScriptShape, UninstalledWork, panelVars, Runs,
     UninstallStep, EnvStep
<1> QED BY <1>1, <1>3, OthersStayIdle

LEMMA InstallKeeps ==
  ASSUME HostInv, NEW r \in Request, Lone(r), Shape(r), Install(r) \/ Aborts(r), UNCHANGED panelVars
  PROVE  Lone(r)' /\ Shape(r)'
<1>1. /\ script[r].pc \in InstallStep
      /\ script'[r].pc \in InstallStep \cup {"ok", "failed"}
      /\ \A q \in Request \ {r} : at'[q] = at[q] /\ script'[q] = script[q]
  BY DEF HostInv, TypeOK, HostTypeOK, Script, Install, InstallVersion, InstallCopy, InstallConfig,
     InstallSingboxUnit, InstallSingboxStart, InstallEnv, InstallAgentUnit, InstallAgentStart,
     InstallFails, Aborts, Ends, At, Goto, InstallStep, panelVars
<1>2. agent' \in {agent, CurrentAgent} /\ files'.agentBin = files.agentBin
  BY DEF HostInv, TypeOK, HostTypeOK, Files, Install, InstallVersion, InstallCopy, InstallConfig,
     InstallSingboxUnit, InstallSingboxStart, InstallEnv, InstallAgentUnit, InstallAgentStart,
     InstallFails, Aborts, Ends
<1>3. /\ Runs(r)
      /\ row.status # "uninstalled" /\ at[r] \notin {"uninstall.run", "push.run"}
      /\ at[r] \notin {"deploy.commit", "deploy.load", "deploy.upload"}
  BY <1>1, StepsOfScripts DEF HostInv, Runs, ScriptStep
<1>4. BinaryShape'
  BY <1>2 DEF Shape, BinaryShape, CurrentAgent, NoAgent
<1>5. ScriptShape(r)' /\ UninstalledShape' /\ UninstalledWork(r)'
  BY <1>1, <1>3 DEF UninstalledShape, ScriptShape, UninstalledWork, panelVars,
     InstallStep, UninstallStep, EnvStep
<1> QED BY <1>1, <1>4, <1>5, OthersStayIdle DEF Shape

LEMMA UninstallKeeps ==
  ASSUME HostInv, NEW r \in Request, Lone(r), Shape(r), Uninstall(r), UNCHANGED panelVars
  PROVE  Lone(r)' /\ Shape(r)'
<1>1. /\ script[r].pc \in UninstallStep
      /\ \A q \in Request \ {r} : at'[q] = at[q] /\ script'[q] = script[q]
  BY DEF HostInv, TypeOK, HostTypeOK, Script, Uninstall, At, Goto, UninstallStep, panelVars
<1>2. Runs(r) /\ at[r] \notin DeployStep \cup {"push.run"}
  BY <1>1, StepsOfScripts DEF HostInv, Runs, ScriptStep
<1>3. CASE script[r].pc = "stop"
  <2>1. script'[r].pc = "units" /\ agent' = NoAgent /\ singbox' = "none" /\ UNCHANGED <<files, enabled>>
    BY <1>3 DEF Uninstall, At, Goto, HostInv, TypeOK, HostTypeOK, Script
  <2> QED BY <1>1, <1>2, <2>1, OthersStayIdle DEF Shape, BinaryShape, UninstalledShape, ScriptShape,
            UninstalledWork, panelVars, Down, NoUnits, SwapStep, InstallStep, UninstallStep, DeployStep
<1>4. CASE script[r].pc = "units"
  <2>1. /\ script'[r].pc = "wipe" /\ UNCHANGED <<agent, singbox>> /\ enabled' = {}
        /\ ~ files'.agentUnit /\ ~ files'.sbUnit
    <3>1. /\ Goto(r, "wipe") /\ UNCHANGED <<agent, singbox>> /\ enabled' = {}
          /\ files' = [files EXCEPT !.agentUnit = FALSE, !.sbUnit = FALSE]
      BY <1>4 DEF Uninstall, At
    <3>2. script'[r].pc = "wipe"
      BY <3>1 DEF Goto, HostInv, TypeOK, HostTypeOK, Script
    <3>3. ~ files'.agentUnit /\ ~ files'.sbUnit
      BY <3>1 DEF HostInv, TypeOK, HostTypeOK, Files
    <3> QED BY <3>1, <3>2, <3>3
  <2>2. Down' /\ NoUnits'
    BY <1>4, <2>1 DEF Shape, ScriptShape, Down, NoUnits
  <2> QED BY <1>1, <1>2, <2>1, <2>2, OthersStayIdle DEF Shape, BinaryShape, UninstalledShape, ScriptShape,
            UninstalledWork, panelVars, Down, SwapStep, InstallStep, UninstallStep, DeployStep
<1>5. CASE script[r].pc = "wipe"
  <2>1. /\ script'[r].pc = "ok" /\ UNCHANGED <<agent, singbox, enabled>>
        /\ ~ files'.agentUnit /\ ~ files'.sbUnit
    <3>1. ~ files.agentUnit /\ ~ files.sbUnit
      BY <1>5 DEF Shape, ScriptShape, NoUnits
    <3>2. /\ Goto(r, IF files.sbUnit \/ files.agentUnit THEN "failed" ELSE "ok")
          /\ UNCHANGED <<agent, singbox, enabled>>
          /\ files' = [Wiped EXCEPT !.agentUnit = files.agentUnit, !.sbUnit = files.sbUnit]
      BY <1>5 DEF Uninstall, At
    <3>3. script'[r].pc = "ok"
      BY <3>1, <3>2 DEF Goto, HostInv, TypeOK, HostTypeOK, Script
    <3>4. files'.agentUnit = files.agentUnit /\ files'.sbUnit = files.sbUnit
      BY <3>2 DEF Wiped
    <3> QED BY <3>1, <3>2, <3>3, <3>4
  <2>2. Down' /\ NoUnits'
    BY <1>5, <2>1 DEF Shape, ScriptShape, Down, NoUnits
  <2> QED BY <1>1, <1>2, <2>1, <2>2, OthersStayIdle DEF Shape, BinaryShape, UninstalledShape, ScriptShape,
            UninstalledWork, panelVars, Down, SwapStep, InstallStep, UninstallStep, DeployStep
<1> QED BY <1>1, <1>3, <1>4, <1>5 DEF UninstallStep

LEMMA PushKeeps ==
  ASSUME HostInv, NEW r \in Request, Lone(r), Shape(r), PushEnv(r), UNCHANGED panelVars
  PROVE  Lone(r)' /\ Shape(r)'
<1>1. /\ script[r].pc \in EnvStep
      /\ script'[r].pc \in {"push.start", "ok", "failed"}
      /\ \A q \in Request \ {r} : at'[q] = at[q] /\ script'[q] = script[q]
      /\ UNCHANGED <<singbox, enabled>>
  BY DEF HostInv, TypeOK, HostTypeOK, Script, PushEnv, At, Goto, EnvStep, panelVars
<1>2. /\ files'.agentBin = files.agentBin
      /\ files'.agentUnit = files.agentUnit /\ files'.sbUnit = files.sbUnit
      /\ agent' \in {agent, CurrentAgent}
      /\ ~ files.agentUnit => agent' = agent
  BY DEF HostInv, TypeOK, HostTypeOK, Files, PushEnv
<1>3. /\ Runs(r) /\ at[r] \notin DeployStep \cup {"uninstall.run"}
  BY <1>1, StepsOfScripts DEF HostInv, Runs, ScriptStep
<1>4. BinaryShape'
  BY <1>2 DEF Shape, BinaryShape, CurrentAgent, NoAgent
<1>5. UninstalledShape' /\ UninstalledWork(r)'
  BY <1>1, <1>2, <1>3 DEF Shape, UninstalledShape, UninstalledWork, panelVars, Down, NoUnits, SwapStep, InstallStep
<1>6. ScriptShape(r)'
  BY <1>1, <1>3 DEF ScriptShape, panelVars, EnvStep, DeployStep
<1> QED BY <1>1, <1>4, <1>5, <1>6, OthersStayIdle DEF Shape

LEMMA DeathKeeps ==
  ASSUME HostInv, NEW r \in Request, Lone(r), Shape(r), Dies(r), UNCHANGED panelVars
  PROVE  Lone(r)' /\ Shape(r)'
<1>1. /\ script'[r].pc = "dead"
      /\ \A q \in Request \ {r} : at'[q] = at[q] /\ script'[q] = script[q]
      /\ UNCHANGED <<files, enabled, agent, singbox>>
  BY DEF HostInv, TypeOK, HostTypeOK, Script, Dies, Goto, panelVars
<1>2. Runs(r) /\ at[r] \notin {"deploy.commit", "deploy.load", "deploy.upload"}
  BY StepsOfScripts DEF HostInv, Dies
<1> QED BY <1>1, <1>2, OthersStayIdle DEF Shape, BinaryShape, UninstalledShape, ScriptShape, UninstalledWork,
          panelVars, Down, NoUnits, SwapStep, InstallStep, UninstallStep, EnvStep, DeployStep

\* A request that begins while nothing is at work, or makes the overlap known.
LEMMA BeginKeeps ==
  ASSUME HostInv, ~ overlap, ~ overlap', NEW r \in Request,
         BeginDeploy(r) \/ BeginUninstall(r) \/ BeginPush(r)
  PROVE  Lone(r)' /\ Shape(r)'
<1>1. Quiet /\ at[r] = "idle" /\ script[r].pc \notin ScriptStep
  BY DEF BeginDeploy, BeginUninstall, BeginPush, Begins, Overlaps, Active, Runs
<1>2. Lone(r) /\ Shape(r)
  BY <1>1, WorkersAreLone
<1>3. /\ UNCHANGED <<row, agent, singbox, enabled, files>>
      /\ seen'[r] = row
      /\ \A q \in Request \ {r} : at'[q] = at[q] /\ script'[q] = script[q]
  BY DEF BeginDeploy, BeginUninstall, BeginPush, Begins, Move, HostInv, TypeOK, HostTypeOK
<1>4. \/ at'[r] = "deploy.commit" /\ script'[r].pc \notin ScriptStep
      \/ at'[r] = "uninstall.run" /\ script'[r].pc \in {"stop", "dead"}
      \/ at'[r] = "push.run" /\ script'[r].pc = "push.env"
  <2>1. CASE BeginDeploy(r)
    BY <1>1, <2>1 DEF BeginDeploy, Begins, Move, HostInv, TypeOK
  <2>2. CASE BeginUninstall(r)
    BY <2>2 DEF BeginUninstall, Begins, Move, NoScript, HostInv, TypeOK, HostTypeOK
  <2>3. CASE BeginPush(r)
    BY <2>3 DEF BeginPush, Begins, Move, NoScript, HostInv, TypeOK, HostTypeOK
  <2> QED BY <2>1, <2>2, <2>3
<1>5. BinaryShape' /\ UninstalledShape'
  BY <1>2, <1>3 DEF Shape, BinaryShape, UninstalledShape, Down, NoUnits
<1>6. ScriptShape(r)'
  BY <1>3, <1>4 DEF ScriptShape, Runs, ScriptStep, SwapStep, UninstallStep, EnvStep, DeployStep
<1>7. UninstalledWork(r)'
  BY <1>3, <1>4 DEF UninstalledWork, ScriptStep, SwapStep, InstallStep, UninstallStep, EnvStep, DeployStep
<1> QED BY <1>2, <1>3, <1>5, <1>6, <1>7, OthersStayIdle DEF Shape

\* A request that leaves has done its part; a script of its may go on.
LEMMA LeaveKeeps ==
  ASSUME HostInv, NEW r \in Request, Lone(r), Shape(r), Leave(r),
         row'.status = "uninstalled" =>
           Down /\ NoUnits /\ script[r].pc \notin SwapStep \cup InstallStep
  PROVE  Lone(r)' /\ Shape(r)'
<1>1. /\ at'[r] = "idle"
      /\ script'[r].pc \in {script[r].pc, "none"}
      /\ \A q \in Request \ {r} : at'[q] = at[q] /\ script'[q] = script[q]
      /\ UNCHANGED <<files, enabled, agent, singbox>>
  BY DEF Leave, Move, NoScript, HostInv, TypeOK, HostTypeOK
<1> QED BY <1>1, OthersStayIdle DEF Shape, BinaryShape, UninstalledShape, ScriptShape, UninstalledWork,
          Down, NoUnits, SwapStep, InstallStep, UninstallStep, EnvStep, DeployStep

LEMMA DeployKeeps ==
  ASSUME HostInv, NEW r \in Request, Lone(r), Shape(r), Deploy(r)
  PROVE  Lone(r)' /\ Shape(r)'
<1> USE NoRowIsDeleted
<1>1. CASE DeployCommits(r)
  <2>1. CASE row = NoRow
    BY <1>1, <2>1, LeaveKeeps DEF DeployCommits
  <2>2. CASE row # NoRow
    <3>1. row'.status \in {"deploying", row.status} /\ (seen[r].status # "deploying" => row'.status = "deploying")
      BY <1>1, <2>2 DEF DeployCommits, HostInv, TypeOK, Row
    <3>2. row'.status # "uninstalled"
      BY <1>1, <3>1 DEF DeployCommits, Shape, UninstalledWork, DeployStep
    <3>3. /\ at[r] = "deploy.commit" /\ at'[r] = "deploy.load"
          /\ UNCHANGED <<files, enabled, agent, singbox, script>>
          /\ \A q \in Request \ {r} : at'[q] = at[q] /\ script'[q] = script[q]
      BY <1>1, <2>2 DEF DeployCommits, Move, hostVars, HostInv, TypeOK
    <3> QED BY <3>2, <3>3, OthersStayIdle DEF Shape, BinaryShape, UninstalledShape, ScriptShape,
              UninstalledWork, Down, NoUnits, Runs, DeployStep
  <2> QED BY <2>1, <2>2
<1>2. ASSUME at[r] \in DeployStep \ {"deploy.commit"} PROVE row.status # "uninstalled"
  BY <1>2 DEF Shape, UninstalledWork
<1>3. CASE DeployLoads(r)
  <2>1. row' = row /\ row.status # "uninstalled"
    BY <1>2, <1>3 DEF DeployLoads, DeployStep
  <2>2. CASE row = NoRow
    BY <1>3, <2>1, <2>2, LeaveKeeps DEF DeployLoads
  <2>3. CASE row # NoRow
    <3>1. /\ at[r] = "deploy.load" /\ at'[r] = "deploy.upload"
          /\ UNCHANGED <<files, enabled, agent, singbox, script>>
          /\ \A q \in Request \ {r} : at'[q] = at[q] /\ script'[q] = script[q]
      BY <1>3, <2>3 DEF DeployLoads, Move, hostVars, HostInv, TypeOK
    <3> QED BY <2>1, <3>1, OthersStayIdle DEF Shape, BinaryShape, UninstalledShape, ScriptShape,
              UninstalledWork, Down, NoUnits, Runs, DeployStep
  <2> QED BY <2>2, <2>3
<1>4. CASE DeployUploads(r) \/ DeployInstalls(r)
  <2>1. row' = row /\ row.status # "uninstalled"
    BY <1>2, <1>4 DEF DeployUploads, DeployInstalls, DeployStep
  <2>2. /\ at'[r] \in {"deploy.swap", "deploy.run"} /\ script'[r].pc \in {"version", "swap.stop"}
        /\ \A q \in Request \ {r} : at'[q] = at[q] /\ script'[q] = script[q]
        /\ UNCHANGED <<agent, singbox, enabled>> /\ files'.agentBin = files.agentBin
    BY <1>4 DEF DeployUploads, DeployInstalls, Start, Move, NoScript, HostInv, TypeOK, HostTypeOK, Files
  <2> QED BY <2>1, <2>2, OthersStayIdle DEF Shape, BinaryShape, UninstalledShape, ScriptShape,
            UninstalledWork, UninstallStep, EnvStep
<1>5. CASE DeployEnds(r)
  <2>1. Leave(r) /\ row'.status # "uninstalled"
    BY <1>2, <1>5 DEF DeployEnds, DeployStep, HostInv, TypeOK, Row
  <2> QED BY <2>1, LeaveKeeps
<1> QED BY <1>1, <1>3, <1>4, <1>5 DEF Deploy

LEMMA UninstallEndKeeps ==
  ASSUME HostInv, NEW r \in Request, Lone(r), Shape(r), UninstallEnds(r) \/ PushEnds(r)
  PROVE  Lone(r)' /\ Shape(r)'
<1>1. CASE UninstallEnds(r) /\ script[r].pc = "ok"
  <2>1. Down /\ NoUnits /\ script[r].pc \notin SwapStep \cup InstallStep
    BY <1>1 DEF UninstallEnds, Shape, ScriptShape, SwapStep, InstallStep
  <2> QED BY <1>1, <2>1, LeaveKeeps DEF UninstallEnds
<1>2. CASE UNCHANGED row
  BY <1>2, LeaveKeeps DEF UninstallEnds, PushEnds, Shape, UninstalledShape, UninstalledWork
<1> QED BY <1>1, <1>2 DEF UninstallEnds, PushEnds

\* The node by itself: systemd and a restart.
LEMMA NodeKeeps ==
  ASSUME HostInv, Respawns \/ Reboots, UNCHANGED panelVars
  PROVE  HostInv'
<1>1. TypeOK'
  BY NodeTypes DEF HostInv, TypeOK, panelVars
<1> SUFFICES ASSUME ~ overlap
             PROVE  /\ Alone' /\ BinaryShape' /\ UninstalledShape'
                    /\ \A r \in Request : ScriptShape(r)' /\ UninstalledWork(r)'
  BY <1>1 DEF HostInv, panelVars
<1>2. CASE Respawns
  <2>1. agent # NoAgent /\ agent' = CurrentAgent /\ UNCHANGED <<files, enabled, singbox, script>>
    BY <1>2 DEF Respawns
  <2>2. BinaryShape'
    BY <2>1 DEF BinaryShape, CurrentAgent, NoAgent
  <2>3. ~ Down
    BY <2>1 DEF Down
  <2> QED BY <2>1, <2>2, <2>3 DEF HostInv, Alone, Works, Active, Runs, UninstalledShape, ScriptShape, UninstalledWork, panelVars
<1>3. CASE Reboots
  <2>1. \A r \in Request :
          /\ script'[r].pc \notin ScriptStep
          /\ script'[r].pc \in {script[r].pc, "dead"}
          /\ Runs(r) => script'[r].pc = "dead"
    BY <1>3 DEF Reboots, Runs, HostInv, TypeOK, HostTypeOK, Script, ScriptStep, SwapStep, InstallStep, UninstallStep, EnvStep
  <2>2. /\ files' = files /\ enabled' = enabled
        /\ agent' \in {CurrentAgent, NoAgent}
        /\ Down => Down'
    BY <1>3 DEF Reboots, Down
  <2>3. BinaryShape'
    BY <2>2 DEF BinaryShape, CurrentAgent, NoAgent
  <2>4. Alone' /\ UninstalledShape'
    BY <2>1, <2>2 DEF HostInv, Alone, Works, Active, Runs, UninstalledShape, NoUnits, panelVars
  <2>5. ASSUME NEW r \in Request PROVE ScriptShape(r)' /\ UninstalledWork(r)'
    BY <2>1, <2>2 DEF HostInv, ScriptShape, UninstalledWork, panelVars, NoUnits, Runs, ScriptStep,
       SwapStep, InstallStep, UninstallStep, EnvStep
  <2> QED BY <2>3, <2>4, <2>5
<1> QED BY <1>2, <1>3

\* The panel without a request, or all of its requests at once.
LEMMA PanelKeeps ==
  ASSUME HostInv, ResetDeploy \/ DeleteNode \/ ApplySS \/ SetEndpoint \/ PanelCrashes
  PROVE  HostInv'
<1>1. TypeOK'
  BY PanelTypes DEF HostInv
<1> SUFFICES ASSUME ~ overlap'
             PROVE  /\ Alone' /\ BinaryShape' /\ UninstalledShape'
                    /\ \A r \in Request : ScriptShape(r)' /\ UninstalledWork(r)'
  BY <1>1 DEF HostInv
<1>2. ~ overlap
  BY DEF ResetDeploy, DeleteNode, ApplySS, Overlaps, SetEndpoint, PanelCrashes
<1>3. CASE ResetDeploy \/ DeleteNode
  <2>1. row'.status # "uninstalled" /\ UNCHANGED <<hostVars, at, seen>>
    BY <1>3, NoRowIsDeleted DEF ResetDeploy, DeleteNode, HostInv, TypeOK, Row, NoRow
  <2> QED BY <1>2, <2>1 DEF HostInv, Alone, Works, Active, Runs, BinaryShape, UninstalledShape, ScriptShape,
            UninstalledWork, hostVars, Down, NoUnits
<1>4. CASE SetEndpoint
  BY <1>2, <1>4 DEF SetEndpoint, HostInv, Alone, Works, Active, Runs, BinaryShape, UninstalledShape,
     ScriptShape, UninstalledWork, hostVars, Down, NoUnits
<1>5. CASE ApplySS
  <2>1. /\ Quiet /\ row'.status = "deployed" /\ UNCHANGED <<agent, enabled, script, at>>
        /\ files'.agentBin = files.agentBin
    BY <1>2, <1>5 DEF ApplySS, Overlaps, HostInv, TypeOK, HostTypeOK, Row, NoRow, Files
  <2>2. \A r \in Request : at'[r] = "idle" /\ script'[r].pc \notin ScriptStep
    BY <2>1 DEF Quiet, Active, Runs
  <2>3. \A r \in Request : ScriptShape(r)' /\ UninstalledWork(r)'
    BY <2>2 DEF ScriptShape, UninstalledWork, ScriptStep, SwapStep, InstallStep, UninstallStep, DeployStep
  <2> QED BY <1>2, <2>1, <2>2, <2>3 DEF HostInv, Alone, Works, Active, Runs, BinaryShape, UninstalledShape
<1>6. CASE PanelCrashes
  <2>1. /\ \A r \in Request : at'[r] = "idle"
        /\ UNCHANGED <<files, enabled, agent, singbox, script, row>>
    BY <1>6 DEF PanelCrashes
  <2> QED BY <1>2, <2>1 DEF HostInv, Alone, Works, Active, Runs, BinaryShape, UninstalledShape,
            ScriptShape, UninstalledWork, Down, NoUnits, DeployStep
<1> QED BY <1>3, <1>4, <1>5, <1>6

LEMMA InitHost == Init => HostInv
<1> SUFFICES ASSUME Init PROVE HostInv
  OBVIOUS
<1>1. /\ \A r \in Request : at[r] = "idle" /\ script[r].pc \notin ScriptStep
      /\ row.status # "uninstalled"
  BY DEF Init, HostInit, NoScript, ScriptStep, SwapStep, InstallStep, UninstallStep, EnvStep
<1>2. BinaryShape
  BY DEF Init, HostInit, BinaryShape, NoAgent
<1> QED BY <1>1, <1>2, InitTypes, IdleHasShape DEF HostInv, Alone, Works, Active, Runs, UninstalledShape

LEMMA NextHost == HostInv /\ [Next]_vars => HostInv'
<1> SUFFICES ASSUME HostInv, [Next]_vars PROVE HostInv'
  OBVIOUS
<1>1. TypeOK'
  BY NextTypes DEF HostInv
<1>2. CASE (Respawns \/ Reboots) /\ UNCHANGED panelVars
  BY <1>2, NodeKeeps
<1>3. CASE ResetDeploy \/ DeleteNode \/ ApplySS \/ SetEndpoint \/ PanelCrashes
  BY <1>3, PanelKeeps
<1>4. CASE UNCHANGED vars
  BY <1>1, <1>4 DEF vars, hostVars, panelVars, HostInv, Alone, Works, Active, Runs, BinaryShape,
     UninstalledShape, ScriptShape, UninstalledWork, Down, NoUnits
<1>5. ASSUME NEW r \in Request, overlap', TypeOK' PROVE HostInv'
  BY <1>5 DEF HostInv
<1>6. ASSUME NEW r \in Request, BeginDeploy(r) \/ BeginUninstall(r) \/ BeginPush(r)
      PROVE  HostInv'
  <2>1. overlap => overlap'
    BY <1>6 DEF BeginDeploy, BeginUninstall, BeginPush, Begins, Overlaps
  <2> QED BY <1>1, <1>5, <1>6, <2>1, BeginKeeps, ShapeIsEnough
<1>7. ASSUME NEW r \in Request, Deploy(r) \/ UninstallEnds(r) \/ PushEnds(r) PROVE HostInv'
  <2>1. overlap' = overlap /\ Active(r)
    BY <1>7 DEF Deploy, DeployCommits, DeployLoads, DeployUploads, DeployInstalls, DeployEnds,
       UninstallEnds, PushEnds, Leave, Active
  <2>2. ~ overlap => Lone(r) /\ Shape(r)
    BY <2>1, WorkersAreLone DEF Works
  <2> QED BY <1>1, <1>5, <1>7, <2>1, <2>2, DeployKeeps, UninstallEndKeeps, ShapeIsEnough
<1>8. ASSUME NEW r \in Request, ScriptRuns(r) \/ Aborts(r) \/ Dies(r), UNCHANGED panelVars
      PROVE  HostInv'
  <2>1. overlap' = overlap
    BY <1>8 DEF panelVars
  <2>2. Runs(r)
    BY <1>8 DEF ScriptRuns, SwapStops, SwapMoves, Install, InstallVersion, InstallCopy, InstallConfig,
       InstallSingboxUnit, InstallSingboxStart, InstallEnv, InstallAgentUnit, InstallAgentStart,
       InstallFails, Uninstall, PushEnv, Aborts, Dies, At, Runs, ScriptStep, SwapStep, InstallStep,
       UninstallStep, EnvStep
  <2>3. ~ overlap => Lone(r) /\ Shape(r)
    BY <2>2, WorkersAreLone DEF Works
  <2>4. ~ overlap => Lone(r)' /\ Shape(r)'
    BY <1>8, <2>3, SwapKeeps, InstallKeeps, UninstallKeeps, PushKeeps, DeathKeeps DEF ScriptRuns
  <2> QED BY <1>1, <1>5, <2>1, <2>4, ShapeIsEnough
<1> QED BY <1>2, <1>3, <1>4, <1>6, <1>7, <1>8 DEF Next

(***************************************************************************)
(* As long as no request overlapped another one or its script: a running   *)
(* agent is the binary on the disk, and a node shown as uninstalled runs   *)
(* nothing and starts nothing, whatever died in between, how often and     *)
(* where.                                                                  *)
(***************************************************************************)
THEOREM BinaryStaysCurrent == Spec => []BinaryIsCurrent
<1>1. HostInv => BinaryIsCurrent
  BY DEF HostInv, BinaryShape, BinaryIsCurrent
<1> QED BY <1>1, InitHost, NextHost, PTL DEF Spec

THEOREM UninstalledNodesStayDown == Spec => []UninstalledStaysDown
<1>1. HostInv => UninstalledStaysDown
  BY DEF HostInv, UninstalledShape, UninstalledStaysDown, Down
<1> QED BY <1>1, InitHost, NextHost, PTL DEF Spec

-----------------------------------------------------------------------------
(***************************************************************************)
(* As long as nothing overlapped: what an install script has put in place  *)
(* up to its step, and what a request knows of the row.                    *)
(***************************************************************************)
SingboxShape == singbox # "none" => singbox = files.conf

\* The steps after those of sing-box.
LateStep == {"env", "agent.unit", "agent.start"}
HasSingbox(r) == script[r].full /\ script[r].pc \in LateStep

InstallShape(r) ==
  /\ script[r].pc \in InstallStep \cup EnvStep => script[r].env \in Env
  /\ script[r].pc \in {"sb.unit", "sb.start"} \/ HasSingbox(r) => files.singbox = "ok" /\ files.conf # "none"
  /\ script[r].pc = "sb.start" \/ HasSingbox(r) => files.sbUnit
  /\ HasSingbox(r) => singbox # "none"
  /\ script[r].pc \in {"agent.unit", "agent.start"} => files.env = script[r].env

DeployedWork(r) ==
  row.status = "deployed" =>
    /\ script[r].pc \notin SwapStep \cup InstallStep
    /\ at[r] \in DeployStep => at[r] = "deploy.commit"
    /\ at[r] \in {"deploy.commit", "uninstall.run"} => seen[r].status = "deployed"

LoadedWork(r) ==
  /\ at[r] \in {"deploy.upload", "deploy.swap", "deploy.run"} /\ row # NoRow =>
       seen[r].token = row.token /\ seen[r].full = row.full
  /\ at[r] = "deploy.run" => /\ script[r].pc \in InstallStep \cup {"ok", "failed", "dead"}
                             /\ script[r].env.token = seen[r].token /\ script[r].full = seen[r].full
  /\ at[r] = "uninstall.run" /\ row # NoRow => seen[r].ss = row.ss
  /\ script[r].pc \in EnvStep /\ row # NoRow => script[r].env.token = row.token

InstallInv ==
  ~ overlap => SingboxShape /\ \A r \in Request : InstallShape(r) /\ DeployedWork(r) /\ LoadedWork(r)


-----------------------------------------------------------------------------
(* The install script.                                                     *)

LEMMA EnvsAreEnvs ==
  ASSUME NEW e \in Env
  PROVE  e # NoEnv
BY HostAssumption DEF Env, NoEnv

Inst(r) == SingboxShape /\ InstallShape(r) /\ DeployedWork(r) /\ LoadedWork(r)

\* What is known of the only request at work says everything.
LEMMA InstIsEnough ==
  ASSUME NEW r \in Request, Lone(r)', Inst(r)'
  PROVE  InstallInv'
<1>1. ASSUME NEW q \in Request \ {r} PROVE (InstallShape(q) /\ DeployedWork(q) /\ LoadedWork(q))'
  BY DEF Lone, InstallShape, DeployedWork, LoadedWork, HasSingbox, LateStep, ScriptStep, SwapStep,
     InstallStep, UninstallStep, EnvStep, DeployStep
<1> QED BY <1>1 DEF Inst, InstallInv

\* A step of a script moves on within the script and keeps what it was told.
LEMMA ScriptMovesOn ==
  ASSUME TypeOK, NEW r \in Request, ScriptRuns(r) \/ Aborts(r) \/ Dies(r)
  PROVE  /\ \A q \in Request \ {r} : script'[q] = script[q]
         /\ script'[r].env = script[r].env /\ script'[r].full = script[r].full
         /\ Runs(r)
         /\ \A kind \in {InstallStep, SwapStep, UninstallStep, EnvStep} : script'[r].pc \in kind => script[r].pc \in kind
         /\ script[r].pc \in InstallStep => script'[r].pc \in InstallStep \cup {"ok", "failed", "dead"}
<1>1. CASE SwapStops(r) \/ SwapMoves(r)
  BY <1>1 DEF SwapStops, SwapMoves, At, Goto, Runs, ScriptStep, SwapStep, InstallStep, UninstallStep, EnvStep,
     TypeOK, HostTypeOK, Script
<1>2. CASE Install(r) \/ Aborts(r)
  BY <1>2 DEF Install, InstallVersion, InstallCopy, InstallConfig, InstallSingboxUnit, InstallSingboxStart,
     InstallEnv, InstallAgentUnit, InstallAgentStart, InstallFails, Aborts, Ends, At, Goto, Runs, ScriptStep,
     SwapStep, InstallStep, UninstallStep, EnvStep, TypeOK, HostTypeOK, Script
<1>3. CASE Uninstall(r) \/ PushEnv(r)
  BY <1>3 DEF Uninstall, PushEnv, At, Goto, Runs, ScriptStep, SwapStep, InstallStep, UninstallStep, EnvStep,
     TypeOK, HostTypeOK, Script
<1>4. CASE Dies(r)
  BY <1>4 DEF Dies, Goto, Runs, ScriptStep, SwapStep, InstallStep, UninstallStep, EnvStep,
     TypeOK, HostTypeOK, Script
<1> QED BY <1>1, <1>2, <1>3, <1>4 DEF ScriptRuns

LEMMA WorkStays ==
  ASSUME TypeOK, NEW r \in Request, DeployedWork(r), LoadedWork(r), ScriptRuns(r) \/ Aborts(r) \/ Dies(r),
         UNCHANGED panelVars
  PROVE  DeployedWork(r)' /\ LoadedWork(r)'
<1>1. at[r] = "deploy.run" => script[r].pc \in InstallStep
  BY ScriptMovesOn DEF LoadedWork, Runs, ScriptStep, SwapStep, InstallStep, UninstallStep, EnvStep
<1> QED BY <1>1, ScriptMovesOn DEF DeployedWork, LoadedWork, panelVars

LEMMA InstallKeepsInst ==
  ASSUME TypeOK, NEW r \in Request, SingboxShape, InstallShape(r), Install(r) \/ Aborts(r)
  PROVE  SingboxShape' /\ InstallShape(r)'
<1>0. script[r].env = script'[r].env /\ script'[r].full = script[r].full /\ script[r] \in Script /\ files \in Files
  BY ScriptMovesOn DEF ScriptRuns, TypeOK, HostTypeOK
<1>1. CASE Aborts(r) \/ InstallFails(r)
  <2>1. script'[r].pc = "failed" /\ files' = files /\ singbox' \in {singbox, "none"}
    BY <1>1 DEF Aborts, InstallFails, Ends, Goto, TypeOK, HostTypeOK, Script
  <2> QED BY <2>1 DEF SingboxShape, InstallShape, HasSingbox, LateStep, InstallStep, EnvStep
<1>2. CASE InstallVersion(r)
  <2>1. script[r].full => script'[r].pc \in {"copy", "config"}
    BY <1>2 DEF InstallVersion, TypeOK, HostTypeOK, Script
  <2>2. script'[r].pc \in {"copy", "config", "env"} /\ singbox' = singbox /\ script[r].pc = "version"
    BY <1>2 DEF InstallVersion, At, TypeOK, HostTypeOK, Script
  <2>3. files'.conf = files.conf
    BY <1>0, <1>2 DEF InstallVersion, Files
  <2> QED BY <1>0, <2>1, <2>2, <2>3 DEF SingboxShape, InstallShape, HasSingbox, LateStep, InstallStep
<1>3. CASE InstallCopy(r)
  <2>1. script'[r].pc \in {"copied", "config"} /\ singbox' = singbox /\ script[r].pc \in InstallStep
    BY <1>3 DEF InstallCopy, At, Goto, InstallStep, TypeOK, HostTypeOK, Script
  <2>2. files'.conf = files.conf
    BY <1>0, <1>3 DEF InstallCopy, Files
  <2> QED BY <1>0, <2>1, <2>2 DEF SingboxShape, InstallShape, HasSingbox, LateStep
<1>4. CASE InstallConfig(r)
  <2>1. script'[r].pc = "sb.unit" /\ singbox' = singbox /\ script[r].pc \in InstallStep
    BY <1>4 DEF InstallConfig, At, Goto, InstallStep, TypeOK, HostTypeOK, Script
  <2>2. /\ files.singbox = "ok" /\ files'.singbox = "ok" /\ files'.conf # "none"
        /\ files.conf # "none" => files'.conf = files.conf
    BY <1>0, <1>4 DEF InstallConfig, Files
  <2> QED BY <1>0, <2>1, <2>2 DEF SingboxShape, InstallShape, HasSingbox, LateStep
<1>5. CASE InstallSingboxUnit(r)
  <2>1. script'[r].pc = "sb.start" /\ singbox' = singbox /\ script[r].pc = "sb.unit"
    BY <1>5 DEF InstallSingboxUnit, At, TypeOK, HostTypeOK, Script
  <2>2. files'.singbox = files.singbox /\ files'.conf = files.conf /\ files'.sbUnit = TRUE
    BY <1>0, <1>5 DEF InstallSingboxUnit, Files
  <2> QED BY <1>0, <2>1, <2>2 DEF SingboxShape, InstallShape, HasSingbox, LateStep, InstallStep
<1>6. CASE InstallSingboxStart(r)
  <2>1. script'[r].pc = "env" /\ files' = files /\ script[r].pc = "sb.start" /\ singbox' \in {files.conf, singbox}
        /\ (singbox = "none" => singbox' = files.conf)
    BY <1>6 DEF InstallSingboxStart, At, Goto, TypeOK, HostTypeOK, Script
  <2>2. files.singbox = "ok" /\ files.conf # "none" /\ files.sbUnit
    BY <2>1 DEF InstallShape
  <2> QED BY <1>0, <2>1, <2>2 DEF SingboxShape, InstallShape, HasSingbox, LateStep, InstallStep
<1>7. CASE InstallEnv(r)
  <2>1. script'[r].pc \in {"ok", "agent.unit"} /\ singbox' = singbox /\ script[r].pc = "env"
    BY <1>7 DEF InstallEnv, At, TypeOK, HostTypeOK, Script
  <2>2. files'.singbox = files.singbox /\ files'.conf = files.conf /\ files'.sbUnit = files.sbUnit
        /\ files'.env = script[r].env
    BY <1>0, <1>7 DEF InstallEnv, Files
  <2> QED BY <1>0, <2>1, <2>2 DEF SingboxShape, InstallShape, HasSingbox, LateStep, InstallStep, EnvStep
<1>8. CASE InstallAgentUnit(r)
  <2>1. script'[r].pc = "agent.start" /\ singbox' = singbox /\ script[r].pc = "agent.unit"
    BY <1>8 DEF InstallAgentUnit, At, TypeOK, HostTypeOK, Script
  <2>2. files'.singbox = files.singbox /\ files'.conf = files.conf /\ files'.sbUnit = files.sbUnit
        /\ files'.env = files.env
    BY <1>0, <1>8 DEF InstallAgentUnit, Files
  <2> QED BY <1>0, <2>1, <2>2 DEF SingboxShape, InstallShape, HasSingbox, LateStep, InstallStep, EnvStep
<1>9. CASE InstallAgentStart(r)
  <2>1. script'[r].pc = "ok" /\ singbox' = singbox /\ files' = files
    BY <1>9 DEF InstallAgentStart, Goto, TypeOK, HostTypeOK, Script
  <2> QED BY <1>0, <2>1 DEF SingboxShape, InstallShape, HasSingbox, LateStep, InstallStep, EnvStep
<1> QED BY <1>1, <1>2, <1>3, <1>4, <1>5, <1>6, <1>7, <1>8, <1>9 DEF Install

\* The other scripts.
LEMMA OtherScriptsKeepInst ==
  ASSUME TypeOK, NEW r \in Request, SingboxShape, InstallShape(r), ScriptShape(r),
         SwapStops(r) \/ SwapMoves(r) \/ Uninstall(r) \/ PushEnv(r) \/ Dies(r)
  PROVE  SingboxShape' /\ InstallShape(r)'
<1>1. script'[r].pc \notin InstallStep /\ (script'[r].pc \in EnvStep => script[r].pc \in EnvStep)
  <2>1. script[r].pc \in InstallStep => Dies(r)
    BY DEF SwapStops, SwapMoves, Uninstall, PushEnv, At, InstallStep
  <2>2. Dies(r) => script'[r].pc = "dead"
    BY DEF Dies, Goto, TypeOK, HostTypeOK, Script
  <2> QED BY <2>1, <2>2, ScriptMovesOn DEF ScriptRuns, InstallStep, EnvStep
<1>2. script'[r].env = script[r].env
  BY ScriptMovesOn DEF ScriptRuns
<1>3. SingboxShape'
  <2>1. CASE SwapStops(r) \/ SwapMoves(r) \/ PushEnv(r) \/ Dies(r)
    BY <2>1 DEF SwapStops, SwapMoves, PushEnv, Dies, SingboxShape, TypeOK, HostTypeOK, Files
  <2>2. CASE Uninstall(r)
    BY <2>2 DEF Uninstall, At, SingboxShape, ScriptShape, TypeOK, HostTypeOK, Files
  <2> QED BY <2>1, <2>2
<1> QED BY <1>1, <1>2, <1>3 DEF InstallShape, HasSingbox, LateStep, InstallStep

-----------------------------------------------------------------------------
(* Requests.                                                               *)

\* What a request that begins does to its slot.
LEMMA BeginSets ==
  ASSUME HostInv, ~ overlap, ~ overlap', NEW r \in Request,
         BeginDeploy(r) \/ BeginUninstall(r) \/ BeginPush(r)
  PROVE  /\ Quiet /\ row # NoRow
         /\ UNCHANGED <<row, endpoint, files, enabled, agent, singbox, trouble>>
         /\ seen'[r] = row
         /\ \/ at'[r] = "deploy.commit" /\ script'[r].pc = script[r].pc
            \/ at'[r] = "uninstall.run" /\ script'[r].pc \in {"stop", "dead"}
            \/ /\ at'[r] = "push.run" /\ script'[r].pc = "push.env"
               /\ script'[r].env \in Env /\ script'[r].env.token = row.token
<1>1. /\ Quiet /\ row # NoRow
      /\ UNCHANGED <<row, endpoint, files, enabled, agent, singbox, trouble>>
      /\ seen'[r] = row
  BY DEF BeginDeploy, BeginUninstall, BeginPush, Begins, Overlaps, HostInv, TypeOK
<1>2. CASE BeginDeploy(r)
  BY <1>1, <1>2 DEF BeginDeploy, Begins, Move, HostInv, TypeOK
<1>3. CASE BeginUninstall(r)
  BY <1>1, <1>3 DEF BeginUninstall, Begins, Move, NoScript, HostInv, TypeOK, HostTypeOK
<1>4. CASE BeginPush(r)
  <2>1. [token |-> row.token, endpoint |-> endpoint] \in Env
    BY <1>1 DEF HostInv, TypeOK, Row, Env
  <2> QED BY <1>1, <1>4, <2>1 DEF BeginPush, Begins, Move, NoScript, HostInv, TypeOK, HostTypeOK
<1> QED BY <1>2, <1>3, <1>4

LEMMA BeginKeepsInst ==
  ASSUME HostInv, InstallInv, ~ overlap, ~ overlap', NEW r \in Request,
         BeginDeploy(r) \/ BeginUninstall(r) \/ BeginPush(r)
  PROVE  Inst(r)'
<1>1. Inst(r) /\ script[r].pc \notin ScriptStep /\ row # NoRow
  BY BeginSets DEF InstallInv, Inst, Quiet, Runs
<1>2. SingboxShape'
  BY <1>1, BeginSets DEF Inst, SingboxShape
<1>3. script'[r].pc \notin InstallStep \cup SwapStep
  BY <1>1, BeginSets DEF ScriptStep, SwapStep, InstallStep
<1>4. /\ script'[r].pc \in EnvStep => script'[r].env \in Env /\ script'[r].env.token = row.token
      /\ UNCHANGED <<row, files, singbox>> /\ seen'[r] = row
      /\ at'[r] \in {"deploy.commit", "uninstall.run", "push.run"}
  BY <1>1, BeginSets DEF ScriptStep, EnvStep
<1>5. InstallShape(r)'
  BY <1>3, <1>4 DEF InstallShape, HasSingbox, LateStep, InstallStep
<1>6. DeployedWork(r)' /\ LoadedWork(r)'
  BY <1>3, <1>4 DEF DeployedWork, LoadedWork, DeployStep
<1> QED BY <1>2, <1>5, <1>6 DEF Inst

LEMMA LeaveKeepsInst ==
  ASSUME HostInv, NEW r \in Request, Inst(r), Leave(r),
         row'.status = "deployed" => script[r].pc \notin SwapStep \cup InstallStep,
         row' # NoRow => row # NoRow /\ row'.token = row.token
  PROVE  Inst(r)'
<1>1. /\ at'[r] = "idle"
      /\ script'[r] = script[r] \/ script'[r].pc = "none"
      /\ UNCHANGED <<files, enabled, agent, singbox>>
  BY DEF Leave, Move, NoScript, HostInv, TypeOK, HostTypeOK
<1> QED BY <1>1 DEF Inst, SingboxShape, InstallShape, DeployedWork, LoadedWork, HasSingbox, LateStep,
          SwapStep, InstallStep, EnvStep, DeployStep

LEMMA DeployKeepsInst ==
  ASSUME HostInv, NEW r \in Request, Lone(r), Shape(r), Inst(r), Deploy(r)
  PROVE  Inst(r)'
<1> USE NoRowIsDeleted
<1>0. row \in Row \/ row = NoRow
  BY DEF HostInv, TypeOK
<1>1. CASE DeployCommits(r)
  <2>1. CASE row = NoRow
    BY <1>1, <2>1, LeaveKeepsInst DEF DeployCommits
  <2>2. CASE row # NoRow
    <3>1. row'.status # "deployed"
      BY <1>0, <1>1, <2>2 DEF DeployCommits, Row, Inst, DeployedWork
    <3>2. at'[r] = "deploy.load" /\ UNCHANGED hostVars /\ ~ Runs(r)
      BY <1>1, <2>2 DEF DeployCommits, Move, HostInv, TypeOK, Shape, ScriptShape
    <3> QED BY <3>1, <3>2 DEF Inst, SingboxShape, InstallShape, DeployedWork, LoadedWork, HasSingbox, LateStep,
              hostVars, Runs, ScriptStep
  <2> QED BY <2>1, <2>2
<1>2. CASE DeployLoads(r)
  <2>1. CASE row = NoRow
    BY <1>2, <2>1, LeaveKeepsInst DEF DeployLoads
  <2>2. CASE row # NoRow
    <3>1. at[r] = "deploy.load" /\ at'[r] = "deploy.upload" /\ UNCHANGED <<hostVars, row>> /\ ~ Runs(r) /\ seen'[r] = row
      BY <1>2, <2>2 DEF DeployLoads, Move, HostInv, TypeOK, Shape, ScriptShape
    <3> QED BY <3>1 DEF Inst, SingboxShape, InstallShape, DeployedWork, LoadedWork, HasSingbox, LateStep,
              hostVars, Runs, ScriptStep, DeployStep
  <2> QED BY <2>1, <2>2
<1>3. CASE DeployUploads(r) \/ DeployInstalls(r)
  <2>1. /\ UNCHANGED <<row, seen, singbox>> /\ files'.conf = files.conf
        /\ at[r] \in {"deploy.upload", "deploy.swap"} /\ at'[r] \in {"deploy.swap", "deploy.run"}
    BY <1>3 DEF DeployUploads, DeployInstalls, Start, Move, HostInv, TypeOK, HostTypeOK, Files
  <2>2. \/ at'[r] = "deploy.swap" /\ script'[r].pc = "swap.stop"
        \/ /\ at'[r] = "deploy.run" /\ script'[r].pc = "version"
           /\ script'[r].env = EnvFor(r) /\ script'[r].full = seen[r].full
    BY <1>3 DEF DeployUploads, DeployInstalls, Start, Move, NoScript, HostInv, TypeOK, HostTypeOK
  <2>3. EnvFor(r) \in Env /\ EnvFor(r).token = seen[r].token
    BY EnvIsTyped DEF EnvFor, HostInv
  <2>4. row.status # "deployed"
    BY <2>1 DEF Inst, DeployedWork, DeployStep
  <2> QED BY <2>1, <2>2, <2>3, <2>4 DEF Inst, SingboxShape, InstallShape, DeployedWork, LoadedWork, HasSingbox, LateStep,
              InstallStep, EnvStep
<1>4. CASE DeployEnds(r)
  <2>1. Leave(r) /\ at[r] \in {"deploy.upload", "deploy.swap", "deploy.run"} /\ row.status # "deployed"
    BY <1>4 DEF DeployEnds, Inst, DeployedWork, DeployStep
  <2>2. row'.status = "deployed" => script[r].pc = "ok"
    BY <1>0, <1>4, <2>1 DEF DeployEnds, Row
  <2>3. row' # NoRow => row # NoRow /\ row'.token = row.token
    BY <1>0, <1>4 DEF DeployEnds, Row
  <2> QED BY <2>1, <2>2, <2>3, LeaveKeepsInst DEF SwapStep, InstallStep
<1> QED BY <1>1, <1>2, <1>3, <1>4 DEF Deploy

LEMMA EndKeepsInst ==
  ASSUME HostInv, NEW r \in Request, Inst(r), UninstallEnds(r) \/ PushEnds(r)
  PROVE  Inst(r)'
<1>1. Leave(r) /\ row' \in {row, NoRow, Cleaned(r)} /\ (row = NoRow => row' = NoRow)
  BY DEF UninstallEnds, PushEnds
<1>2. row \in Row => row'.status \in {"deleted", "uninstalled", row.status} /\ (row' # NoRow => row'.token = row.token)
  BY <1>1, NoRowIsDeleted DEF Cleaned, Row
<1> QED BY <1>1, <1>2, NoRowIsDeleted, LeaveKeepsInst DEF Inst, DeployedWork, HostInv, TypeOK

-----------------------------------------------------------------------------
(* The node and the panel by themselves.                                   *)

LEMMA NodeKeepsInst ==
  ASSUME HostInv, InstallInv, Respawns \/ Reboots, UNCHANGED panelVars
  PROVE  InstallInv'
<1> SUFFICES ASSUME ~ overlap
             PROVE  SingboxShape' /\ \A r \in Request : InstallShape(r)' /\ DeployedWork(r)' /\ LoadedWork(r)'
  BY DEF InstallInv, panelVars
<1>1. /\ files' = files /\ singbox' \in {singbox, files.conf, "none"}
      /\ Respawns => singbox' = singbox
  BY DEF Respawns, Reboots
<1>2. ASSUME NEW r \in Request
      PROVE  /\ \/ script'[r] = script[r]
                \/ script'[r].pc = "dead" /\ script'[r].env = script[r].env /\ script'[r].full = script[r].full
             /\ Respawns => script'[r] = script[r]
             /\ ~ Respawns => script'[r].pc \notin ScriptStep
  BY DEF Respawns, Reboots, Runs, HostInv, TypeOK, HostTypeOK, Script, ScriptStep, SwapStep, InstallStep,
     UninstallStep, EnvStep
<1>3. SingboxShape'
  BY <1>1 DEF InstallInv, SingboxShape
<1>4. ASSUME NEW r \in Request PROVE InstallShape(r)'
  BY <1>1, <1>2, <1>4 DEF InstallInv, InstallShape, HasSingbox, LateStep, ScriptStep, InstallStep, EnvStep
<1>5. ASSUME NEW r \in Request PROVE DeployedWork(r)' /\ LoadedWork(r)'
  BY <1>2, <1>5 DEF InstallInv, DeployedWork, LoadedWork, panelVars, SwapStep, InstallStep, EnvStep
<1> QED BY <1>3, <1>4, <1>5

LEMMA PanelKeepsInst ==
  ASSUME HostInv, InstallInv, ResetDeploy \/ DeleteNode \/ ApplySS \/ SetEndpoint \/ PanelCrashes
  PROVE  InstallInv'
<1> USE NoRowIsDeleted
<1> SUFFICES ASSUME ~ overlap'
             PROVE  SingboxShape' /\ \A r \in Request : InstallShape(r)' /\ DeployedWork(r)' /\ LoadedWork(r)'
  BY DEF InstallInv
<1>0. ~ overlap
  BY DEF ResetDeploy, DeleteNode, ApplySS, Overlaps, SetEndpoint, PanelCrashes
<1>1. CASE ResetDeploy \/ DeleteNode
  <2>1. /\ UNCHANGED <<hostVars, at, seen>> /\ row'.status # "deployed"
        /\ row' = NoRow \/ (row # NoRow /\ row'.token = row.token /\ row'.full = row.full /\ row'.ss = row.ss)
    BY <1>1 DEF ResetDeploy, DeleteNode, HostInv, TypeOK, Row
  <2> QED BY <1>0, <2>1 DEF InstallInv, SingboxShape, InstallShape, DeployedWork, LoadedWork, HasSingbox, hostVars
<1>2. CASE SetEndpoint
  BY <1>0, <1>2 DEF SetEndpoint, InstallInv, SingboxShape, InstallShape, DeployedWork, LoadedWork, HasSingbox, hostVars
<1>3. CASE PanelCrashes
  <2>1. (\A r \in Request : at'[r] = "idle") /\ UNCHANGED <<files, singbox, script, row>>
    BY <1>3 DEF PanelCrashes
  <2> QED BY <1>0, <2>1 DEF InstallInv, SingboxShape, InstallShape, DeployedWork, LoadedWork, HasSingbox, DeployStep
<1>4. CASE ApplySS
  <2>1. /\ Quiet /\ UNCHANGED <<script, at>>
        /\ files'.conf = "applied" /\ singbox' \in {"none", "applied"}
    BY <1>0, <1>4 DEF ApplySS, Overlaps, HostInv, TypeOK, HostTypeOK, Files
  <2>2. \A r \in Request : at'[r] = "idle" /\ script'[r].pc \notin ScriptStep
    BY <2>1 DEF Quiet, Active, Runs
  <2>3. SingboxShape'
    BY <2>1 DEF SingboxShape
  <2>4. \A r \in Request : InstallShape(r)' /\ DeployedWork(r)' /\ LoadedWork(r)'
    BY <2>2 DEF InstallShape, DeployedWork, LoadedWork, HasSingbox, LateStep, ScriptStep, SwapStep, InstallStep,
       EnvStep, DeployStep
  <2> QED BY <2>3, <2>4
<1> QED BY <1>1, <1>2, <1>3, <1>4

LEMMA InitInstall == Init => InstallInv
<1> SUFFICES ASSUME Init PROVE InstallInv
  OBVIOUS
<1>1. \A r \in Request : at[r] = "idle" /\ script[r].pc = "none"
  BY DEF Init, HostInit, NoScript
<1>2. singbox = files.conf
  BY DEF Init, HostInit
<1> QED BY <1>1, <1>2 DEF InstallInv, SingboxShape, InstallShape, DeployedWork, LoadedWork, HasSingbox, LateStep,
          SwapStep, InstallStep, EnvStep, DeployStep

\* A script that takes a step is the only work on a node without overlaps.
LEMMA ScriptsAreLone ==
  ASSUME HostInv, InstallInv, ~ overlap, NEW r \in Request, ScriptRuns(r) \/ Aborts(r) \/ Dies(r)
  PROVE  Lone(r) /\ Shape(r) /\ Inst(r)
BY ScriptMovesOn, WorkersAreLone DEF HostInv, Works, InstallInv, Inst

LEMMA NextInstall == HostInv /\ InstallInv /\ [Next]_vars => InstallInv'
<1> SUFFICES ASSUME HostInv, InstallInv, [Next]_vars, ~ overlap' PROVE InstallInv'
  BY DEF InstallInv
<1>1. CASE (Respawns \/ Reboots) /\ UNCHANGED panelVars
  BY <1>1, NodeKeepsInst
<1>2. CASE ResetDeploy \/ DeleteNode \/ ApplySS \/ SetEndpoint \/ PanelCrashes
  BY <1>2, PanelKeepsInst
<1>3. CASE UNCHANGED vars
  BY <1>3 DEF vars, hostVars, panelVars, InstallInv, SingboxShape, InstallShape, DeployedWork, LoadedWork, HasSingbox
<1>4. ASSUME NEW r \in Request, BeginDeploy(r) \/ BeginUninstall(r) \/ BeginPush(r) PROVE InstallInv'
  <2>1. ~ overlap
    BY <1>4 DEF BeginDeploy, BeginUninstall, BeginPush, Begins, Overlaps
  <2> QED BY <1>4, <2>1, BeginKeeps, BeginKeepsInst, InstIsEnough
<1>5. ASSUME NEW r \in Request, Deploy(r) \/ UninstallEnds(r) \/ PushEnds(r) PROVE InstallInv'
  <2>1. overlap' = overlap /\ Active(r)
    BY <1>5 DEF Deploy, DeployCommits, DeployLoads, DeployUploads, DeployInstalls, DeployEnds,
       UninstallEnds, PushEnds, Leave, Active
  <2>2. Lone(r) /\ Shape(r) /\ Inst(r)
    BY <2>1, WorkersAreLone DEF Works, InstallInv, Inst
  <2> QED BY <1>5, <2>1, <2>2, DeployKeeps, UninstallEndKeeps, DeployKeepsInst, EndKeepsInst, InstIsEnough
<1>6. ASSUME NEW r \in Request, ScriptRuns(r) \/ Aborts(r) \/ Dies(r), UNCHANGED panelVars PROVE InstallInv'
  <2>1. ~ overlap
    BY <1>6 DEF panelVars
  <2>2. Lone(r) /\ Shape(r) /\ Inst(r) /\ TypeOK
    BY <1>6, <2>1, ScriptsAreLone DEF HostInv
  <2>3. Lone(r)'
    BY <2>2, <1>6, ScriptMovesOn, OthersStayIdle DEF panelVars
  <2>4. SingboxShape' /\ InstallShape(r)'
    BY <1>6, <2>2, InstallKeepsInst, OtherScriptsKeepInst DEF Inst, Shape, ScriptRuns
  <2>5. DeployedWork(r)' /\ LoadedWork(r)'
    BY <1>6, <2>2, WorkStays DEF Inst
  <2> QED BY <2>3, <2>4, <2>5, InstIsEnough DEF Inst
<1> QED BY <1>1, <1>2, <1>3, <1>4, <1>5, <1>6 DEF Next

-----------------------------------------------------------------------------
(* What a deploy repairs.                                                  *)

\* No step but one of its own ends an install script well.
LEMMA OnlyInstallEndsInstall ==
  ASSUME TypeOK, [Next]_vars, NEW r \in Request, script[r].pc \in InstallStep, script'[r].pc = "ok"
  PROVE  Install(r)
<1>0. script'[r] # script[r] /\ Runs(r)
  BY DEF InstallStep, Runs, ScriptStep
<1>1. ASSUME NEW q \in Request, BeginDeploy(q) \/ BeginUninstall(q) \/ BeginPush(q) PROVE FALSE
  <2>1. q # r
    BY <1>0, <1>1 DEF BeginDeploy, BeginUninstall, BeginPush, Begins
  <2>2. script'[r] = script[r]
    BY <1>1, <2>1 DEF BeginDeploy, BeginUninstall, BeginPush, TypeOK, HostTypeOK
  <2> QED BY <1>0, <2>2
<1>2. ASSUME NEW q \in Request, Deploy(q) \/ UninstallEnds(q) \/ PushEnds(q) PROVE FALSE
  <2>1. CASE Leave(q)
    BY <1>0, <2>1 DEF Leave, TypeOK, HostTypeOK
  <2>2. CASE DeployUploads(q) \/ DeployInstalls(q)
    BY <1>0, <2>2 DEF DeployUploads, DeployInstalls, Start, NoScript, TypeOK, HostTypeOK
  <2>3. CASE DeployCommits(q) \/ DeployLoads(q)
    BY <1>0, <2>1, <2>3 DEF DeployCommits, DeployLoads, hostVars
  <2> QED BY <1>2, <2>1, <2>2, <2>3 DEF Deploy, DeployEnds, UninstallEnds, PushEnds
<1>3. ASSUME NEW q \in Request, ScriptRuns(q) \/ Aborts(q) \/ Dies(q) PROVE Install(r)
  <2>1. q = r
    BY <1>0, <1>3, ScriptMovesOn
  <2>2. ~ Aborts(r) /\ ~ Dies(r)
    BY DEF Aborts, Dies, Ends, Goto, TypeOK, HostTypeOK, Script
  <2>3. script[r].pc \notin SwapStep \cup UninstallStep \cup EnvStep
    BY DEF InstallStep, SwapStep, UninstallStep, EnvStep
  <2> QED BY <1>3, <2>1, <2>2, <2>3 DEF ScriptRuns, SwapStops, SwapMoves, Uninstall, PushEnv, At, SwapStep,
            UninstallStep, EnvStep
<1>4. CASE Respawns \/ Reboots
  BY <1>0, <1>4 DEF Respawns, Reboots, TypeOK, HostTypeOK, Script
<1>5. CASE ResetDeploy \/ DeleteNode \/ ApplySS \/ SetEndpoint \/ PanelCrashes
  BY <1>0, <1>5 DEF ResetDeploy, DeleteNode, ApplySS, SetEndpoint, PanelCrashes, hostVars
<1>6. CASE UNCHANGED vars
  BY <1>0, <1>6 DEF vars, hostVars
<1> QED BY <1>1, <1>2, <1>3, <1>4, <1>5, <1>6 DEF Next

\* The two steps that end it, and what they leave.
LEMMA InstallEndsWell ==
  ASSUME TypeOK, BinaryShape, SingboxShape, NEW r \in Request, InstallShape(r), Install(r), script'[r].pc = "ok"
  PROVE  Repaired(r)
<1>1. (InstallEnv(r) /\ files.agentBin = "none") \/ InstallAgentStart(r)
  BY DEF Install, InstallVersion, InstallCopy, InstallConfig, InstallSingboxUnit, InstallSingboxStart, InstallEnv,
     InstallAgentUnit, InstallFails, Ends, Goto, TypeOK, HostTypeOK, Script
<1>2. script[r].full => files.sbUnit /\ files.singbox = "ok" /\ singbox # "none" /\ singbox = files.conf
  BY <1>1 DEF InstallEnv, InstallAgentStart, At, InstallShape, SingboxShape, HasSingbox, LateStep
<1>3. CASE InstallEnv(r) /\ files.agentBin = "none"
  <2>1. /\ files'.env = script[r].env /\ files'.agentBin = "none" /\ singbox' = singbox
        /\ files'.sbUnit = files.sbUnit /\ files'.singbox = files.singbox /\ files'.conf = files.conf
    BY <1>3 DEF InstallEnv, TypeOK, HostTypeOK, Files
  <2> QED BY <1>2, <2>1 DEF Repaired
<1>4. CASE InstallAgentStart(r)
  <2>1. UNCHANGED <<files, singbox>> /\ files.agentUnit /\ files.env = script[r].env /\ files.env # NoEnv
    BY <1>4, EnvsAreEnvs DEF InstallAgentStart, At, InstallShape, InstallStep
  <2>2. files.agentBin # "none" => CurrentAgent = [bin |-> files.agentBin, env |-> files.env] /\ CurrentAgent # NoAgent
    BY <2>1 DEF CurrentAgent, AgentStarts, NoAgent
  <2>3. agent' = CurrentAgent \/ (agent' = agent /\ agent # NoAgent)
    BY <1>4 DEF InstallAgentStart
  <2>4. files.agentBin # "none" => agent' # NoAgent /\ agent'.bin = files.agentBin
    BY <2>2, <2>3 DEF BinaryShape
  <2> QED BY <1>2, <2>1, <2>4 DEF Repaired
<1> QED BY <1>1, <1>3, <1>4

(***************************************************************************)
(* Whatever died on the node or in the panel, how often and where: as long *)
(* as no request overlapped another one, a deploy whose script ends well   *)
(* leaves complete files, a running agent of the binary on the disk and a  *)
(* sing-box that runs its configuration.  For any number of requests,      *)
(* endpoints and faults.                                                   *)
(***************************************************************************)
THEOREM DeploysRepair == Spec => RedeployRepairs
<1> DEFINE Good == \A r \in Request :
             ~ overlap /\ script[r].pc \in InstallStep /\ script'[r].pc = "ok" => Repaired(r)
<1>1. Init => HostInv /\ InstallInv
  BY InitHost, InitInstall
<1>2. HostInv /\ InstallInv /\ [Next]_vars => (HostInv /\ InstallInv)'
  BY NextHost, NextInstall
<1>3. HostInv /\ InstallInv /\ [Next]_vars => [Good]_vars
  BY OnlyInstallEndsInstall, InstallEndsWell DEF HostInv, InstallInv
<1> QED BY <1>1, <1>2, <1>3, PTL DEF Spec, RedeployRepairs

-----------------------------------------------------------------------------
(***************************************************************************)
(* As long as nothing was interrupted either: services whose units are     *)
(* there start at boot, a running agent has read the files as they are,    *)
(* and the node is what "deployed" and "applied" say; or the one script on *)
(* the node is about to see to it, or is removing the node.                *)
(***************************************************************************)
EnablesAgent(r)   == script[r].pc = "agent.start" /\ script[r].changed
EnablesSingbox(r) == script[r].pc = "sb.start" /\ script[r].fresh
RestartsAgent(r)  ==
  \/ script[r].pc = "push.start"
  \/ script[r].pc \in {"agent.unit", "agent.start"} /\ script[r].changed
Removes(r)        == at[r] = "uninstall.run" /\ script[r].pc \in UninstallStep \cup {"ok"}

AgentIsDue   == \E r \in Request : EnablesAgent(r)
SingboxIsDue == \E r \in Request : EnablesSingbox(r)
RestartIsDue == \E r \in Request : RestartsAgent(r)
RemovalIsOn  == \E r \in Request : Removes(r)

AgentUnitShape   == files.agentUnit => "mesh-agent" \in enabled \/ AgentIsDue
SingboxUnitShape == files.sbUnit => "sing-box" \in enabled \/ SingboxIsDue
AgentShape       == agent # NoAgent => AgentStarts /\ (agent = CurrentAgent \/ RestartIsDue)

Promised(full) ==
  /\ files.agentBin # "none" => files.agentUnit /\ agent # NoAgent
  /\ full => files.sbUnit /\ files.singbox = "ok" /\ singbox # "none"

DeployedShape ==
  row.status = "deployed" => RemovalIsOn \/ (files.env.token = row.token /\ Promised(row.full))

AppliedShape == row.ss = "applied" => files.conf = "applied" \/ RemovalIsOn

\* A deploy that has yet to write its success, a removal that was not given up.
PendingShape(r) ==
  /\ at[r] = "deploy.run" /\ script[r].pc = "ok" => files.env = script[r].env /\ Promised(script[r].full)
  /\ script[r].pc \in UninstallStep => at[r] = "uninstall.run"

NodeShape == AgentUnitShape /\ SingboxUnitShape /\ AgentShape /\ DeployedShape /\ AppliedShape

PromiseInv == Undisturbed => NodeShape /\ \A r \in Request : PendingShape(r)

\* Trouble shows.
LEMMA TroubleShows ==
  ASSUME TypeOK, Trouble
  PROVE  trouble' # 0
BY HostAssumption DEF TypeOK, HostTypeOK, Trouble

\* Nobody but r has anything to see to.
LEMMA OnlyItsWork ==
  ASSUME NEW r \in Request, Lone(r), Lone(r)'
  PROVE  /\ (AgentIsDue <=> EnablesAgent(r)) /\ (AgentIsDue <=> EnablesAgent(r))'
         /\ (SingboxIsDue <=> EnablesSingbox(r)) /\ (SingboxIsDue <=> EnablesSingbox(r))'
         /\ (RestartIsDue <=> RestartsAgent(r)) /\ (RestartIsDue <=> RestartsAgent(r))'
         /\ (RemovalIsOn <=> Removes(r)) /\ (RemovalIsOn <=> Removes(r))'
<1>1. ASSUME NEW q \in Request \ {r}
      PROVE  /\ ~ EnablesAgent(q) /\ ~ EnablesSingbox(q) /\ ~ RestartsAgent(q) /\ ~ Removes(q)
             /\ ~ EnablesAgent(q)' /\ ~ EnablesSingbox(q)' /\ ~ RestartsAgent(q)' /\ ~ Removes(q)'
  BY DEF Lone, EnablesAgent, EnablesSingbox, RestartsAgent, Removes, ScriptStep, InstallStep, EnvStep
<1> QED BY <1>1 DEF AgentIsDue, SingboxIsDue, RestartIsDue, RemovalIsOn

\* The install script, one service at a time.
LEMMA InstallKeepsUnits ==
  ASSUME TypeOK, NEW r \in Request, Lone(r), Lone(r)', Install(r), UNCHANGED trouble,
         InstallShape(r), AgentUnitShape, SingboxUnitShape, AgentShape
  PROVE  AgentUnitShape' /\ SingboxUnitShape' /\ AgentShape'
<1> USE OnlyItsWork DEF AgentUnitShape, SingboxUnitShape, AgentShape, AgentStarts, CurrentAgent
<1>0. /\ files \in Files /\ script[r] \in Script /\ script \in [Request -> Script]
      /\ agent = NoAgent \/ agent \in Agent
  BY DEF TypeOK, HostTypeOK
<1>1. CASE InstallVersion(r)
  <2>1. script[r].pc = "version" /\ script'[r].pc \in {"env", "copy", "config"} /\ UNCHANGED <<enabled, agent>>
    BY <1>0, <1>1 DEF InstallVersion, At, Script
  <2>2. /\ files'.agentBin = files.agentBin /\ files'.env = files.env
        /\ files'.agentUnit = files.agentUnit /\ files'.sbUnit = files.sbUnit
    BY <1>0, <1>1 DEF InstallVersion, Files
  <2> QED BY <2>1, <2>2 DEF EnablesAgent, EnablesSingbox, RestartsAgent
<1>2. CASE InstallCopy(r)
  <2>1. script[r].pc \in {"copy", "copied"} /\ script'[r].pc \in {"copied", "config"} /\ UNCHANGED <<enabled, agent>>
    BY <1>0, <1>2 DEF InstallCopy, At, Goto, Script
  <2>2. /\ files'.agentBin = files.agentBin /\ files'.env = files.env
        /\ files'.agentUnit = files.agentUnit /\ files'.sbUnit = files.sbUnit
    BY <1>0, <1>2 DEF InstallCopy, Files
  <2> QED BY <2>1, <2>2 DEF EnablesAgent, EnablesSingbox, RestartsAgent
<1>3. CASE InstallConfig(r)
  <2>1. script[r].pc = "config" /\ script'[r].pc = "sb.unit" /\ UNCHANGED <<enabled, agent>>
    BY <1>0, <1>3 DEF InstallConfig, At, Goto, Script
  <2>2. /\ files'.agentBin = files.agentBin /\ files'.env = files.env
        /\ files'.agentUnit = files.agentUnit /\ files'.sbUnit = files.sbUnit
    BY <1>0, <1>3 DEF InstallConfig, Files
  <2> QED BY <2>1, <2>2 DEF EnablesAgent, EnablesSingbox, RestartsAgent
<1>4. CASE InstallSingboxUnit(r)
  <2>1. /\ script[r].pc = "sb.unit" /\ script'[r].pc = "sb.start" /\ UNCHANGED <<enabled, agent>>
        /\ ~ files.sbUnit => script'[r].fresh
    BY <1>0, <1>4 DEF InstallSingboxUnit, At, Script
  <2>2. /\ files'.agentBin = files.agentBin /\ files'.env = files.env
        /\ files'.agentUnit = files.agentUnit
    BY <1>0, <1>4 DEF InstallSingboxUnit, Files
  <2> QED BY <2>1, <2>2 DEF EnablesAgent, EnablesSingbox, RestartsAgent
<1>5. CASE InstallSingboxStart(r)
  <2>1. script[r].pc = "sb.start" /\ script'[r].pc = "env" /\ UNCHANGED <<files, agent>>
    BY <1>0, <1>5 DEF InstallSingboxStart, At, Goto, Script
  <2>2. enabled \subseteq enabled' /\ (script[r].fresh => "sing-box" \in enabled')
    BY <1>0, <1>5 DEF InstallSingboxStart
  <2> QED BY <2>1, <2>2 DEF EnablesAgent, EnablesSingbox, RestartsAgent
<1>6. CASE InstallEnv(r)
  <2>1. /\ script[r].pc = "env" /\ UNCHANGED <<enabled, agent>>
        /\ script'[r].pc = IF files.agentBin = "none" THEN "ok" ELSE "agent.unit"
        /\ files.env # script[r].env => script'[r].changed
    BY <1>0, <1>6 DEF InstallEnv, At, Script
  <2>2. /\ files'.agentBin = files.agentBin /\ files'.env = script[r].env
        /\ files'.agentUnit = files.agentUnit /\ files'.sbUnit = files.sbUnit
    BY <1>0, <1>6 DEF InstallEnv, Files
  <2>3. script[r].env # NoEnv
    BY <2>1, EnvsAreEnvs DEF InstallShape, InstallStep
  <2> QED BY <2>1, <2>2, <2>3 DEF EnablesAgent, EnablesSingbox, RestartsAgent
<1>7. CASE InstallAgentUnit(r)
  <2>1. /\ script[r].pc = "agent.unit" /\ script'[r].pc = "agent.start" /\ UNCHANGED <<enabled, agent>>
        /\ script[r].changed \/ ~ files.agentUnit => script'[r].changed
    BY <1>0, <1>7 DEF InstallAgentUnit, At, Script
  <2>2. /\ files'.agentBin = files.agentBin /\ files'.env = files.env
        /\ files'.agentUnit /\ files'.sbUnit = files.sbUnit
    BY <1>0, <1>7 DEF InstallAgentUnit, Files
  <2> QED BY <2>1, <2>2 DEF EnablesAgent, EnablesSingbox, RestartsAgent
<1>8. CASE InstallAgentStart(r)
  <2>1. script[r].pc = "agent.start" /\ script'[r].pc = "ok" /\ UNCHANGED files
    BY <1>0, <1>8 DEF InstallAgentStart, At, Goto, Script
  <2>2. CASE script[r].changed
    <3>1. agent' = CurrentAgent /\ enabled' = enabled \cup {"mesh-agent"}
      BY <1>8, <2>2 DEF InstallAgentStart
    <3> QED BY <2>1, <3>1 DEF EnablesAgent, EnablesSingbox, RestartsAgent
  <2>3. CASE ~ script[r].changed
    <3>1. agent' \in {CurrentAgent, agent} /\ enabled' = enabled /\ (agent # NoAgent => agent' = agent)
      BY <1>8, <2>3 DEF InstallAgentStart
    <3> QED BY <2>1, <2>3, <3>1 DEF EnablesAgent, EnablesSingbox, RestartsAgent
  <2> QED BY <2>2, <2>3
<1>9. CASE InstallFails(r)
  <2>1. trouble' # trouble
    BY <1>9, HostAssumption DEF InstallFails, Ends, Trouble, TypeOK, HostTypeOK
  <2> QED BY <2>1
<1> QED BY <1>1, <1>2, <1>3, <1>4, <1>5, <1>6, <1>7, <1>8, <1>9 DEF Install

Sound(r) == NodeShape /\ PendingShape(r)

LEMMA InstallKeepsNode ==
  ASSUME TypeOK, NEW r \in Request, Lone(r), Lone(r)', Inst(r), BinaryShape, ScriptShape(r), Sound(r),
         Install(r), UNCHANGED <<trouble, panelVars>>
  PROVE  Sound(r)'
<1>1. script[r].pc \in InstallStep /\ script'[r].pc \in InstallStep \cup {"ok", "failed", "dead"}
  BY ScriptMovesOn DEF ScriptRuns, Install, InstallVersion, InstallCopy, InstallConfig, InstallSingboxUnit,
     InstallSingboxStart, InstallEnv, InstallAgentUnit, InstallAgentStart, InstallFails, At, InstallStep
<1>2. AgentUnitShape' /\ SingboxUnitShape' /\ AgentShape'
  BY InstallKeepsUnits DEF Inst, Sound, NodeShape
<1>3. row'.status # "deployed"
  BY <1>1 DEF Inst, DeployedWork, panelVars
<1>4. files.conf # "none" => files'.conf = files.conf
  BY DEF Install, InstallVersion, InstallCopy, InstallConfig, InstallSingboxUnit, InstallSingboxStart,
     InstallEnv, InstallAgentUnit, InstallAgentStart, InstallFails, Ends, TypeOK, HostTypeOK, Files
<1>5. AppliedShape'
  <2>1. ~ RemovalIsOn
    BY <1>1, OnlyItsWork DEF Removes, InstallStep, UninstallStep
  <2> QED BY <1>4, <2>1 DEF Sound, NodeShape, AppliedShape, panelVars
<1>6. PendingShape(r)'
  <2>1. script'[r].pc \notin UninstallStep
    BY <1>1 DEF InstallStep, UninstallStep
  <2>2. script'[r].env = script[r].env /\ script'[r].full = script[r].full
    BY ScriptMovesOn DEF ScriptRuns
  <2>3. script'[r].pc = "ok" =>
          /\ files'.env = script[r].env
          /\ files'.agentBin # "none" => files'.agentUnit /\ agent' # NoAgent
          /\ script[r].full => files'.sbUnit /\ files'.singbox = "ok" /\ singbox' # "none"
    BY InstallEndsWell DEF Inst, Repaired
  <2> QED BY <2>1, <2>2, <2>3 DEF PendingShape, Promised
<1> QED BY <1>2, <1>3, <1>5, <1>6 DEF Sound, NodeShape, DeployedShape

LEMMA SwapKeepsNode ==
  ASSUME TypeOK, NEW r \in Request, Lone(r), Lone(r)', Inst(r), ScriptShape(r), Sound(r),
         SwapStops(r) \/ SwapMoves(r), UNCHANGED panelVars
  PROVE  Sound(r)'
<1>1. /\ script[r].pc \in SwapStep /\ script'[r].pc \in {"swap.move", "swapped"}
      /\ agent' = NoAgent
      /\ enabled' = enabled
  BY DEF SwapStops, SwapMoves, At, Goto, SwapStep, ScriptShape, TypeOK, HostTypeOK, Script
<1>2. files'.agentUnit = files.agentUnit /\ files'.sbUnit = files.sbUnit /\ files'.conf = files.conf
  BY DEF SwapStops, SwapMoves, TypeOK, HostTypeOK, Files
<1>3. AgentUnitShape' /\ SingboxUnitShape' /\ AgentShape'
  BY <1>1, <1>2, OnlyItsWork DEF Sound, NodeShape, AgentUnitShape, SingboxUnitShape, AgentShape, EnablesAgent,
     EnablesSingbox, SwapStep
<1>4. row'.status # "deployed"
  BY <1>1 DEF Inst, DeployedWork, panelVars
<1>5. AppliedShape'
  BY <1>1, <1>2, OnlyItsWork DEF Sound, NodeShape, AppliedShape, Removes, SwapStep, UninstallStep, panelVars
<1>6. PendingShape(r)'
  BY <1>1 DEF PendingShape, UninstallStep
<1> QED BY <1>3, <1>4, <1>5, <1>6 DEF Sound, NodeShape, DeployedShape

LEMMA UninstallKeepsNode ==
  ASSUME TypeOK, NEW r \in Request, Lone(r), Lone(r)', ScriptShape(r), Sound(r),
         Uninstall(r), UNCHANGED panelVars
  PROVE  Sound(r)'
<1>1. /\ script[r].pc \in UninstallStep /\ at[r] = "uninstall.run" /\ at' = at
      /\ script'[r].pc \in {"units", "wipe", "ok"}
  BY DEF Uninstall, At, Goto, UninstallStep, ScriptShape, NoUnits, Sound, PendingShape, panelVars,
     TypeOK, HostTypeOK, Script
<1>2. RemovalIsOn'
  BY <1>1, OnlyItsWork DEF Removes, UninstallStep
<1>3. agent' = NoAgent
  BY DEF Uninstall, At, ScriptShape
<1>4. /\ files'.agentUnit => files.agentUnit /\ enabled' = enabled
      /\ files'.sbUnit => files.sbUnit /\ enabled' = enabled
  <2>1. CASE script[r].pc = "stop"
    BY <2>1 DEF Uninstall, At
  <2>2. CASE script[r].pc = "units"
    BY <2>2 DEF Uninstall, At, TypeOK, HostTypeOK, Files
  <2>3. CASE script[r].pc = "wipe"
    BY <2>3 DEF Uninstall, At, ScriptShape, NoUnits, Wiped
  <2> QED BY <1>1, <2>1, <2>2, <2>3 DEF UninstallStep
<1>5. AgentUnitShape' /\ SingboxUnitShape' /\ AgentShape'
  BY <1>1, <1>3, <1>4, OnlyItsWork DEF Sound, NodeShape, AgentUnitShape, SingboxUnitShape, AgentShape,
     EnablesAgent, EnablesSingbox, UninstallStep
<1>6. PendingShape(r)'
  BY <1>1 DEF PendingShape, UninstallStep
<1> QED BY <1>2, <1>5, <1>6 DEF Sound, NodeShape, DeployedShape, AppliedShape

LEMMA PushKeepsNode ==
  ASSUME TypeOK, NEW r \in Request, Lone(r), Lone(r)', Inst(r), Shape(r), Sound(r),
         PushEnv(r), UNCHANGED panelVars
  PROVE  Sound(r)'
<1>0. /\ script[r].pc \in EnvStep /\ script'[r].pc \in {"push.start", "ok", "failed"}
      /\ UNCHANGED <<enabled, singbox>>
  BY DEF PushEnv, At, Goto, EnvStep, TypeOK, HostTypeOK, Script
<1>1. script[r].env \in Env /\ script[r].env # NoEnv
  BY <1>0, EnvsAreEnvs DEF Inst, InstallShape
<1>2. at[r] \notin DeployStep \cup {"uninstall.run"}
  BY <1>0, StepsOfScripts DEF Runs, ScriptStep
<1>3. ~ RemovalIsOn /\ ~ RemovalIsOn'
  BY <1>2, OnlyItsWork DEF Removes, panelVars
<1>4. /\ files'.agentUnit = files.agentUnit /\ files'.sbUnit = files.sbUnit /\ files'.agentBin = files.agentBin
      /\ files'.conf = files.conf /\ files'.singbox = files.singbox
      /\ files'.env \in {files.env, script[r].env}
  BY DEF PushEnv, TypeOK, HostTypeOK, Files
<1>5. AgentUnitShape' /\ SingboxUnitShape'
  BY <1>0, <1>4, OnlyItsWork DEF Sound, NodeShape, AgentUnitShape, SingboxUnitShape, EnablesAgent, EnablesSingbox, EnvStep
<1>6. AgentShape' /\ (files.agentUnit /\ agent # NoAgent => agent' # NoAgent)
  <2>1. CASE script[r].pc = "push.env"
    <3>1. script'[r].pc = "push.start" /\ agent' = agent
      BY <2>1 DEF PushEnv, At, Goto, TypeOK, HostTypeOK, Script
    <3>2. files' = [files EXCEPT !.dir = TRUE, !.env = script[r].env] /\ files \in Files
      BY <2>1 DEF PushEnv, At, TypeOK, HostTypeOK
    <3>3. files'.env = script[r].env
      BY <3>2 DEF Files
    <3> QED BY <1>1, <1>4, <3>1, <3>3, OnlyItsWork DEF Sound, NodeShape, AgentShape, AgentStarts, RestartsAgent
  <2>2. CASE script[r].pc = "push.start"
    <3>1. agent' = (IF files.agentUnit THEN CurrentAgent ELSE agent) /\ files' = files
      BY <2>2 DEF PushEnv, At
    <3>2. agent # NoAgent => AgentStarts
      BY DEF Sound, NodeShape, AgentShape
    <3>3. AgentStarts => CurrentAgent # NoAgent
      BY DEF CurrentAgent, AgentStarts, NoAgent
    <3>4. CurrentAgent # NoAgent => AgentStarts
      BY DEF CurrentAgent
    <3>5. (AgentStarts <=> AgentStarts') /\ CurrentAgent' = CurrentAgent
      BY <3>1 DEF CurrentAgent, AgentStarts
    <3>6. agent' # NoAgent => AgentStarts /\ agent' = CurrentAgent
      BY <3>1, <3>2, <3>4 DEF AgentStarts
    <3>7. files.agentUnit /\ agent # NoAgent => agent' # NoAgent
      BY <3>1, <3>2, <3>3
    <3> QED BY <3>5, <3>6, <3>7 DEF AgentShape
  <2> QED BY <1>0, <2>1, <2>2 DEF EnvStep
<1>7. DeployedShape'
  <2>1. row # NoRow => script[r].env.token = row.token
    BY <1>0 DEF Inst, LoadedWork
  <2> QED BY <1>3, <1>4, <1>6, <1>0, <2>1, NoRowIsDeleted DEF Sound, NodeShape, DeployedShape, Promised, panelVars
<1>8. AppliedShape'
  BY <1>3, <1>4 DEF Sound, NodeShape, AppliedShape, panelVars
<1>9. PendingShape(r)'
  BY <1>0, <1>2 DEF PendingShape, panelVars, DeployStep, UninstallStep
<1> QED BY <1>5, <1>6, <1>7, <1>8, <1>9 DEF Sound, NodeShape

\* A request begins on a node on which nobody works.
LEMMA BeginKeepsNode ==
  ASSUME HostInv, ~ overlap, ~ overlap', NEW r \in Request, Lone(r), Lone(r)', Sound(r),
         BeginDeploy(r) \/ BeginUninstall(r) \/ BeginPush(r)
  PROVE  Sound(r)'
<1>1. /\ at[r] = "idle" /\ script[r].pc \notin ScriptStep
      /\ UNCHANGED <<row, files, enabled, agent, singbox>>
      /\ script'[r].pc \notin InstallStep \cup SwapStep \cup {"push.start"}
      /\ script'[r].pc \in UninstallStep => at'[r] = "uninstall.run"
      /\ at'[r] # "deploy.run"
  BY BeginSets DEF Quiet, Active, Runs, ScriptStep, InstallStep, SwapStep, UninstallStep, EnvStep
<1>2. /\ ~ EnablesAgent(r) /\ ~ EnablesSingbox(r) /\ ~ RestartsAgent(r) /\ ~ Removes(r)
      /\ ~ EnablesAgent(r)' /\ ~ EnablesSingbox(r)' /\ ~ RestartsAgent(r)'
  BY <1>1 DEF EnablesAgent, EnablesSingbox, RestartsAgent, Removes, ScriptStep, InstallStep, EnvStep
<1>3. AgentUnitShape' /\ SingboxUnitShape' /\ AgentShape'
  BY <1>1, <1>2, OnlyItsWork DEF Sound, NodeShape, AgentUnitShape, SingboxUnitShape, AgentShape, AgentStarts, CurrentAgent
<1>4. DeployedShape' /\ AppliedShape'
  BY <1>1, <1>2, OnlyItsWork DEF Sound, NodeShape, DeployedShape, AppliedShape, Promised
<1> QED BY <1>1, <1>3, <1>4 DEF Sound, NodeShape, PendingShape

\* What a request that leaves has to have written.
LEMMA LeaveKeepsNode ==
  ASSUME HostInv, NEW r \in Request, Lone(r), Lone(r)', Sound(r), Leave(r), script[r].pc \notin UninstallStep,
         row'.status = "deployed" => files.env.token = row'.token /\ Promised(row'.full),
         row'.ss = "applied" => files.conf = "applied"
  PROVE  Sound(r)'
<1>1. /\ at'[r] = "idle"
      /\ script'[r] = script[r] \/ (script'[r].pc = "none" /\ script[r].pc \notin ScriptStep)
      /\ UNCHANGED <<files, enabled, agent, singbox>>
  BY DEF Leave, Move, NoScript, Runs, HostInv, TypeOK, HostTypeOK
<1>2. /\ EnablesAgent(r)' <=> EnablesAgent(r)
      /\ EnablesSingbox(r)' <=> EnablesSingbox(r)
      /\ RestartsAgent(r)' <=> RestartsAgent(r)
  BY <1>1 DEF EnablesAgent, EnablesSingbox, RestartsAgent, ScriptStep, InstallStep, EnvStep
<1>3. AgentUnitShape' /\ SingboxUnitShape' /\ AgentShape'
  BY <1>1, <1>2, OnlyItsWork DEF Sound, NodeShape, AgentUnitShape, SingboxUnitShape, AgentShape, AgentStarts, CurrentAgent
<1>4. DeployedShape' /\ AppliedShape'
  BY <1>1 DEF DeployedShape, AppliedShape, Promised
<1>5. PendingShape(r)'
  BY <1>1 DEF PendingShape, UninstallStep
<1> QED BY <1>3, <1>4, <1>5 DEF Sound, NodeShape

LEMMA DeployKeepsNode ==
  ASSUME HostInv, NEW r \in Request, Lone(r), Lone(r)', Shape(r), Inst(r), Sound(r), Deploy(r)
  PROVE  Sound(r)'
<1> USE NoRowIsDeleted
<1>0. /\ row \in Row \/ row = NoRow
      /\ at[r] \in DeployStep /\ script[r].pc \notin UninstallStep \cup EnvStep
  BY DEF HostInv, TypeOK, Deploy, DeployCommits, DeployLoads, DeployUploads, DeployInstalls, DeployEnds,
     DeployStep, Shape, ScriptShape
<1>1. ~ RemovalIsOn
  BY <1>0, OnlyItsWork DEF Removes, DeployStep
<1>2. /\ row.ss = "applied" => files.conf = "applied"
      /\ row.status = "deployed" => files.env.token = row.token /\ Promised(row.full)
  BY <1>1 DEF Sound, NodeShape, AppliedShape, DeployedShape
<1>3. ASSUME Leave(r), row' = row PROVE Sound(r)'
  BY <1>0, <1>2, <1>3, LeaveKeepsNode
<1>4. CASE DeployCommits(r)
  <2>1. CASE row = NoRow
    BY <1>3, <1>4, <2>1 DEF DeployCommits
  <2>2. CASE row # NoRow
    <3>1. row'.status # "deployed" /\ row'.ss = row.ss
      BY <1>0, <1>4, <2>2 DEF DeployCommits, Row, Inst, DeployedWork
    <3>2. at[r] = "deploy.commit" /\ at'[r] = "deploy.load" /\ UNCHANGED hostVars /\ ~ Runs(r)
      BY <1>4, <2>2 DEF DeployCommits, Move, HostInv, TypeOK, Shape, ScriptShape
    <3>3. AgentUnitShape' /\ SingboxUnitShape' /\ AgentShape'
      BY <3>2, OnlyItsWork DEF Sound, NodeShape, AgentUnitShape, SingboxUnitShape, AgentShape, AgentStarts,
         CurrentAgent, EnablesAgent, EnablesSingbox, RestartsAgent, hostVars
    <3> QED BY <1>2, <3>1, <3>2, <3>3 DEF Sound, NodeShape, DeployedShape, AppliedShape, PendingShape, hostVars,
              Runs, ScriptStep
  <2> QED BY <2>1, <2>2
<1>5. CASE DeployLoads(r)
  <2>1. CASE row = NoRow
    BY <1>3, <1>5, <2>1 DEF DeployLoads
  <2>2. CASE row # NoRow
    <3>1. at[r] = "deploy.load" /\ at'[r] = "deploy.upload" /\ UNCHANGED <<hostVars, row>> /\ ~ Runs(r)
      BY <1>5, <2>2 DEF DeployLoads, Move, HostInv, TypeOK, Shape, ScriptShape
    <3>2. AgentUnitShape' /\ SingboxUnitShape' /\ AgentShape'
      BY <3>1, OnlyItsWork DEF Sound, NodeShape, AgentUnitShape, SingboxUnitShape, AgentShape, AgentStarts,
         CurrentAgent, EnablesAgent, EnablesSingbox, RestartsAgent, hostVars
    <3>3. row'.status # "deployed"
      BY <3>1 DEF Inst, DeployedWork, DeployStep
    <3> QED BY <1>2, <3>1, <3>2, <3>3 DEF Sound, NodeShape, DeployedShape, AppliedShape, PendingShape, hostVars,
              Runs, ScriptStep
  <2> QED BY <2>1, <2>2
<1>6. CASE DeployUploads(r) \/ DeployInstalls(r)
  <2>1. /\ UNCHANGED <<row, enabled, agent, singbox>>
        /\ files'.conf = files.conf /\ files'.env = files.env /\ files'.agentBin = files.agentBin
        /\ files'.agentUnit = files.agentUnit /\ files'.sbUnit = files.sbUnit
    BY <1>6 DEF DeployUploads, DeployInstalls, Start, HostInv, TypeOK, HostTypeOK, Files
  <2>2. script'[r].pc \in {"swap.stop", "version"}
    BY <1>6 DEF DeployUploads, DeployInstalls, Start, NoScript, HostInv, TypeOK, HostTypeOK
  <2>3. script[r].pc \notin {"sb.start", "agent.unit", "agent.start", "push.start"}
    <3>1. CASE DeployUploads(r)
      BY <3>1 DEF DeployUploads, Shape, ScriptShape, Runs, ScriptStep, InstallStep, EnvStep
    <3>2. CASE DeployInstalls(r)
      BY <3>2 DEF DeployInstalls
    <3> QED BY <1>6, <3>1, <3>2
  <2>4. row'.status # "deployed"
    <3>1. at[r] \in {"deploy.upload", "deploy.swap"}
      BY <1>6 DEF DeployUploads, DeployInstalls
    <3> QED BY <2>1, <3>1 DEF Inst, DeployedWork, DeployStep
  <2>5. AgentUnitShape' /\ SingboxUnitShape' /\ AgentShape'
    BY <2>1, <2>2, <2>3, OnlyItsWork DEF Sound, NodeShape, AgentUnitShape, SingboxUnitShape, AgentShape, AgentStarts,
       CurrentAgent, EnablesAgent, EnablesSingbox, RestartsAgent
  <2>6. PendingShape(r)'
    BY <2>2 DEF PendingShape, UninstallStep
  <2> QED BY <1>2, <2>1, <2>4, <2>5, <2>6 DEF Sound, NodeShape, DeployedShape, AppliedShape
<1>7. CASE DeployEnds(r)
  <2>1. Leave(r) /\ at[r] \in {"deploy.upload", "deploy.swap", "deploy.run"} /\ row.status # "deployed"
    BY <1>7 DEF DeployEnds, Inst, DeployedWork, DeployStep
  <2>2. CASE row = NoRow
    BY <1>3, <1>7, <2>1, <2>2 DEF DeployEnds
  <2>3. CASE row \in Row
    <3>1. row'.ss = row.ss /\ row'.token = row.token /\ row'.full = row.full
      BY <1>7, <2>3 DEF DeployEnds, Row
    <3>2. row'.status = "deployed" => at[r] = "deploy.run" /\ script[r].pc = "ok"
      BY <1>7, <2>1, <2>3 DEF DeployEnds, Row
    <3>3. row # NoRow
      BY <2>3 DEF Row, NoRow, Status
    <3>4. row'.status = "deployed" => files.env.token = row.token /\ Promised(row.full)
      BY <3>2, <3>3 DEF Inst, LoadedWork, Sound, PendingShape, Promised
    <3> QED BY <1>0, <1>2, <2>1, <3>1, <3>4, LeaveKeepsNode
  <2> QED BY <1>0, <2>2, <2>3
<1> QED BY <1>4, <1>5, <1>6, <1>7 DEF Deploy

LEMMA EndKeepsNode ==
  ASSUME HostInv, NEW r \in Request, Lone(r), Lone(r)', Shape(r), Inst(r), Sound(r), UNCHANGED trouble,
         UninstallEnds(r) \/ PushEnds(r)
  PROVE  Sound(r)'
<1>0. row \in Row \/ row = NoRow
  BY DEF HostInv, TypeOK
<1>1. CASE PushEnds(r)
  <2>1. at[r] = "push.run" /\ Leave(r) /\ row' = row /\ script[r].pc \notin UninstallStep
    BY <1>1 DEF PushEnds, Sound, PendingShape
  <2>2. ~ RemovalIsOn
    BY <2>1, OnlyItsWork DEF Removes
  <2> QED BY <2>1, <2>2, LeaveKeepsNode DEF Sound, NodeShape, DeployedShape, AppliedShape
<1>2. CASE UninstallEnds(r)
  <2>0. at[r] = "uninstall.run" /\ Leave(r) /\ ~ Trouble
    BY <1>2, HostAssumption DEF UninstallEnds, Trouble, HostInv, TypeOK, HostTypeOK
  <2>1. CASE script[r].pc = "ok"
    <3>1. row' = NoRow \/ (row # NoRow /\ row' = Cleaned(r))
      BY <1>2, <2>0, <2>1 DEF UninstallEnds
    <3>2. CASE row' = NoRow
      BY <2>0, <2>1, <3>2, LeaveKeepsNode DEF NoRow, UninstallStep
    <3>3. CASE row # NoRow /\ row' = Cleaned(r)
      <4>1. row'.status # "deployed"
        BY <1>0, <2>0, <3>3 DEF Cleaned, Row, Inst, DeployedWork
      <4>2. row'.ss # "applied"
        BY <1>0, <2>0, <3>3 DEF Cleaned, Row, Inst, LoadedWork
      <4> QED BY <2>0, <2>1, <4>1, <4>2, LeaveKeepsNode DEF UninstallStep
    <3> QED BY <3>1, <3>2, <3>3
  <2>2. CASE script[r].pc \in {"failed", "dead"}
    <3>1. row' = row
      BY <1>2, <2>0, <2>2 DEF UninstallEnds
    <3>2. ~ RemovalIsOn
      BY <2>2, OnlyItsWork DEF Removes, UninstallStep
    <3> QED BY <2>0, <2>2, <3>1, <3>2, LeaveKeepsNode DEF Sound, NodeShape, DeployedShape, AppliedShape, UninstallStep
  <2> QED BY <1>2, <2>0, <2>1, <2>2 DEF UninstallEnds
<1> QED BY <1>1, <1>2

-----------------------------------------------------------------------------
(* The node and the panel by themselves, and the theorems.                 *)

\* What is known of the only request at work says everything.
LEMMA SoundIsEnough ==
  ASSUME NEW r \in Request, Lone(r)', Sound(r)'
  PROVE  PromiseInv'
<1>1. ASSUME NEW q \in Request \ {r} PROVE PendingShape(q)'
  BY DEF Lone, PendingShape, ScriptStep
<1> QED BY <1>1 DEF Sound, PromiseInv

\* Nobody at work has anything to see to.
LEMMA QuietHasNothingDue ==
  ASSUME \A r \in Request : ~ Runs(r)
  PROVE  ~ AgentIsDue /\ ~ SingboxIsDue /\ ~ RestartIsDue
BY DEF AgentIsDue, SingboxIsDue, RestartIsDue, EnablesAgent, EnablesSingbox, RestartsAgent, Runs, ScriptStep,
   InstallStep, EnvStep

LEMMA NodeKeepsNode ==
  ASSUME HostInv, InstallInv, PromiseInv, ~ overlap, trouble = 0, trouble' = 0,
         Respawns \/ Reboots, UNCHANGED panelVars
  PROVE  PromiseInv'
<1>0. NodeShape /\ (\A r \in Request : PendingShape(r)) /\ SingboxShape
  BY DEF PromiseInv, Undisturbed, InstallInv
<1>1. CASE Respawns
  <2>1. agent # NoAgent /\ AgentStarts /\ agent' = CurrentAgent /\ UNCHANGED <<files, enabled, singbox, script>>
    BY <1>1 DEF Respawns
  <2>2. AgentStarts' /\ CurrentAgent' = CurrentAgent /\ agent' # NoAgent
    BY <2>1 DEF AgentStarts, CurrentAgent, NoAgent
  <2>3. UNCHANGED <<AgentIsDue, SingboxIsDue, RestartIsDue, RemovalIsOn>>
    BY <2>1 DEF AgentIsDue, SingboxIsDue, RestartIsDue, RemovalIsOn, EnablesAgent, EnablesSingbox, RestartsAgent,
       Removes, panelVars
  <2>4. NodeShape'
    BY <1>0, <2>1, <2>2, <2>3 DEF NodeShape, AgentUnitShape, SingboxUnitShape, AgentShape, DeployedShape, AppliedShape,
       Promised, panelVars
  <2>5. ASSUME NEW r \in Request PROVE PendingShape(r)'
    BY <1>0, <2>1, <2>2 DEF PendingShape, Promised, panelVars
  <2> QED BY <2>4, <2>5 DEF PromiseInv
<1>2. CASE Reboots
  <2>1. \A r \in Request : ~ Runs(r)
    BY <1>2, TroubleShows DEF Reboots, HostInv
  <2>2. /\ UNCHANGED <<files, enabled>>
        /\ \A r \in Request : script'[r] = script[r]
        /\ agent' = IF "mesh-agent" \in enabled THEN CurrentAgent ELSE NoAgent
        /\ singbox' = IF "sing-box" \in enabled /\ SingboxStarts THEN files.conf ELSE "none"
    BY <1>2, <2>1 DEF Reboots
  <2>3. ~ AgentIsDue /\ ~ SingboxIsDue /\ ~ RestartIsDue
    BY <2>1, QuietHasNothingDue
  <2>4. RemovalIsOn' <=> RemovalIsOn
    BY <2>2 DEF RemovalIsOn, Removes, panelVars
  <2>5. /\ files.agentUnit => "mesh-agent" \in enabled
        /\ files.sbUnit => "sing-box" \in enabled
        /\ agent # NoAgent => AgentStarts
    BY <1>0, <2>3 DEF NodeShape, AgentUnitShape, SingboxUnitShape, AgentShape
  <2>6. /\ agent # NoAgent /\ files.agentUnit => agent' # NoAgent
        /\ agent' # NoAgent => AgentStarts' /\ agent' = CurrentAgent'
    BY <2>2, <2>5 DEF AgentStarts, CurrentAgent, NoAgent
  <2>7. files.sbUnit /\ files.singbox = "ok" /\ singbox # "none" => singbox' # "none"
    BY <1>0, <2>2, <2>5 DEF SingboxShape, SingboxStarts
  <2>8. AgentUnitShape' /\ SingboxUnitShape' /\ AgentShape'
    BY <2>2, <2>5, <2>6 DEF AgentUnitShape, SingboxUnitShape, AgentShape
  <2>9. DeployedShape' /\ AppliedShape'
    BY <1>0, <2>2, <2>4, <2>6, <2>7 DEF NodeShape, DeployedShape, AppliedShape, Promised, panelVars
  <2>10. ASSUME NEW r \in Request PROVE PendingShape(r)'
    BY <1>0, <2>2, <2>6, <2>7 DEF PendingShape, Promised, panelVars
  <2> QED BY <2>8, <2>9, <2>10 DEF PromiseInv, NodeShape
<1> QED BY <1>1, <1>2

LEMMA PanelKeepsNode ==
  ASSUME HostInv, PromiseInv, ~ overlap, trouble = 0, ~ overlap', trouble' = 0,
         ResetDeploy \/ DeleteNode \/ ApplySS \/ SetEndpoint \/ PanelCrashes
  PROVE  PromiseInv'
<1> USE NoRowIsDeleted
<1>0. NodeShape /\ \A r \in Request : PendingShape(r)
  BY DEF PromiseInv, Undisturbed
<1>1. CASE ResetDeploy \/ DeleteNode
  <2>1. /\ UNCHANGED <<hostVars, at>> /\ row'.status # "deployed"
        /\ row'.ss = "applied" => row.ss = "applied"
    BY <1>1 DEF ResetDeploy, DeleteNode, HostInv, TypeOK, Row, NoRow
  <2>2. UNCHANGED <<AgentIsDue, SingboxIsDue, RestartIsDue, RemovalIsOn>>
    BY <2>1 DEF AgentIsDue, SingboxIsDue, RestartIsDue, RemovalIsOn, EnablesAgent, EnablesSingbox, RestartsAgent,
       Removes, hostVars
  <2> QED BY <1>0, <2>1, <2>2 DEF PromiseInv, NodeShape, AgentUnitShape, SingboxUnitShape, AgentShape, AgentStarts,
            CurrentAgent, DeployedShape, AppliedShape, PendingShape, Promised, hostVars
<1>2. CASE SetEndpoint
  <2>1. UNCHANGED <<hostVars, row, at>>
    BY <1>2 DEF SetEndpoint
  <2>2. UNCHANGED <<AgentIsDue, SingboxIsDue, RestartIsDue, RemovalIsOn>>
    BY <2>1 DEF AgentIsDue, SingboxIsDue, RestartIsDue, RemovalIsOn, EnablesAgent, EnablesSingbox, RestartsAgent,
       Removes, hostVars
  <2> QED BY <1>0, <2>1, <2>2 DEF PromiseInv, NodeShape, AgentUnitShape, SingboxUnitShape, AgentShape, AgentStarts,
            CurrentAgent, DeployedShape, AppliedShape, PendingShape, Promised, hostVars
<1>3. CASE PanelCrashes
  BY <1>3, TroubleShows DEF PanelCrashes, HostInv
<1>4. CASE ApplySS
  <2>1. /\ Quiet /\ UNCHANGED <<script, at, enabled, agent>>
        /\ row.status = "deployed" /\ row'.token = row.token /\ row'.full = row.full
        /\ singbox' = IF singbox = "none" THEN singbox ELSE "applied"
    BY <1>4 DEF ApplySS, Overlaps, HostInv, TypeOK, Row, NoRow
  <2>2. /\ files'.conf = "applied" /\ files'.env = files.env /\ files'.agentBin = files.agentBin
        /\ files'.agentUnit = files.agentUnit /\ files'.sbUnit = files.sbUnit /\ files'.singbox = files.singbox
    BY <1>4 DEF ApplySS, HostInv, TypeOK, HostTypeOK, Files
  <2>3. ~ AgentIsDue /\ ~ SingboxIsDue /\ ~ RestartIsDue /\ ~ RemovalIsOn
    BY <2>1, QuietHasNothingDue DEF Quiet, Active, RemovalIsOn, Removes
  <2>4. AgentUnitShape' /\ SingboxUnitShape' /\ AgentShape'
    BY <1>0, <2>1, <2>2, <2>3 DEF NodeShape, AgentUnitShape, SingboxUnitShape, AgentShape, AgentStarts, CurrentAgent
  <2>5. DeployedShape' /\ AppliedShape'
    BY <1>0, <2>1, <2>2, <2>3 DEF NodeShape, DeployedShape, AppliedShape, Promised
  <2>6. ASSUME NEW r \in Request PROVE PendingShape(r)'
    BY <1>0, <2>1 DEF PendingShape, Quiet, Active
  <2> QED BY <2>4, <2>5, <2>6 DEF PromiseInv, NodeShape
<1> QED BY <1>1, <1>2, <1>3, <1>4

LEMMA InitPromise == Init => PromiseInv
<1> SUFFICES ASSUME Init PROVE PromiseInv
  OBVIOUS
<1> PICK full \in BOOLEAN, installed \in BOOLEAN :
       LET token == IF installed THEN "first" ELSE None IN
       /\ HostInit(installed, full, [token |-> token, endpoint |-> endpoint])
       /\ row = [status |-> IF installed THEN "deployed" ELSE "not_deployed",
                 token |-> token, ss |-> "never", full |-> full]
  BY DEF Init
<1> DEFINE env == [token |-> IF installed THEN "first" ELSE None, endpoint |-> endpoint]
<1>1. env \in Env /\ env.token = row.token
  BY DEF Init, Env, Tokens
<1>2. HostInit(installed, full, env)
  OBVIOUS
<1>3. row.status = "deployed" => installed
  OBVIOUS
<1>4. row.ss = "never" /\ row.full = full
  OBVIOUS
<1>5. env # NoEnv
  BY <1>1, EnvsAreEnvs
<1> HIDE DEF env
<1>6. /\ files.agentUnit => "mesh-agent" \in enabled
      /\ files.sbUnit => "sing-box" \in enabled
  BY <1>2 DEF HostInit, Wiped
<1>7. agent # NoAgent => AgentStarts /\ agent = CurrentAgent
  BY <1>2, <1>5 DEF HostInit, AgentStarts, CurrentAgent
<1>8. installed => files.env = env /\ Promised(full)
  BY <1>2 DEF HostInit, Promised, NoAgent
<1>9. \A r \in Request : at[r] = "idle" /\ script[r].pc = "none"
  BY <1>2 DEF Init, HostInit, NoScript
<1> QED BY <1>1, <1>3, <1>4, <1>6, <1>7, <1>8, <1>9 DEF PromiseInv, NodeShape, AgentUnitShape, SingboxUnitShape,
          AgentShape, DeployedShape, AppliedShape, PendingShape, UninstallStep

DeployInv == HostInv /\ InstallInv /\ PromiseInv

LEMMA NextPromise == DeployInv /\ [Next]_vars => PromiseInv'
<1> SUFFICES ASSUME DeployInv, [Next]_vars, ~ overlap', trouble' = 0 PROVE PromiseInv'
  BY DEF PromiseInv, Undisturbed
<1> USE DEF DeployInv
<1>0. TypeOK /\ trouble \in Nat
  BY HostAssumption DEF HostInv, TypeOK, HostTypeOK
<1>1. CASE (Respawns \/ Reboots) /\ UNCHANGED panelVars
  <2>1. ~ overlap /\ trouble = 0
    BY <1>0, <1>1, TroubleShows DEF panelVars, Respawns, Reboots
  <2> QED BY <1>1, <2>1, NodeKeepsNode
<1>2. CASE ResetDeploy \/ DeleteNode \/ ApplySS \/ SetEndpoint \/ PanelCrashes
  <2>1. ~ overlap /\ trouble = 0
    BY <1>0, <1>2, TroubleShows DEF ResetDeploy, DeleteNode, ApplySS, Overlaps, SetEndpoint, PanelCrashes, hostVars
  <2> QED BY <1>2, <2>1, PanelKeepsNode
<1>3. CASE UNCHANGED vars
  <2>1. UNCHANGED <<AgentIsDue, SingboxIsDue, RestartIsDue, RemovalIsOn>>
    BY <1>3 DEF vars, hostVars, panelVars, AgentIsDue, SingboxIsDue, RestartIsDue, RemovalIsOn, EnablesAgent,
       EnablesSingbox, RestartsAgent, Removes
  <2> QED BY <1>3, <2>1 DEF vars, hostVars, panelVars, PromiseInv, Undisturbed, NodeShape, AgentUnitShape,
            SingboxUnitShape, AgentShape, AgentStarts, CurrentAgent, DeployedShape, AppliedShape, PendingShape, Promised
<1>4. ASSUME ~ overlap, trouble = 0, NEW r \in Request, Works(r) \/ Quiet PROVE Lone(r) /\ Shape(r) /\ Inst(r) /\ Sound(r)
  BY <1>4, WorkersAreLone DEF InstallInv, Inst, PromiseInv, Undisturbed, Sound
<1>5. ASSUME NEW r \in Request, BeginDeploy(r) \/ BeginUninstall(r) \/ BeginPush(r) PROVE PromiseInv'
  <2>1. ~ overlap
    BY <1>5 DEF BeginDeploy, BeginUninstall, BeginPush, Begins, Overlaps
  <2>2. Quiet /\ trouble = 0
    BY <1>5, <2>1, BeginSets
  <2> QED BY <1>4, <1>5, <2>1, <2>2, BeginKeeps, BeginKeepsNode, SoundIsEnough
<1>6. ASSUME NEW r \in Request, Deploy(r) \/ UninstallEnds(r) \/ PushEnds(r) PROVE PromiseInv'
  <2>1. overlap' = overlap /\ Active(r)
    BY <1>6 DEF Deploy, DeployCommits, DeployLoads, DeployUploads, DeployInstalls, DeployEnds,
       UninstallEnds, PushEnds, Leave, Active
  <2>2. trouble' = trouble
    BY <1>0, <1>6, TroubleShows DEF Deploy, DeployCommits, DeployLoads, DeployUploads, DeployInstalls, DeployEnds,
       UninstallEnds, PushEnds, Start, hostVars
  <2>3. Lone(r) /\ Shape(r) /\ Inst(r) /\ Sound(r)
    BY <1>4, <2>1, <2>2 DEF Works
  <2>4. Lone(r)'
    BY <1>6, <2>3, DeployKeeps, UninstallEndKeeps
  <2> QED BY <1>6, <2>2, <2>3, <2>4, DeployKeepsNode, EndKeepsNode, SoundIsEnough
<1>7. ASSUME NEW r \in Request, ScriptRuns(r) \/ Aborts(r) \/ Dies(r), UNCHANGED panelVars PROVE PromiseInv'
  <2>1. ~ Aborts(r) /\ ~ Dies(r)
    BY <1>0, TroubleShows DEF Aborts, Dies, Ends
  <2>2. trouble' = trouble
    BY <1>0, <1>7, <2>1, TroubleShows DEF ScriptRuns, SwapStops, SwapMoves, Install, InstallVersion, InstallCopy,
       InstallConfig, InstallSingboxUnit, InstallSingboxStart, InstallEnv, InstallAgentUnit, InstallAgentStart,
       InstallFails, Ends, Uninstall, PushEnv, At
  <2>3. ~ overlap
    BY <1>7 DEF panelVars
  <2>4. Lone(r) /\ Shape(r) /\ Inst(r) /\ Sound(r)
    BY <1>0, <1>4, <1>7, <2>2, <2>3, ScriptMovesOn DEF Works
  <2>5. Lone(r)'
    BY <1>0, <1>7, <2>4, ScriptMovesOn, OthersStayIdle DEF panelVars
  <2> QED BY <1>0, <1>7, <2>1, <2>2, <2>4, <2>5, InstallKeepsNode, SwapKeepsNode, UninstallKeepsNode, PushKeepsNode,
            SoundIsEnough DEF ScriptRuns, Shape
<1> QED BY <1>1, <1>2, <1>3, <1>5, <1>6, <1>7 DEF Next

LEMMA DeployInvHolds == Spec => []DeployInv
<1>1. Init => DeployInv
  BY InitHost, InitInstall, InitPromise DEF DeployInv
<1>2. DeployInv /\ [Next]_vars => DeployInv'
  BY NextHost, NextInstall, NextPromise DEF DeployInv
<1> QED BY <1>1, <1>2, PTL DEF Spec

\* Nobody at work: nothing is due, and nothing is being removed.
LEMMA QuietIsAsPromised ==
  ASSUME DeployInv, Undisturbed, Quiet
  PROVE  /\ files.agentUnit => "mesh-agent" \in enabled
         /\ files.sbUnit => "sing-box" \in enabled
         /\ agent # NoAgent => agent = CurrentAgent
         /\ singbox # "none" => singbox = files.conf
         /\ row.status = "deployed" => files.env.token = row.token /\ Promised(row.full)
         /\ row.ss = "applied" => files.conf = "applied"
<1>1. ~ AgentIsDue /\ ~ SingboxIsDue /\ ~ RestartIsDue /\ ~ RemovalIsOn
  BY QuietHasNothingDue DEF Quiet, Active, RemovalIsOn, Removes
<1>2. NodeShape /\ SingboxShape
  BY DEF DeployInv, PromiseInv, InstallInv, Undisturbed
<1> QED BY <1>1, <1>2 DEF NodeShape, AgentUnitShape, SingboxUnitShape, AgentShape, DeployedShape, AppliedShape,
          SingboxShape

(***************************************************************************)
(* When nothing was interrupted or overlapped and nobody is at work on the *)
(* node, "deployed" is true: the agent has the token of the row and the    *)
(* files as they are, sing-box runs its configuration, and both start at   *)
(* the next boot; however often the node was deployed, removed, configured *)
(* and restarted before.                                                   *)
(***************************************************************************)
THEOREM DeployedNodesRun == Spec => []DeployedIsRunning
<1>1. DeployInv => DeployedIsRunning
  BY QuietIsAsPromised DEF DeployedIsRunning, Promised
<1> QED BY <1>1, DeployInvHolds, PTL

(***************************************************************************)
(* And "applied" is about the configuration that is on the node.           *)
(***************************************************************************)
THEOREM AppliedStaysInstalled == Spec => []AppliedIsInstalled
<1>1. DeployInv => AppliedIsInstalled
  BY QuietIsAsPromised DEF AppliedIsInstalled
<1> QED BY <1>1, DeployInvHolds, PTL

=============================================================================
