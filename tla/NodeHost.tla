------------------------------ MODULE NodeHost ------------------------------
(***************************************************************************)
(* A node as the panel's SSH scripts find and change it: INSTALL_SH        *)
(* (backend/deploy/scripts.py), UNINSTALL_SH (uninstaller.py), the swap of *)
(* the agent binary and the write of agent.env (installer.py), systemd.    *)
(*                                                                         *)
(* A script runs on the node under the request that started it, but        *)
(* outlives it: the panel may give up or die while the script goes on, and *)
(* the script may die between any two of its steps.  Scripts of different  *)
(* requests are not serialised.                                            *)
(*                                                                         *)
(* A file holds a version or a content; the README, the log lines and the  *)
(* temporary files are left out.                                           *)
(***************************************************************************)
EXTENDS Naturals, FiniteSets

CONSTANTS
  Request,   \* concurrent requests to the panel
  Endpoint,  \* agent endpoints the operator sets
  MaxTrouble, \* how often something dies in the middle of its work, or overlaps another
  None

\* "none" stands for the endpoint of a file that is not there.
ASSUME HostAssumption ==
  /\ {None, "none"} \cap (Request \cup Endpoint) = {} /\ None # "none"
  /\ MaxTrouble \in Nat

VARIABLES
  files,    \* what is on the disk of the node
  enabled,  \* the services that start at boot
  agent,    \* the running mesh-agent: the binary and the agent.env it has read
  singbox,  \* the config.json the running sing-box has read
  script,   \* the remote script of a request
  trouble   \* how often that has happened so far

hostVars == <<files, enabled, agent, singbox, script, trouble>>

SwapStep      == {"swap.stop", "swap.move"}
InstallStep   == {"version", "copy", "copied", "config", "sb.unit", "sb.start",
                  "env", "agent.unit", "agent.start"}
UninstallStep == {"stop", "units", "wipe"}
EnvStep       == {"push.env", "push.start"}
ScriptStep    == SwapStep \cup InstallStep \cup UninstallStep \cup EnvStep
Runs(r)       == script[r].pc \in ScriptStep

\* The panel's own copy of the agent binary; a node may have an older one.
Local == "new"

Tokens == Request \cup {"first", None}
Env    == [token : Tokens, endpoint : Endpoint \cup {None}]
NoEnv  == [token |-> None, endpoint |-> "none"]
Config == {"placeholder", "applied"}

Files ==
  [dir : BOOLEAN, agentBin : {"none", "old", "new"}, env : Env \cup {NoEnv},
   agentUnit : BOOLEAN, singbox : {"none", "torn", "ok"},
   conf : Config \cup {"none"}, sbUnit : BOOLEAN]

Wiped ==
  [dir |-> FALSE, agentBin |-> "none", env |-> NoEnv, agentUnit |-> FALSE,
   singbox |-> "none", conf |-> "none", sbUnit |-> FALSE]

Service == {"mesh-agent", "sing-box"}
NoAgent == [bin |-> "none", env |-> NoEnv]
Agent   == [bin : {"old", "new"}, env : Env]

\* A script: its step, what it was told, and its shell variables.
Script ==
  [pc : ScriptStep \cup {"none", "swapped", "ok", "failed", "dead"},
   full : BOOLEAN, env : Env \cup {NoEnv},
   fresh : BOOLEAN,    \* sing-box was installed anew, or its unit changed
   changed : BOOLEAN]  \* the agent's binary, env or unit changed

NoScript == [pc |-> "none", full |-> TRUE, env |-> NoEnv, fresh |-> FALSE, changed |-> FALSE]

HostTypeOK ==
  /\ files \in Files
  /\ enabled \in SUBSET Service
  /\ agent \in Agent \cup {NoAgent}
  /\ singbox \in Config \cup {"none"}
  /\ script \in [Request -> Script]
  /\ trouble \in 0..MaxTrouble

\* A node that was never installed, or one that an earlier panel installed.
HostInit(installed, full, env) ==
  LET found ==
        IF installed
        THEN [dir |-> TRUE, agentBin |-> "old", env |-> env, agentUnit |-> TRUE,
              singbox |-> IF full THEN "ok" ELSE "none",
              conf |-> IF full THEN "placeholder" ELSE "none", sbUnit |-> full]
        ELSE Wiped
  IN /\ files = found
     /\ enabled = IF installed THEN {"mesh-agent"} \cup (IF full THEN {"sing-box"} ELSE {}) ELSE {}
     /\ agent = IF installed THEN [bin |-> "old", env |-> env] ELSE NoAgent
     /\ singbox = found.conf
     /\ script = [r \in Request |-> NoScript]
     /\ trouble = 0

Trouble == trouble < MaxTrouble /\ trouble' = trouble + 1

-----------------------------------------------------------------------------
(* systemd.                                                                *)

AgentStarts   == files.agentUnit /\ files.agentBin # "none" /\ files.env # NoEnv
CurrentAgent  == IF AgentStarts THEN [bin |-> files.agentBin, env |-> files.env] ELSE NoAgent
\* ExecStartPre: sing-box check.
SingboxStarts == files.sbUnit /\ files.singbox = "ok" /\ files.conf # "none"

\* Restart=always: a process that ends is started again, from the files as they are.
Respawns ==
  /\ agent # NoAgent /\ AgentStarts
  /\ agent' = CurrentAgent
  /\ UNCHANGED <<files, enabled, singbox, script, trouble>>

\* The node restarts; no script survives.
Reboots ==
  /\ agent' = IF "mesh-agent" \in enabled THEN CurrentAgent ELSE NoAgent
  /\ singbox' = IF "sing-box" \in enabled /\ SingboxStarts THEN files.conf ELSE "none"
  /\ script' = [r \in Request |-> IF Runs(r) THEN [script[r] EXCEPT !.pc = "dead"] ELSE script[r]]
  /\ IF \E r \in Request : Runs(r) THEN Trouble ELSE UNCHANGED trouble
  /\ UNCHANGED <<files, enabled>>

-----------------------------------------------------------------------------
(* What all scripts share.                                                 *)

Goto(r, step) == script' = [script EXCEPT ![r].pc = step]

\* set -e: the script ends with the first command that fails.
Ends(r) ==
  /\ Goto(r, "failed")
  /\ Trouble
  /\ UNCHANGED <<files, enabled, agent, singbox>>

\* A download, a full disk or GitHub: a command fails for a reason of its own.
Aborts(r) == script[r].pc \in InstallStep /\ Ends(r)

\* The shell is killed: its channel was closed and it wrote to it, the OOM killer.
Dies(r) ==
  /\ Runs(r)
  /\ Goto(r, "dead")
  /\ Trouble
  /\ UNCHANGED <<files, enabled, agent, singbox>>

\* r has its next step at pc, and the node's own state is what it changes.
At(r, pc) == script[r].pc = pc /\ UNCHANGED trouble

-----------------------------------------------------------------------------
(* _upload_agent: the new binary lies next to the old one; one remote      *)
(* command stops the agents and moves it over.                             *)

\* Mutated form: the running agent is not stopped before its binary is replaced.
SwapStops_Runs(r) ==
  /\ At(r, "swap.stop")
  /\ Goto(r, "swap.move")
  /\ UNCHANGED <<files, enabled, agent, singbox>>

SwapStops(r) ==
  /\ At(r, "swap.stop")
  /\ agent' = NoAgent
  /\ Goto(r, "swap.move")
  /\ UNCHANGED <<files, enabled, singbox>>

\* The exit code of the mv is not looked at.
SwapMoves(r) ==
  /\ At(r, "swap.move")
  /\ files' = IF files.dir THEN [files EXCEPT !.agentBin = Local] ELSE files
  /\ Goto(r, "swapped")
  /\ UNCHANGED <<enabled, agent, singbox>>

-----------------------------------------------------------------------------
(* INSTALL_SH.                                                             *)

\* An entry node gets no sing-box.  A whole sing-box on the node is kept,
\* whatever its version; else one is downloaded.
InstallVersion(r) ==
  /\ At(r, "version")
  /\ files' = [files EXCEPT !.dir = TRUE]
  /\ LET fresh == script[r].full /\ files.singbox # "ok" IN
     script' = [script EXCEPT ![r].fresh = fresh,
                              ![r].pc = IF ~ script[r].full THEN "env"
                                        ELSE IF fresh THEN "copy" ELSE "config"]
  /\ UNCHANGED <<enabled, agent, singbox>>

\* install writes the binary in place.
InstallCopy(r) ==
  /\ \/ At(r, "copy") /\ files' = [files EXCEPT !.singbox = "torn"] /\ Goto(r, "copied")
     \/ At(r, "copied") /\ files' = [files EXCEPT !.singbox = "ok"] /\ Goto(r, "config")
  /\ UNCHANGED <<enabled, agent, singbox>>

\* An existing configuration stays; sing-box check must accept what is there.
InstallConfig(r) ==
  /\ At(r, "config")
  /\ files.dir /\ files.singbox = "ok"
  /\ files' = [files EXCEPT !.conf = IF @ = "none" THEN "placeholder" ELSE @]
  /\ Goto(r, "sb.unit")
  /\ UNCHANGED <<enabled, agent, singbox>>

InstallSingboxUnit(r) ==
  /\ At(r, "sb.unit")
  /\ files' = [files EXCEPT !.sbUnit = TRUE]
  /\ script' = [script EXCEPT ![r].pc = "sb.start", ![r].fresh = @ \/ ~ files.sbUnit]
  /\ UNCHANGED <<enabled, agent, singbox>>

\* Restarted when the unit or the binary changed, started when it does not run.
InstallSingboxStart(r) ==
  /\ At(r, "sb.start")
  /\ SingboxStarts \/ (~ script[r].fresh /\ singbox # "none")
  /\ IF script[r].fresh
     THEN singbox' = files.conf /\ enabled' = enabled \cup {"sing-box"}
     ELSE singbox' = (IF singbox = "none" THEN files.conf ELSE singbox) /\ UNCHANGED enabled
  /\ Goto(r, "env")
  /\ UNCHANGED <<files, agent>>

\* agent.env is replaced when it differs.  Without an agent binary that is all;
\* removing socks-agent, the agent's predecessor, is left out: it only adds a
\* reason to restart to an agent whose unit is new anyway.
InstallEnv(r) ==
  /\ At(r, "env")
  /\ files.dir
  /\ files' = [files EXCEPT !.env = script[r].env]
  /\ script' = [script EXCEPT ![r].pc = IF files.agentBin = "none" THEN "ok" ELSE "agent.unit",
                              ![r].changed = @ \/ files.env # script[r].env]
  /\ UNCHANGED <<enabled, agent, singbox>>

InstallAgentUnit(r) ==
  /\ At(r, "agent.unit")
  /\ files' = [files EXCEPT !.agentUnit = TRUE]
  /\ script' = [script EXCEPT ![r].pc = "agent.start", ![r].changed = @ \/ ~ files.agentUnit]
  /\ UNCHANGED <<enabled, agent, singbox>>

\* Mutated form: the agent is only started when it does not run.
InstallAgentStart_NoRestart(r) ==
  /\ At(r, "agent.start")
  /\ files.agentUnit
  /\ agent' = IF agent = NoAgent THEN CurrentAgent ELSE agent
  /\ enabled' = IF script[r].changed THEN enabled \cup {"mesh-agent"} ELSE enabled
  /\ Goto(r, "ok")
  /\ UNCHANGED <<files, singbox>>

\* Mutated form: an agent that does not run is left alone when nothing changed.
InstallAgentStart_ChangedOnly(r) ==
  /\ At(r, "agent.start")
  /\ files.agentUnit
  /\ IF script[r].changed
     THEN agent' = CurrentAgent /\ enabled' = enabled \cup {"mesh-agent"}
     ELSE UNCHANGED <<agent, enabled>>
  /\ Goto(r, "ok")
  /\ UNCHANGED <<files, singbox>>

\* The script's result says ok, whatever is-active answered.
InstallAgentStart(r) ==
  /\ At(r, "agent.start")
  /\ files.agentUnit
  /\ IF script[r].changed
     THEN agent' = CurrentAgent /\ enabled' = enabled \cup {"mesh-agent"}
     ELSE agent' = (IF agent = NoAgent THEN CurrentAgent ELSE agent) /\ UNCHANGED enabled
  /\ Goto(r, "ok")
  /\ UNCHANGED <<files, singbox>>

\* The state of the node makes a command of the script fail.
InstallFails(r) ==
  \/ /\ \/ script[r].pc = "config" /\ ~ (files.dir /\ files.singbox = "ok")
        \/ script[r].pc = "env" /\ ~ files.dir
        \/ script[r].pc = "agent.start" /\ ~ files.agentUnit
     /\ Ends(r)
  \/ /\ script[r].pc = "sb.start" /\ ~ SingboxStarts /\ (script[r].fresh \/ singbox = "none")
     /\ singbox' = IF files.sbUnit THEN "none" ELSE singbox
     /\ Goto(r, "failed")
     /\ Trouble
     /\ UNCHANGED <<files, enabled, agent>>

Install(r) ==
  \/ InstallVersion(r) \/ InstallCopy(r) \/ InstallConfig(r) \/ InstallSingboxUnit(r)
  \/ InstallSingboxStart(r) \/ InstallEnv(r) \/ InstallAgentUnit(r)
  \/ InstallAgentStart(r) \/ InstallFails(r)

-----------------------------------------------------------------------------
(* UNINSTALL_SH (without set -e) and push_agent_env.                       *)

\* Services are stopped, disabled and their units removed, then the directory;
\* a unit that is there again is a leftover.
Uninstall(r) ==
  \/ /\ At(r, "stop")
     /\ Goto(r, "units")
     /\ agent' = NoAgent /\ singbox' = "none"
     /\ UNCHANGED <<files, enabled>>
  \/ /\ At(r, "units")
     /\ Goto(r, "wipe")
     /\ files' = [files EXCEPT !.agentUnit = FALSE, !.sbUnit = FALSE]
     /\ enabled' = {}
     /\ UNCHANGED <<agent, singbox>>
  \/ /\ At(r, "wipe")
     /\ Goto(r, IF files.sbUnit \/ files.agentUnit THEN "failed" ELSE "ok")
     /\ files' = [Wiped EXCEPT !.agentUnit = files.agentUnit, !.sbUnit = files.sbUnit]
     /\ UNCHANGED <<enabled, agent, singbox>>

\* mkdir, write agent.env; then restart, which fails when there is no unit.
PushEnv(r) ==
  \/ /\ At(r, "push.env")
     /\ Goto(r, "push.start")
     /\ files' = [files EXCEPT !.dir = TRUE, !.env = script[r].env]
     /\ UNCHANGED <<enabled, agent, singbox>>
  \/ /\ At(r, "push.start")
     /\ Goto(r, IF files.agentUnit THEN "ok" ELSE "failed")
     /\ agent' = IF files.agentUnit THEN CurrentAgent ELSE agent
     /\ UNCHANGED <<files, enabled, singbox>>

ScriptRuns(r) == SwapStops(r) \/ SwapMoves(r) \/ Install(r) \/ Uninstall(r) \/ PushEnv(r)

=============================================================================
