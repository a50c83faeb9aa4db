--------------------------- MODULE SSApplyProofs ---------------------------
(***************************************************************************)
(* What is proved of SSApply for any number of applies and configurations: *)
(* the inductive invariant, the two safety properties it implies, and what *)
(* the row says when the first apply has ended.                            *)
(***************************************************************************)
EXTENDS SSApply, TLAPS

LEMMA CallNames ==
  ASSUME NEW a \in Apply, NEW s \in Step
  PROVE  <<a, s>> \in Calls
BY DEF Calls

LEMMA StepNames ==
  /\ \A s : s \in Step <=> s \in {"mkdir", "write", "check", "rm", "mv", "reload"}
  /\ "mkdir" \in Step /\ "write" \in Step /\ "check" \in Step
  /\ "rm" \in Step /\ "mv" \in Step /\ "reload" \in Step
BY DEF Step

LEMMA InitInv == Init => IInv
<1> SUFFICES ASSUME Init PROVE IInv
  OBVIOUS
<1> USE SSAssumption DEF Init
<1>1. TypeOK
  <2>1. Rpc!TypeOK
    BY DEF Rpc!Init, Rpc!TypeOK
  <2> QED BY <2>1 DEF TypeOK
<1>2. \A a \in Apply, s \in Step : /\ state[<<a, s>>] = "idle"
                                   /\ answered[<<a, s>>] = "none"
  BY CallNames DEF Rpc!Init
<1>3. CallsInOrder
  BY <1>2, StepNames DEF CallsInOrder, InOrder
<1>4. CallsAreServed
  BY DEF CallsAreServed, Rpc!Init
<1>5. FilesOfLone /\ LoneApplyIsSafe /\ InstallFollowsCheck
  BY <1>2, StepNames DEF FilesOfLone, LoneApplyIsSafe, InstallFollowsCheck, TypeOK
<1> QED BY <1>1, <1>3, <1>4, <1>5 DEF IInv

-----------------------------------------------------------------------------
(* Steps that touch neither the calls nor the files.                       *)

LEMMA PutInv ==
  ASSUME IInv, NEW c \in Config, PutSS(c)
  PROVE  IInv'
BY DEF IInv, PutSS, nodeVars, rpcVars, TypeOK, Rpc!TypeOK, CallsInOrder, InOrder,
   CallsAreServed, FilesOfLone, LoneApplyIsSafe, InstallFollowsCheck, LoneWriter

LEMMA StutterInv ==
  ASSUME IInv, UNCHANGED vars
  PROVE  IInv'
BY DEF IInv, vars, panelVars, nodeVars, rpcVars, TypeOK, Rpc!TypeOK, CallsInOrder, InOrder,
   CallsAreServed, FilesOfLone, LoneApplyIsSafe, InstallFollowsCheck, LoneWriter

LEMMA RunningInv ==
  ASSUME IInv, ServiceRestarts \/ \E a \in Apply : AgentReloads(a)
  PROVE  IInv'
<1>1. /\ UNCHANGED <<stored, status, at, config, loaded, said, new, cur, rc>>
      /\ UNCHANGED <<state, told, answered>>
      /\ reloaded' \in SUBSET Apply
      /\ running' \in {running, cur, Down}
      /\ running' = Down => running = Down \/ cur \notin Good
      /\ running' = cur => running' = running \/ cur \in Good
  BY SSAssumption DEF IInv, TypeOK, ServiceRestarts, AgentReloads, panelVars, rpcVars
<1>2. TypeOK'
  BY <1>1, SSAssumption DEF IInv, TypeOK, Rpc!TypeOK
<1>4. CallsInOrder' /\ CallsAreServed' /\ FilesOfLone' /\ InstallFollowsCheck'
  BY <1>1 DEF IInv, CallsInOrder, InOrder, CallsAreServed, FilesOfLone, InstallFollowsCheck, LoneWriter
<1>3. LoneApplyIsSafe'
  BY <1>1 DEF IInv, LoneApplyIsSafe, LoneWriter
<1> QED BY <1>2, <1>3, <1>4 DEF IInv

LEMMA BeginInv ==
  ASSUME IInv, NEW a \in Apply, BeginApply(a)
  PROVE  IInv'
<1>1. /\ at[a] = "idle" /\ at' = [at EXCEPT ![a] = "mkdir"]
      /\ config' = [config EXCEPT ![a] = stored]
      /\ loaded' = [loaded EXCEPT ![a] = status]
      /\ UNCHANGED <<stored, status, said, new, cur, running, reloaded, rc>>
      /\ UNCHANGED <<state, told, answered>>
  BY DEF BeginApply, nodeVars, rpcVars
<1>2. TypeOK'
  BY <1>1, StepNames DEF IInv, TypeOK, Rpc!TypeOK
<1>3. CallsAreServed' /\ InstallFollowsCheck'
  BY <1>1 DEF IInv, CallsAreServed, InstallFollowsCheck
<1>8. CallsInOrder'
  BY <1>1 DEF IInv, TypeOK, CallsInOrder, InOrder
<1>4. /\ answered[<<a, "write">>] = "none" /\ <<a, "check">> \notin rc
      /\ <<a, "mv">> \notin rc /\ said[a] # "applied"
  BY <1>1, CallNames, StepNames DEF IInv, CallsInOrder, InOrder, CallsAreServed, InstallFollowsCheck
<1>5. FilesOfLone'
  BY <1>1, <1>4 DEF IInv, TypeOK, FilesOfLone, LoneWriter
<1>6. LoneWriter(a) => cur = First
  BY <1>4 DEF IInv, FilesOfLone
<1>7. LoneApplyIsSafe'
  BY <1>1, <1>4, <1>6 DEF IInv, TypeOK, LoneApplyIsSafe, LoneWriter
<1> QED BY <1>2, <1>3, <1>5, <1>7, <1>8 DEF IInv

-----------------------------------------------------------------------------
(* The panel's side of a call.                                             *)

(***************************************************************************)
(* A call is made: only from where its apply is, so an idle call becomes   *)
(* known to the service and nothing else changes.                          *)
(***************************************************************************)
LEMMA CallNextInv ==
  ASSUME IInv, NEW a \in Apply, CallNext(a)
  PROVE  IInv'
<1> DEFINE k == <<a, at[a]>>
<1>1. /\ at[a] \in Step /\ k \in Calls /\ state[k] = "idle"
      /\ UNCHANGED <<panelVars, nodeVars, answered>>
      /\ \E s \in {"rpc", "cmd", "refused"} : /\ state' = [state EXCEPT ![k] = s]
                                              /\ s # "refused" => UNCHANGED told
                                              /\ s = "refused" => told' = [told EXCEPT ![k] = "offline"]
  BY CallNames DEF CallNext, Rpc!Issue, Rpc!Refuse
<1>2. PICK s \in {"rpc", "cmd", "refused"} :
           /\ state' = [state EXCEPT ![k] = s]
           /\ s # "refused" => UNCHANGED told
           /\ s = "refused" => told' = [told EXCEPT ![k] = "offline"]
  BY <1>1
<1>3. /\ state \in [Calls -> {"idle", "rpc", "cmd", "done", "refused"}]
      /\ told \in [Calls -> {"none", "ok", "err", "offline", "timeout", "sent"}]
  BY DEF IInv, TypeOK, Rpc!TypeOK
<1>4. TypeOK'
  <2>1. Rpc!TypeOK'
    BY <1>1, <1>2, <1>3 DEF IInv, TypeOK, Rpc!TypeOK
  <2> QED BY <1>1, <2>1 DEF IInv, TypeOK, panelVars, nodeVars
<1>5. ASSUME NEW b \in Apply
      PROVE  /\ at[b] # "write"  => state'[<<b, "write">>] = state[<<b, "write">>]
             /\ at[b] # "check"  => state'[<<b, "check">>] = state[<<b, "check">>]
             /\ at[b] # "mv"     => state'[<<b, "mv">>] = state[<<b, "mv">>]
             /\ at[b] # "reload" => state'[<<b, "reload">>] = state[<<b, "reload">>]
  <2>1. \A j \in Calls : j # k => state'[j] = state[j]
    BY <1>2, <1>3
  <2>2. /\ <<b, "write">> \in Calls /\ <<b, "check">> \in Calls
        /\ <<b, "mv">> \in Calls /\ <<b, "reload">> \in Calls
    BY CallNames, StepNames
  <2>3. /\ at[b] # "write"  => <<b, "write">> # k
        /\ at[b] # "check"  => <<b, "check">> # k
        /\ at[b] # "mv"     => <<b, "mv">> # k
        /\ at[b] # "reload" => <<b, "reload">> # k
    OBVIOUS
  <2> QED BY <2>1, <2>2, <2>3
<1>6. CallsInOrder'
  <2>1. UNCHANGED <<at, rc, answered>>
    BY <1>1 DEF panelVars, nodeVars
  <2>2. ASSUME NEW b \in Apply PROVE InOrder(b)'
    <3>1. InOrder(b)
      BY DEF IInv, CallsInOrder
    <3> QED BY <1>5, <2>1, <3>1 DEF InOrder
  <2> QED BY <2>2 DEF CallsInOrder
<1>7. CallsAreServed'
  BY <1>1, <1>2, <1>3 DEF IInv, CallsAreServed, panelVars, nodeVars
<1>8. FilesOfLone' /\ LoneApplyIsSafe'
  BY <1>1 DEF IInv, FilesOfLone, LoneApplyIsSafe, LoneWriter, panelVars, nodeVars
<1>9. InstallFollowsCheck'
  BY <1>1, <1>5 DEF IInv, InstallFollowsCheck, CallsInOrder, InOrder, panelVars, nodeVars
<1> QED BY <1>4, <1>6, <1>7, <1>8, <1>9 DEF IInv

LEMMA CallEndsInv ==
  ASSUME IInv, NEW k \in Calls, CallEnds(k)
  PROVE  IInv'
<1>1. /\ state[k] \in {"rpc", "cmd"}
      /\ state' = [state EXCEPT ![k] = "done"]
      /\ UNCHANGED <<panelVars, nodeVars, answered>>
  BY DEF CallEnds, Rpc!Tell
<1>2. PICK o \in {"ok", "err", "offline", "timeout", "sent"} :
           /\ o \in {"ok", "err"} => answered[k] = o
           /\ told' = [told EXCEPT ![k] = o]
  <2>1. Rpc!OutcomesOf(state[k]) \subseteq {"ok", "err", "offline", "timeout", "sent"}
    BY DEF Rpc!OutcomesOf
  <2> QED BY <2>1 DEF CallEnds, Rpc!Tell
<1>3. /\ state \in [Calls -> {"idle", "rpc", "cmd", "done", "refused"}]
      /\ told \in [Calls -> {"none", "ok", "err", "offline", "timeout", "sent"}]
  BY DEF IInv, TypeOK, Rpc!TypeOK
<1>4. TypeOK'
  <2>1. Rpc!TypeOK'
    BY <1>1, <1>2, <1>3 DEF IInv, TypeOK, Rpc!TypeOK
  <2> QED BY <1>1, <2>1 DEF IInv, TypeOK, panelVars, nodeVars
<1>5. \A j \in Calls : state'[j] = "idle" <=> state[j] = "idle"
  BY <1>1, <1>3
<1>6. CallsInOrder' /\ InstallFollowsCheck'
  BY <1>1, <1>5, CallNames, StepNames
     DEF IInv, CallsInOrder, InOrder, InstallFollowsCheck, panelVars, nodeVars
<1>7. CallsAreServed'
  BY <1>1, <1>2, <1>3 DEF IInv, CallsAreServed, panelVars, nodeVars
<1>8. FilesOfLone' /\ LoneApplyIsSafe'
  BY <1>1 DEF IInv, FilesOfLone, LoneApplyIsSafe, LoneWriter, panelVars, nodeVars
<1> QED BY <1>4, <1>6, <1>7, <1>8 DEF IInv

(***************************************************************************)
(* An apply goes on only after the node's answer has said that the call    *)
(* before did its work.                                                    *)
(***************************************************************************)
LEMMA ContinueInv ==
  ASSUME IInv, NEW a \in Apply, Continue(a)
  PROVE  IInv'
<1>1. /\ at[a] \in Step /\ at' = [at EXCEPT ![a] = After(a)]
      /\ UNCHANGED <<stored, config, loaded, nodeVars, rpcVars>>
      /\ \/ UNCHANGED <<status, said>>
         \/ \E r \in {"applied", "failed"} :
              /\ r = "applied" => told[<<a, "reload">>] = "sent"
              /\ status' = (IF loaded[a] = r THEN status ELSE r)
              /\ said' = [said EXCEPT ![a] = r]
  BY DEF Continue, CommitStatus
<1>2. \/ at[a] = "mkdir" /\ After(a) = "write"
      \/ at[a] = "write" /\ After(a) = "check" /\ told[<<a, "write">>] = "ok"
      \/ at[a] = "check" /\ After(a) = "mv" /\ <<a, "check">> \in rc
      \/ at[a] = "check" /\ After(a) = "rm"
      \/ at[a] = "mv" /\ After(a) = "reload" /\ <<a, "mv">> \in rc
      \/ After(a) = "done"
  BY DEF After, Succeeds
<1>3. TypeOK'
  <2>1. After(a) \in Step \cup {"idle", "done"}
    BY <1>2, StepNames
  <2>2. at' \in [Apply -> Step \cup {"idle", "done"}]
    BY <1>1, <2>1 DEF IInv, TypeOK
  <2>3. status' \in {"never", "applied", "failed"} /\ said' \in [Apply -> {"none", "applied", "failed"}]
    BY <1>1 DEF IInv, TypeOK
  <2>4. Rpc!TypeOK'
    BY <1>1 DEF IInv, TypeOK, Rpc!TypeOK, rpcVars
  <2> QED BY <1>1, <2>2, <2>3, <2>4 DEF IInv, TypeOK, nodeVars
<1>4. told[<<a, "write">>] = "ok" => answered[<<a, "write">>] = "ok"
  BY CallNames, StepNames DEF IInv, CallsAreServed
<1>5. CallsInOrder'
  <2>1. UNCHANGED <<rc, state, answered>> /\ at \in [Apply -> Step \cup {"idle", "done"}]
    BY <1>1 DEF IInv, TypeOK, nodeVars, rpcVars
  <2> SUFFICES ASSUME NEW b \in Apply PROVE InOrder(b)'
    BY DEF CallsInOrder
  <2>2. CASE b # a
    BY <1>1, <2>1, <2>2 DEF IInv, CallsInOrder, InOrder
  <2>3. CASE b = a
    <3>1. at'[a] = After(a)
      BY <1>1, <2>1
    <3> QED BY <1>2, <1>4, <2>1, <2>3, <3>1 DEF IInv, CallsInOrder, InOrder
  <2> QED BY <2>2, <2>3
<1>6. told[<<a, "reload">>] = "sent" => <<a, "mv">> \in rc
  <2>1. ASSUME told[<<a, "reload">>] = "sent" PROVE at[a] = "reload"
    BY <1>1, <2>1, CallNames, StepNames DEF IInv, CallsAreServed, CallsInOrder, InOrder
  <2> QED BY <2>1 DEF IInv, CallsInOrder, InOrder
<1>7. \A b \in Apply : said'[b] = "applied" => <<b, "mv">> \in rc
  BY <1>1, <1>6 DEF IInv, TypeOK, InstallFollowsCheck
<1>8. CallsAreServed' /\ FilesOfLone' /\ InstallFollowsCheck'
  BY <1>1, <1>7 DEF IInv, CallsAreServed, FilesOfLone, InstallFollowsCheck, LoneWriter,
     nodeVars, rpcVars
<1>9. LoneApplyIsSafe'
  BY <1>1, <1>7 DEF IInv, FilesOfLone, LoneApplyIsSafe, LoneWriter, nodeVars, rpcVars
<1> QED BY <1>3, <1>5, <1>8, <1>9 DEF IInv

LEMMA CrashInv ==
  ASSUME IInv, PanelCrash
  PROVE  IInv'
<1>1. /\ at' = [a \in Apply |-> IF at[a] \in Step THEN "done" ELSE at[a]]
      /\ UNCHANGED <<stored, status, config, loaded, said, nodeVars, rpcVars>>
  BY DEF PanelCrash
<1>2. TypeOK'
  <2>1. Rpc!TypeOK'
    BY <1>1 DEF IInv, TypeOK, Rpc!TypeOK, rpcVars
  <2> QED BY <1>1, <2>1 DEF IInv, TypeOK, nodeVars
<1>3. \A a \in Apply : at'[a] = "done" \/ (at'[a] = at[a] /\ at[a] = "idle")
  BY <1>1, StepNames DEF IInv, TypeOK
<1>4. CallsInOrder'
  BY <1>1, <1>3 DEF IInv, CallsInOrder, InOrder, nodeVars, rpcVars
<1>5. CallsAreServed' /\ FilesOfLone' /\ InstallFollowsCheck' /\ LoneApplyIsSafe'
  BY <1>1 DEF IInv, CallsAreServed, FilesOfLone, InstallFollowsCheck, LoneApplyIsSafe,
     LoneWriter, nodeVars, rpcVars
<1> QED BY <1>2, <1>4, <1>5 DEF IInv

-----------------------------------------------------------------------------
(* The node's side.                                                        *)

(***************************************************************************)
(* A command runs.  The one that matters is the mv: when only one apply    *)
(* has written, the file it moves is the one its check accepted.           *)
(***************************************************************************)
LEMMA AgentInv ==
  ASSUME IInv, NEW a \in Apply, NEW step \in Step \ {"reload"}, AgentRuns(a, step)
  PROVE  IInv'
<1> DEFINE k == <<a, step>>
<1>1. /\ k \in Calls /\ state[k] \in {"rpc", "done"} /\ answered[k] = "none"
      /\ UNCHANGED <<panelVars, running, reloaded, state, told>>
  BY CallNames DEF AgentRuns, Rpc!Answer
<1>2. PICK r \in {"ok", "err"} : answered' = [answered EXCEPT ![k] = r]
  BY DEF AgentRuns, Rpc!Answer
<1>3. /\ answered \in [Calls -> {"none", "ok", "err"}] /\ k \notin rc
      /\ \A j \in Calls : answered'[j] = IF j = k THEN r ELSE answered[j]
  BY <1>1, <1>2 DEF IInv, TypeOK, Rpc!TypeOK, CallsAreServed
<1>4. \/ Works(a, step) /\ rc' = rc \cup {k}
      \/ Fails(step) /\ rc' = rc
  BY DEF AgentRuns
<1>5. TypeOK'
  <2>1. Rpc!TypeOK'
    BY <1>1, <1>2 DEF IInv, TypeOK, Rpc!TypeOK
  <2>2. new' \in Config \cup {Torn, Missing} /\ cur' \in Config \cup {Torn}
    BY <1>4 DEF IInv, TypeOK, Works, Fails
  <2> QED BY <1>1, <1>4, <2>1, <2>2 DEF IInv, TypeOK, panelVars
<1>6. CallsInOrder' /\ CallsAreServed'
  <2>1. \A j \in Calls : answered[j] # "none" => answered'[j] = answered[j]
    BY <1>1, <1>3
  <2>2. CallsInOrder'
    BY <1>1, <1>4, <2>1, CallNames, StepNames DEF IInv, CallsInOrder, InOrder, panelVars
  <2>3. CallsAreServed'
    BY <1>1, <1>3, <1>4 DEF IInv, CallsAreServed, panelVars
  <2> QED BY <2>2, <2>3
<1>7. InstallFollowsCheck'
  BY <1>1, <1>3, <1>4, CallNames, StepNames DEF IInv, InstallFollowsCheck, panelVars
<1>8. ASSUME NEW b \in Apply, LoneWriter(b)'
      PROVE  /\ LoneWriter(b)
             /\ step \in {"write", "check", "mv"} => a = b
  <2>1. LoneWriter(b)
    BY <1>1, <1>3, <1>8, CallNames, StepNames DEF LoneWriter
  <2>2. ASSUME step = "write", a # b PROVE FALSE
    BY <1>1, <1>3, <1>8, <2>2 DEF LoneWriter
  <2>3. ASSUME step \in {"check", "mv"}, a # b PROVE FALSE
    <3>1. answered[<<a, "write">>] = "ok"
      BY <1>1, <2>3 DEF IInv, CallsInOrder, InOrder, InstallFollowsCheck
    <3> QED BY <2>1, <2>3, <3>1 DEF LoneWriter
  <2> QED BY <2>1, <2>2, <2>3
<1>9. ASSUME NEW b \in Apply, LoneWriter(b)'
      PROVE  /\ new' \in {Missing, Torn, config[b]}
             /\ answered'[<<b, "write">>] = "none" => new' = Missing /\ cur' = First
             /\ <<b, "check">> \in rc' => config[b] \in Good /\ new' \in {Missing, config[b]}
             /\ <<b, "mv">> \in rc' => cur' = config[b]
             /\ cur' \in {First, config[b]} \cap Good
  <2>1. /\ new \in {Missing, Torn, config[b]}
        /\ answered[<<b, "write">>] = "none" => new = Missing /\ cur = First
        /\ <<b, "check">> \in rc => config[b] \in Good /\ new \in {Missing, config[b]}
        /\ <<b, "mv">> \in rc => cur = config[b]
        /\ cur \in {First, config[b]} \cap Good
    BY <1>8, <1>9 DEF IInv, FilesOfLone, LoneApplyIsSafe
  <2>2. <<b, "write">> \in Calls /\ <<b, "check">> \in Calls /\ <<b, "mv">> \in Calls
    BY CallNames, StepNames
  <2>3. Torn \notin Good /\ Missing \notin Good /\ Torn # Missing
    BY SSAssumption
  <2>4. <<b, "check">> \in rc => answered[<<b, "write">>] # "none"
    BY <2>2 DEF IInv, CallsInOrder, InOrder, CallsAreServed
  <2>5. CASE step \in {"mkdir", "rm"}
    BY <1>3, <1>4, <2>1, <2>2, <2>5 DEF Works, Fails
  <2>6. CASE step = "write"
    BY <1>1, <1>3, <1>4, <1>8, <1>9, <2>1, <2>2, <2>4, <2>6 DEF Works, Fails
  <2>7. CASE step = "check"
    BY <1>3, <1>4, <1>8, <1>9, <2>1, <2>2, <2>3, <2>7 DEF Works, Fails
  <2>8. CASE step = "mv"
    <3>1. a = b /\ answered[<<b, "write">>] = "ok" /\ <<b, "check">> \in rc
      BY <1>1, <1>8, <1>9, <2>8 DEF IInv, InstallFollowsCheck
    <3> QED BY <1>3, <1>4, <2>1, <2>2, <2>3, <2>8, <3>1 DEF Works, Fails
  <2> QED BY <2>5, <2>6, <2>7, <2>8, StepNames
<1>10. FilesOfLone'
  BY <1>1, <1>9 DEF FilesOfLone, panelVars
<1>11. LoneApplyIsSafe'
  <2>1. ASSUME NEW b \in Apply, LoneWriter(b)', said[b] = "applied" PROVE <<b, "mv">> \in rc'
    BY <1>4, <2>1 DEF IInv, InstallFollowsCheck
  <2> QED BY <1>1, <1>8, <1>9, <2>1 DEF IInv, LoneApplyIsSafe, panelVars
<1> QED BY <1>5, <1>6, <1>7, <1>10, <1>11 DEF IInv

-----------------------------------------------------------------------------
LEMMA NextInv ==
  ASSUME IInv, [Next]_vars
  PROVE  IInv'
<1>1. CASE UNCHANGED vars
  BY <1>1, StutterInv
<1>2. CASE Next
  BY <1>2, PutInv, BeginInv, CallNextInv, ContinueInv, RunningInv, CallEndsInv, AgentInv,
     CrashInv DEF Next
<1> QED BY <1>1, <1>2

(***************************************************************************)
(* The inductive invariant holds in every reachable state.                 *)
(***************************************************************************)
THEOREM Invariance == Spec => []IInv
<1>1. Init => IInv
  BY InitInv
<1>2. IInv /\ [Next]_vars => IInv'
  BY NextInv
<1> QED BY <1>1, <1>2, PTL DEF Spec

(***************************************************************************)
(* Every variable of an apply, its calls and the node keeps its type.      *)
(***************************************************************************)
THEOREM TypeCorrect == Spec => []TypeOK
<1>1. IInv => TypeOK
  BY DEF IInv
<1> QED BY <1>1, Invariance, PTL

(***************************************************************************)
(* An apply that alone has written to the node cannot bring it down.       *)
(***************************************************************************)
THEOREM LoneAppliesAreSafe == Spec => []LoneApplyIsSafe
<1>1. IInv => LoneApplyIsSafe
  BY DEF IInv
<1> QED BY <1>1, Invariance, PTL

(***************************************************************************)
(* Every mv follows a confirmed write and an accepted check, and every     *)
(* "applied" a mv.                                                         *)
(***************************************************************************)
THEOREM InstallsFollowChecks == Spec => []InstallFollowsCheck
<1>1. IInv => InstallFollowsCheck
  BY DEF IInv
<1> QED BY <1>1, Invariance, PTL

(***************************************************************************)
(* Only BeginApply, Continue and a crash change what the status depends    *)
(* on.  Continue is the step that matters: while no result is written, the *)
(* loaded status is the stored one, so leaving the UPDATE out is harmless. *)
(***************************************************************************)
LEMMA StatusStep ==
  ASSUME TypeOK, LoadedIsCurrent, FirstResultIsStored, [Next]_vars
  PROVE  LoadedIsCurrent' /\ FirstResultIsStored'
<1> USE DEF LoadedIsCurrent, FirstResultIsStored, TypeOK
<1>1. CASE UNCHANGED <<status, at, loaded, said>>
  BY <1>1
<1>2. ASSUME NEW a \in Apply, BeginApply(a) PROVE LoadedIsCurrent' /\ FirstResultIsStored'
  BY <1>2 DEF BeginApply
<1>3. ASSUME NEW a \in Apply, Continue(a) PROVE LoadedIsCurrent' /\ FirstResultIsStored'
  <2>1. /\ at[a] \in Step
        /\ at' = [at EXCEPT ![a] = After(a)] /\ UNCHANGED loaded
    BY <1>3 DEF Continue
  <2>2. CASE UNCHANGED <<status, said>> /\ After(a) # "done"
    <3>1. \A b \in Apply : /\ at'[b] \in Step => at[b] \in Step
                         /\ at'[b] # "done" => at[b] # "done"
      BY <2>1, <2>2, StepNames
    <3> QED BY <2>1, <2>2, <3>1
  <2>3. CASE \E r \in {"applied", "failed"} : CommitStatus(a, r)
    <3>1. PICK r \in {"applied", "failed"} : CommitStatus(a, r)
      BY <2>3
    <3>2. said' = [said EXCEPT ![a] = r] /\ said'[a] = r
      BY <3>1 DEF CommitStatus
    <3>3. (\A b \in Apply \ {a} : said'[b] = "none") /\ said[a] = "none" => status' = r
      BY <2>1, <3>1, <3>2 DEF CommitStatus
    <3>4. said[a] = "none"
      BY <2>1, StepNames
    <3>5. CASE After(a) = "done"
      BY <2>1, <3>1, <3>2, <3>3, <3>4, <3>5 DEF CommitStatus
    <3> QED BY <1>3, <3>1, <3>4, <3>5 DEF Continue
  <2> QED BY <1>3, <2>2, <2>3 DEF Continue
<1>4. CASE PanelCrash
  BY <1>4, StepNames DEF PanelCrash
<1> QED
  BY <1>1, <1>2, <1>3, <1>4 DEF Next, PutSS, CallNext, CallEnds, AgentRuns, AgentReloads,
     ServiceRestarts, panelVars, vars

(***************************************************************************)
(* The row holds the result of the first apply that ended.                 *)
(***************************************************************************)
THEOREM FirstResultsAreStored == Spec => []FirstResultIsStored
<1>1. Init => LoadedIsCurrent /\ FirstResultIsStored
  BY DEF Init, LoadedIsCurrent, FirstResultIsStored, Step
<1>2. TypeOK /\ LoadedIsCurrent /\ FirstResultIsStored /\ [Next]_vars
        => LoadedIsCurrent' /\ FirstResultIsStored'
  BY StatusStep
<1> QED BY <1>1, <1>2, TypeCorrect, PTL DEF Spec

=============================================================================
