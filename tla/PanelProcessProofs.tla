------------------------- MODULE PanelProcessProofs -------------------------
(***************************************************************************)
(* What is proved of PanelProcess as a whole, for any number of threads,   *)
(* nodes, passwords, secrets and keys: its types, and where its threads    *)
(* are.  AdminAccountProofs and CredentialKeyProofs build on it.           *)
(***************************************************************************)
EXTENDS PanelProcess, TLAPS

-----------------------------------------------------------------------------
(* Where the threads are.                                                  *)

StartStep == MainStep \cup KeyStep \cup {"failed"}

\* A call returns to where it was made from.
Proper(p, step, memory) ==
  /\ step \in KeyStep => memory.back \in (IF p = Main THEN {"migrate"} ELSE {"save.encrypt", "use"})
  /\ step \in JwtStep => memory.back \in {"token", "auth"}
  /\ step = "auth" \/ (step \in JwtStep /\ memory.back = "auth") =>
       memory.kind \in {"change", "save", "use"}

\* The main thread is alone until it serves.
Control ==
  /\ at[Main] \in StartStep
  /\ \A t \in Thread : at[t] \notin MainStep /\ (at[t] = "idle" \/ Serving)
  /\ \A p \in Session : Proper(p, at[p], my[p])

TInv == TypeOK /\ Control

-----------------------------------------------------------------------------
(* Types.                                                                  *)

AnyStep == {"idle", "close", "failed", "auth", "token", "use"} \cup JwtStep
             \cup SetupStep \cup ChangeStep \cup KeyStep \cup SaveStep \cup MainStep

TablesTypeOK == db \in Tables /\ disk \in Tables /\ dirty \subseteq Session /\ torn \in BOOLEAN
AmissTypeOK  == amiss \subseteq {"shared", "overtaken", "unsaved", "untold", "lost", "unread", "raced"}

LEMMA TypesAreParts ==
  /\ TypeOK => /\ TablesTypeOK /\ at \in [Session -> AnyStep] /\ my \in [Session -> Memory]
               /\ AmissTypeOK /\ trouble \in 0..MaxTrouble /\ AdminTypeOK /\ KeyTypeOK
  /\ /\ TablesTypeOK' /\ at' \in [Session -> AnyStep] /\ my' \in [Session -> Memory]
     /\ AmissTypeOK' /\ trouble' \in 0..MaxTrouble /\ AdminTypeOK' /\ KeyTypeOK'
     => TypeOK'
BY DEF TypeOK, TablesTypeOK, AmissTypeOK, AnyStep

LEMMA GotoIsTyped ==
  ASSUME TypeOK, NEW p \in Session, NEW s \in AnyStep, Goto(p, s)
  PROVE  at' \in [Session -> AnyStep]
BY TypesAreParts DEF Goto

LEMMA MemoryIsTyped ==
  ASSUME TypeOK, NEW p \in Session, NEW m \in Memory, my' = [my EXCEPT ![p] = m]
  PROVE  my' \in [Session -> Memory]
BY TypesAreParts

LEMMA RowIsTyped ==
  ASSUME TypeOK, NEW p \in Session, NEW b \in BOOLEAN, my' = [my EXCEPT ![p].row = b]
  PROVE  my' \in [Session -> Memory]
<1>1. [my[p] EXCEPT !.row = b] \in Memory
  BY TypesAreParts DEF Memory
<1> QED BY <1>1, MemoryIsTyped, TypesAreParts

LEMMA BlankIsTyped == Blank \in Memory
BY DEF Blank, Memory

LEMMA EndsTypes ==
  ASSUME TypeOK, NEW p \in Session, NEW s \in AnyStep, Reads(p, s) \/ Commits(p, s)
  PROVE  TablesTypeOK' /\ AmissTypeOK' /\ at' \in [Session -> AnyStep] /\ trouble' \in 0..MaxTrouble
<1>1. TablesTypeOK' /\ AmissTypeOK' /\ trouble' = trouble
  BY TypesAreParts DEF Reads, Commits, RollbackAll, CommitAll, Besides, TablesTypeOK, AmissTypeOK
<1>2. at' \in [Session -> AnyStep]
  BY GotoIsTyped DEF Reads, Commits
<1> QED BY <1>1, <1>2, TypesAreParts

LEMMA WritesTypes ==
  ASSUME TypeOK, NEW p \in Session, NEW s \in AnyStep, NEW tables \in Tables, Writes(p, tables, s)
  PROVE  TablesTypeOK' /\ AmissTypeOK' /\ at' \in [Session -> AnyStep] /\ trouble' \in 0..MaxTrouble
<1>1. TablesTypeOK' /\ AmissTypeOK' /\ trouble' = trouble
  BY TypesAreParts DEF Writes, Flush, TablesTypeOK, AmissTypeOK
<1>2. at' \in [Session -> AnyStep]
  BY GotoIsTyped DEF Writes
<1> QED BY <1>1, <1>2, TypesAreParts

LEMMA RunsTypes ==
  ASSUME TypeOK, NEW p \in Session, NEW s \in AnyStep,
         Runs(p, s) \/ (s = "failed" /\ (Fails(p) \/ CommitFails(p)))
  PROVE  TablesTypeOK' /\ AmissTypeOK' /\ at' \in [Session -> AnyStep] /\ trouble' \in 0..MaxTrouble
<1>1. TablesTypeOK' /\ AmissTypeOK'
  BY TypesAreParts DEF Runs, Fails, CommitFails, TablesTypeOK, AmissTypeOK, connVars
<1>2. trouble' \in 0..MaxTrouble
  BY TypesAreParts, ThreadAssumption DEF Runs, Fails, CommitFails, Trouble
<1>3. at' \in [Session -> AnyStep]
  BY GotoIsTyped DEF Runs, Fails, CommitFails
<1> QED BY <1>1, <1>2, <1>3

\* What is left of TypeOK', once a step is of one of these forms.
Framed == TablesTypeOK' /\ AmissTypeOK' /\ at' \in [Session -> AnyStep] /\ trouble' \in 0..MaxTrouble

LEMMA JwtTypes ==
  ASSUME TInv, NEW t \in Thread, Signs(t) \/ Authenticates(t) \/ GetsSecret(t), UNCHANGED keyVars
  PROVE  TypeOK'
<1> USE DEF TInv
<1>0. t \in Session
  BY DEF Session
<1>1. CASE Signs(t) \/ Authenticates(t)
  <2>1. Framed
    <3>1. \E s \in {"jwt.read", "close", "change.verify", "save.encrypt", "use"} : Runs(t, s)
      BY <1>1, <1>0 DEF Signs, Authenticates, NeedsSecret, Control, Proper
    <3> QED BY <3>1, <1>0, RunsTypes DEF Framed, AnyStep, JwtStep, ChangeStep, SaveStep
  <2>2. my' \in [Session -> Memory] /\ AdminTypeOK'
    BY <1>1, <1>0, TypesAreParts DEF Signs, Authenticates, NeedsSecret, AdminTypeOK, adminVars, Memory
  <2> QED BY <2>1, <2>2, TypesAreParts DEF Framed, KeyTypeOK, keyVars
<1>2. CASE JwtReads(t)
  <2>1. Framed
    <3>1. \E s \in {"jwt.fill", "jwt.again"} : Runs(t, s)
      BY <1>2 DEF JwtReads
    <3> QED BY <3>1, <1>0, RunsTypes DEF Framed, AnyStep, JwtStep
  <2>2. my' \in [Session -> Memory] /\ AdminTypeOK'
    BY <1>2, <1>0, TypesAreParts DEF JwtReads, TablesTypeOK, Tables, AdminTypeOK, adminVars, Memory
  <2> QED BY <2>1, <2>2, TypesAreParts DEF Framed, KeyTypeOK, keyVars
<1>3. CASE JwtStores(t)
  <2>1. Framed
    <3>1. CASE at[t] = "jwt.again" /\ Runs(t, "jwt.flush")
      BY <3>1, <1>0, RunsTypes DEF Framed, AnyStep, JwtStep
    <3>2. CASE Writes(t, [db EXCEPT !.secret = my[t].sec], "jwt.commit")
      <4>1. [db EXCEPT !.secret = my[t].sec] \in Tables
        BY <1>0, TypesAreParts DEF TablesTypeOK, Tables, Memory
      <4> QED BY <4>1, <3>2, <1>0, WritesTypes DEF Framed, AnyStep, JwtStep
    <3>3. CASE Commits(t, "jwt.fill")
      BY <3>3, <1>0, EndsTypes DEF Framed, AnyStep, JwtStep
    <3>4. CASE Fails(t) \/ CommitFails(t)
      BY <3>4, <1>0, RunsTypes DEF Framed, AnyStep
    <3> QED BY <1>3, <3>1, <3>2, <3>3, <3>4 DEF JwtStores
  <2>2. my' \in [Session -> Memory]
    <3> DEFINE row == db.secret # None
    <3>1. my' = [my EXCEPT ![t].row = row] \/ UNCHANGED my
      BY <1>3 DEF JwtStores, Fails, CommitFails
    <3>2. row \in BOOLEAN
      OBVIOUS
    <3> HIDE DEF row
    <3> QED BY <3>1, <3>2, <1>0, RowIsTyped, TypesAreParts
  <2>3. AdminTypeOK'
    BY <1>3, TypesAreParts DEF JwtStores, AdminTypeOK, adminVars
  <2> QED BY <2>1, <2>2, <2>3, TypesAreParts DEF Framed, KeyTypeOK, keyVars
<1>4. CASE JwtFills(t)
  <2>1. at' \in [Session -> AnyStep]
    <3>1. my[t].back \in {"token", "auth"}
      BY <1>4, <1>0 DEF JwtFills, Control, Proper, JwtStep
    <3> QED BY <3>1, <1>4, <1>0, GotoIsTyped DEF JwtFills, AnyStep
  <2>2. my' \in [Session -> Memory]
    <3>1. [my[t] EXCEPT !.sec = None, !.row = FALSE, !.back = "none"] \in Memory
      BY <1>0, TypesAreParts DEF Memory
    <3>2. my' = [my EXCEPT ![t] = [my[t] EXCEPT !.sec = None, !.row = FALSE, !.back = "none"]]
      BY <1>4, <1>0, TypesAreParts DEF JwtFills
    <3> QED BY <3>1, <3>2, <1>0, MemoryIsTyped
  <2>4. AdminTypeOK' /\ AmissTypeOK'
    BY <1>4, <1>0, TypesAreParts DEF JwtFills, AdminTypeOK, AmissTypeOK, Memory
  <2>3. TablesTypeOK' /\ trouble' \in 0..MaxTrouble
    BY <1>4, TypesAreParts DEF JwtFills, TablesTypeOK, connVars
  <2> QED BY <2>1, <2>2, <2>3, <2>4, TypesAreParts DEF KeyTypeOK, keyVars
<1> QED BY <1>1, <1>2, <1>3, <1>4 DEF GetsSecret

LEMMA AccountTypes ==
  ASSUME TInv, NEW t \in Thread,
         BeginLogin(t) \/ BeginSetup(t) \/ SetupRuns(t) \/ Change(t), UNCHANGED keyVars
  PROVE  TypeOK'
<1> USE DEF TInv
<1>0. t \in Session
  BY DEF Session
<1>1. CASE BeginLogin(t) \/ BeginSetup(t)
  <2>1. Framed
    <3>1. Runs(t, "token") \/ Runs(t, "setup.user")
      BY <1>1 DEF BeginLogin, BeginSetup, Begins
    <3> QED BY <3>1, <1>0, RunsTypes DEF Framed, AnyStep, SetupStep
  <2>2. my' \in [Session -> Memory]
    <3>1. /\ [Blank EXCEPT !.kind = "login"] \in Memory
          /\ \A p \in Password : [Blank EXCEPT !.kind = "setup", !.pwd = p] \in Memory
      BY DEF Blank, Memory
    <3> QED BY <3>1, <1>1, <1>0, MemoryIsTyped DEF BeginLogin, BeginSetup, Begins
  <2>3. AdminTypeOK'
    BY <1>1, TypesAreParts DEF BeginLogin, BeginSetup, AdminTypeOK, adminVars
  <2> QED BY <2>1, <2>2, <2>3, TypesAreParts DEF Framed, KeyTypeOK, keyVars
<1>2. CASE SetupRuns(t)
  <2>1. Framed
    <3>1. CASE Writes(t, [db EXCEPT !.admin = TRUE], "setup.pwd")
      <4>1. [db EXCEPT !.admin = TRUE] \in Tables
        BY TypesAreParts DEF TablesTypeOK, Tables
      <4> QED BY <4>1, <3>1, <1>0, WritesTypes DEF Framed, AnyStep, SetupStep
    <3>2. CASE Writes(t, [db EXCEPT !.pwd = my[t].pwd], "setup.commit")
      <4>1. [db EXCEPT !.pwd = my[t].pwd] \in Tables
        BY <1>0, TypesAreParts DEF TablesTypeOK, Tables, Memory
      <4> QED BY <4>1, <3>2, <1>0, WritesTypes DEF Framed, AnyStep, SetupStep
    <3>3. CASE Commits(t, "token")
      BY <3>3, <1>0, EndsTypes DEF Framed, AnyStep
    <3>4. CASE Fails(t) \/ CommitFails(t)
      BY <3>4, <1>0, RunsTypes DEF Framed, AnyStep
    <3> QED BY <1>2, <3>1, <3>2, <3>3, <3>4 DEF SetupRuns
  <2>2. my' \in [Session -> Memory]
    <3> DEFINE row == db.pwd # None
    <3>1. my' = [my EXCEPT ![t].row = row] \/ UNCHANGED my \/ Forgets(t)
      BY <1>2 DEF SetupRuns, Fails, CommitFails
    <3>2. row \in BOOLEAN
      OBVIOUS
    <3> HIDE DEF row
    <3> QED BY <3>1, <3>2, <1>0, RowIsTyped, MemoryIsTyped, BlankIsTyped, TypesAreParts DEF Forgets
  <2>3. AdminTypeOK'
    BY <1>2, TypesAreParts DEF SetupRuns, AdminTypeOK, adminVars
  <2> QED BY <2>1, <2>2, <2>3, TypesAreParts DEF Framed, KeyTypeOK, keyVars
<1>3. CASE Change(t)
  <2>1. Framed
    <3>1. CASE ChangeVerifies(t) \/ ChangeRotates(t)
      <4>1. \E s \in {"change.pwd", "close", "change.secret"} : Runs(t, s)
        BY <3>1 DEF ChangeVerifies, ChangeRotates
      <4> QED BY <4>1, <1>0, RunsTypes DEF Framed, AnyStep, ChangeStep
    <3>2. CASE Fails(t) \/ CommitFails(t)
      BY <3>2, <1>0, RunsTypes DEF Framed, AnyStep
    <3>3. CASE Writes(t, [db EXCEPT !.pwd = my[t].pwd], "change.must")
      <4>1. [db EXCEPT !.pwd = my[t].pwd] \in Tables
        BY <1>0, TypesAreParts DEF TablesTypeOK, Tables, Memory
      <4> QED BY <4>1, <3>3, <1>0, WritesTypes DEF Framed, AnyStep, ChangeStep
    <3>4. CASE Writes(t, [db EXCEPT !.must = "0"], "change.rotate")
      <4>1. [db EXCEPT !.must = "0"] \in Tables
        BY TypesAreParts DEF TablesTypeOK, Tables
      <4> QED BY <4>1, <3>4, <1>0, WritesTypes DEF Framed, AnyStep, ChangeStep
    <3>5. CASE Writes(t, [db EXCEPT !.secret = my[t].sec], "change.commit")
      <4>1. [db EXCEPT !.secret = my[t].sec] \in Tables
        BY <1>0, TypesAreParts DEF TablesTypeOK, Tables, Memory
      <4> QED BY <4>1, <3>5, <1>0, WritesTypes DEF Framed, AnyStep, ChangeStep
    <3>6. CASE Commits(t, "token")
      BY <3>6, <1>0, EndsTypes DEF Framed, AnyStep
    <3> QED
      BY <1>3, <3>1, <3>2, <3>3, <3>4, <3>5, <3>6
      DEF Change, ChangeSetsPassword, ChangeClearsMust, ChangeStores, ChangeCommits
  <2>2. my' \in [Session -> Memory]
    <3>1. CASE ChangeSetsPassword(t) \/ ChangeClearsMust(t)
      <4> DEFINE must == db.must # None
                 secret == db.secret # None
      <4>1. \/ my' = [my EXCEPT ![t].row = must]
            \/ my' = [my EXCEPT ![t].row = secret]
            \/ UNCHANGED my
        BY <3>1 DEF ChangeSetsPassword, ChangeClearsMust, Fails
      <4>2. must \in BOOLEAN /\ secret \in BOOLEAN
        OBVIOUS
      <4> HIDE DEF must, secret
      <4> QED BY <4>1, <4>2, <1>0, RowIsTyped, TypesAreParts
    <3>2. CASE ChangeVerifies(t)
      BY <3>2, <1>0, TypesAreParts DEF ChangeVerifies, Memory
    <3>4. CASE ChangeRotates(t)
      <4>1. PICK s \in Secret : my' = [my EXCEPT ![t].sec = s, ![t].olds = signed]
        BY <3>4 DEF ChangeRotates
      <4>2. [my[t] EXCEPT !.sec = s, !.olds = signed] \in Memory
        BY <1>0, TypesAreParts DEF Memory, AdminTypeOK
      <4>3. my' = [my EXCEPT ![t] = [my[t] EXCEPT !.sec = s, !.olds = signed]]
        BY <4>1, <1>0, TypesAreParts
      <4> QED BY <4>2, <4>3, <1>0, MemoryIsTyped
    <3>3. CASE ChangeStores(t) \/ ChangeCommits(t)
      BY <3>3, <1>0, TypesAreParts, BlankIsTyped DEF ChangeStores, ChangeCommits, Fails, CommitFails, Forgets
    <3> QED BY <1>3, <3>1, <3>2, <3>3, <3>4 DEF Change
  <2>3. AdminTypeOK'
    BY <1>3, <1>0, TypesAreParts
    DEF Change, ChangeVerifies, ChangeSetsPassword, ChangeClearsMust, ChangeRotates, ChangeStores,
        ChangeCommits, AdminTypeOK, adminVars, Memory
  <2> QED BY <2>1, <2>2, <2>3, TypesAreParts DEF Framed, KeyTypeOK, keyVars
<1> QED BY <1>1, <1>2, <1>3

LEMMA KeyTypes ==
  ASSUME TInv, NEW p \in Session, GetsFernet(p), UNCHANGED adminVars
  PROVE  TypeOK'
<1> USE DEF TInv
<1>1. CASE KeyFinds(p)
  <2>1. at' \in [Session -> AnyStep]
    BY <1>1, GotoIsTyped DEF KeyFinds, AnyStep, KeyStep, FindStep
  <2>2. my' \in [Session -> Memory] /\ AmissTypeOK' /\ KeyTypeOK'
    BY <1>1, TypesAreParts DEF KeyFinds, Memory, AmissTypeOK, KeyTypeOK, keyVars
  <2> QED BY <1>1, <2>1, <2>2, TypesAreParts DEF KeyFinds, TablesTypeOK, connVars, AdminTypeOK, adminVars
<1>2. CASE KeyChecks(p)
  <2>1. CASE Reads(p, "key.open") \/ Reads(p, "failed")
    BY <2>1, <1>2, EndsTypes, TypesAreParts
    DEF KeyChecks, AnyStep, KeyStep, FindStep, KeyTypeOK, keyVars, AdminTypeOK, adminVars
  <2>2. CASE Goto(p, "key.open") /\ Trouble /\ amiss' = amiss \cup {"unread"} /\ UNCHANGED connVars
    <3>1. at' \in [Session -> AnyStep]
      BY <2>2, GotoIsTyped DEF AnyStep, KeyStep, FindStep
    <3>2. AmissTypeOK' /\ trouble' \in 0..MaxTrouble
      BY <2>2, TypesAreParts, ThreadAssumption DEF AmissTypeOK, Trouble
    <3> QED
      BY <3>1, <3>2, <2>2, <1>2, TypesAreParts
      DEF KeyChecks, TablesTypeOK, connVars, KeyTypeOK, keyVars, AdminTypeOK, adminVars
  <2> QED BY <1>2, <2>1, <2>2 DEF KeyChecks
<1>3. CASE KeyWrites(p)
  <2>1. Framed
    BY <1>3, RunsTypes DEF KeyWrites, Framed, AnyStep, KeyStep, FindStep
  <2>2. my' \in [Session -> Memory] /\ KeyTypeOK'
    BY <1>3, TypesAreParts DEF KeyWrites, Memory, KeyTypeOK
  <2> QED BY <2>1, <2>2, TypesAreParts DEF Framed, AdminTypeOK, adminVars
<1>4. CASE KeySets(p)
  <2>1. my[p].back \in {"save.encrypt", "use", "migrate"}
    BY <1>4 DEF KeySets, Control, Proper, KeyStep, FindStep
  <2>2. Framed
    BY <1>4, <2>1, RunsTypes DEF KeySets, Framed, AnyStep, SaveStep, MainStep
  <2>3. my' \in [Session -> Memory]
    <3>1. [my[p] EXCEPT !.key = None, !.back = "none"] \in Memory
      BY TypesAreParts DEF Memory
    <3>2. my' = [my EXCEPT ![p] = [my[p] EXCEPT !.key = None, !.back = "none"]]
      BY <1>4, TypesAreParts DEF KeySets
    <3> QED BY <3>1, <3>2, MemoryIsTyped
  <2>4. KeyTypeOK'
    BY <1>4, TypesAreParts DEF KeySets, KeyTypeOK, Memory
  <2> QED BY <2>2, <2>3, <2>4, TypesAreParts DEF Framed, AdminTypeOK, adminVars
<1> QED BY <1>1, <1>2, <1>3, <1>4 DEF GetsFernet

LEMMA NodeTypes ==
  ASSUME TInv, NEW t \in Thread, UNCHANGED adminVars,
         BeginRequest(t) \/ SaveEncrypts(t) \/ SaveCommits(t) \/ Uses(t)
         \/ (Close(t) /\ UNCHANGED keyVars)
  PROVE  TypeOK'
<1> USE DEF TInv
<1>0. t \in Session
  BY DEF Session
<1>1. CASE BeginRequest(t)
  <2>1. PICK kind \in {"change", "save", "use"}, c \in signed, n \in Node \cup {None} :
          Begins(t, "auth", [Blank EXCEPT !.kind = kind, !.cookie = c, !.node = n])
    BY <1>1 DEF BeginRequest
  <2>2. [Blank EXCEPT !.kind = kind, !.cookie = c, !.node = n] \in Memory
    BY TypesAreParts DEF Blank, Memory, AdminTypeOK
  <2>3. my' \in [Session -> Memory]
    BY <2>1, <2>2, <1>0, MemoryIsTyped DEF Begins
  <2>4. Framed
    BY <2>1, <1>0, RunsTypes DEF Begins, Framed, AnyStep
  <2> QED BY <1>1, <2>3, <2>4, TypesAreParts DEF Framed, BeginRequest, KeyTypeOK, keyVars, AdminTypeOK, adminVars
<1>2. CASE SaveEncrypts(t) \/ Uses(t)
  <2>1. Framed
    BY <1>2, <1>0, RunsTypes DEF SaveEncrypts, Uses, NeedsFernet, Framed, AnyStep, SaveStep, KeyStep
  <2>2. my' \in [Session -> Memory] /\ KeyTypeOK'
    BY <1>2, <1>0, TypesAreParts DEF SaveEncrypts, Uses, NeedsFernet, Memory, KeyTypeOK, keyVars
  <2> QED BY <2>1, <2>2, TypesAreParts DEF Framed, AdminTypeOK, adminVars
<1>3. CASE SaveCommits(t)
  <2>1. Framed
    <3>1. CASE Writes(t, [db EXCEPT !.cred[my[t].node] = my[t].key], "save.commit") /\ at[t] = "save.flush"
      <4>1. [db EXCEPT !.cred[my[t].node] = my[t].key] \in Tables
        BY <1>0, TypesAreParts DEF TablesTypeOK, Tables, Memory
      <4> QED BY <4>1, <3>1, <1>0, WritesTypes DEF Framed, AnyStep, SaveStep
    <3>2. CASE Commits(t, "close")
      BY <3>2, <1>0, EndsTypes DEF Framed, AnyStep
    <3>3. CASE CommitFails(t)
      BY <3>3, <1>0, RunsTypes DEF Framed, AnyStep
    <3> QED BY <1>3, <3>1, <3>2, <3>3 DEF SaveCommits
  <2>2. my' \in [Session -> Memory] /\ KeyTypeOK'
    BY <1>3, <1>0, TypesAreParts, BlankIsTyped DEF SaveCommits, Forgets, CommitFails, KeyTypeOK, keyVars
  <2> QED BY <2>1, <2>2, TypesAreParts DEF Framed, AdminTypeOK, adminVars
<1>4. CASE Close(t) /\ UNCHANGED keyVars
  <2>1. Framed /\ my' \in [Session -> Memory]
    BY <1>4, <1>0, EndsTypes, MemoryIsTyped, BlankIsTyped DEF Close, Ends, Forgets, Framed, AnyStep
  <2> QED BY <1>4, <2>1, TypesAreParts DEF Framed, KeyTypeOK, keyVars, AdminTypeOK, adminVars
<1> QED BY <1>1, <1>2, <1>3, <1>4

\* The main thread.
StartStepOf == FirstAdmin(Main) \/ TellsPassword(Main) \/ Start

LEMMA StartTypes ==
  ASSUME TInv, StartStepOf, UNCHANGED keyVars
  PROVE  TypeOK'
<1> USE DEF TInv
<1>0. Main \in Session
  BY DEF Session
<1>1. CASE FirstAdmin(Main)
  <2>1. TablesTypeOK'
    <3>1. [db EXCEPT !.admin = TRUE, !.pwd = First, !.must = "1"] \in Tables
      BY TypesAreParts DEF TablesTypeOK, Tables
    <3> QED BY <3>1, <1>1, TypesAreParts DEF FirstAdmin, Runs, TablesTypeOK, connVars
  <2>2. at' \in [Session -> AnyStep]
    BY <1>1, <1>0, GotoIsTyped DEF FirstAdmin, Runs, AnyStep, MainStep
  <2>3. trouble' \in 0..MaxTrouble
    BY <1>1, TypesAreParts, ThreadAssumption DEF FirstAdmin, Runs, Trouble
  <2>4. AmissTypeOK'
    BY <1>1, TypesAreParts DEF FirstAdmin, Runs, AmissTypeOK
  <2> QED
    BY <1>1, <2>1, <2>2, <2>3, <2>4, TypesAreParts
    DEF FirstAdmin, AdminTypeOK, adminVars, KeyTypeOK, keyVars
<1>2. CASE TellsPassword(Main) \/ Start
  <2>1. Framed
    BY <1>2, <1>0, RunsTypes DEF TellsPassword, Start, Framed, AnyStep, MainStep
  <2> QED BY <1>2, <2>1, TypesAreParts
          DEF Framed, TellsPassword, Start, AdminTypeOK, adminVars, KeyTypeOK, keyVars
<1> QED BY <1>1, <1>2 DEF StartStepOf

LEMMA MigrateTypes ==
  ASSUME TInv, Migrates(Main) \/ MigrateLoads(Main), UNCHANGED adminVars
  PROVE  TypeOK'
<1> USE DEF TInv
<1>0. Main \in Session
  BY DEF Session
<1>1. Framed
  <2>1. CASE Runs(Main, "serving") \/ Runs(Main, "key.find")
    BY <2>1, <1>0, RunsTypes DEF Framed, AnyStep, MainStep, KeyStep
  <2>2. CASE Writes(Main, [db EXCEPT !.cred = [n \in Node |-> IF n \in Plain THEN fernet ELSE @[n]]],
                    "migrate.commit") /\ fernet # None
    <3>1. [db EXCEPT !.cred = [n \in Node |-> IF n \in Plain THEN fernet ELSE @[n]]] \in Tables
      BY <2>2, TypesAreParts DEF TablesTypeOK, Tables, KeyTypeOK
    <3> QED BY <3>1, <2>2, <1>0, WritesTypes DEF Framed, AnyStep, MainStep
  <2>3. CASE Commits(Main, "serving")
    BY <2>3, <1>0, EndsTypes DEF Framed, AnyStep, MainStep
  <2>4. CASE CommitFails(Main)
    BY <2>4, <1>0, RunsTypes DEF Framed, AnyStep
  <2> QED BY <2>1, <2>2, <2>3, <2>4 DEF Migrates, MigrateLoads, NeedsFernet
<1>2. my' \in [Session -> Memory] /\ KeyTypeOK'
  BY <1>0, TypesAreParts, BlankIsTyped
  DEF Migrates, MigrateLoads, NeedsFernet, CommitFails, Forgets, Memory, KeyTypeOK, keyVars
<1> QED BY <1>1, <1>2, TypesAreParts DEF Framed, AdminTypeOK, adminVars

LEMMA OutsideTypes ==
  ASSUME TInv,
         \/ KeyIsLost /\ UNCHANGED adminVars
         \/ OtherSessionEnds /\ UNCHANGED <<adminVars, keyVars>>
         \/ Stops \/ Crashes
  PROVE  TypeOK'
<1> USE DEF TInv
<1>1. CASE KeyIsLost /\ UNCHANGED adminVars
  BY <1>1, TypesAreParts, ThreadAssumption
  DEF KeyIsLost, Trouble, TablesTypeOK, connVars, AmissTypeOK, KeyTypeOK, AdminTypeOK, adminVars
<1>2. CASE OtherSessionEnds /\ UNCHANGED <<adminVars, keyVars>>
  BY <1>2, TypesAreParts
  DEF OtherSessionEnds, RollbackAll, CommitAll, Besides, TablesTypeOK, AmissTypeOK, KeyTypeOK,
      keyVars, AdminTypeOK, adminVars
<1>3. CASE Stops \/ Crashes
  <2>1. TablesTypeOK' /\ AdminTypeOK' /\ KeyTypeOK'
    BY <1>3, TypesAreParts
    DEF Stops, Crashes, Exits, Reopen, TablesTypeOK, AdminTypeOK, KeyTypeOK
  <2>2. at' \in [Session -> AnyStep] /\ my' \in [Session -> Memory]
    BY <1>3, BlankIsTyped DEF Stops, Crashes, Exits, AnyStep, MainStep
  <2>3. AmissTypeOK' /\ trouble' \in 0..MaxTrouble
    BY <1>3, TypesAreParts, ThreadAssumption DEF Stops, Crashes, Trouble, AmissTypeOK
  <2> QED BY <2>1, <2>2, <2>3, TypesAreParts
<1> QED BY <1>1, <1>2, <1>3

-----------------------------------------------------------------------------
(* Control.                                                                *)

\* It is enough to look at the thread that takes the step.
LEMMA ThreadKeepsControl ==
  ASSUME TInv, NEW t \in Thread, NEW s \in AnyStep \ MainStep, Goto(t, s), Serving,
         \A q \in Session \ {t} : my'[q] = my[q], Proper(t, s, my'[t])
  PROVE  Control'
<1>1. t # Main /\ t \in Session /\ Main \in Session /\ at \in [Session -> AnyStep]
  BY ThreadAssumption, TypesAreParts DEF TInv, Session
<1>2. at'[t] = s /\ \A q \in Session \ {t} : at'[q] = at[q]
  BY <1>1 DEF Goto
<1>3. \A q \in Session : Proper(q, at'[q], my'[q])
  BY <1>2 DEF TInv, Control
<1>4. at'[Main] \in StartStep /\ Serving'
  BY <1>1, <1>2 DEF TInv, Control, Serving
<1>5. \A q \in Thread : at'[q] \notin MainStep
  BY <1>2 DEF TInv, Control, Session
<1> QED BY <1>3, <1>4, <1>5 DEF Control

LEMMA MainKeepsControl ==
  ASSUME TInv, NEW s \in StartStep, Goto(Main, s), ~ Serving,
         \A q \in Thread : my'[q] = my[q], Proper(Main, s, my'[Main])
  PROVE  Control'
<1>1. Main \notin Thread /\ Main \in Session /\ at \in [Session -> AnyStep]
  BY ThreadAssumption, TypesAreParts DEF TInv, Session
<1>2. at'[Main] = s /\ \A q \in Thread : at'[q] = at[q]
  BY <1>1 DEF Goto, Session
<1>3. \A q \in Session : Proper(q, at'[q], my'[q])
  BY <1>2 DEF TInv, Control, Session
<1>4. \A q \in Thread : at'[q] \notin MainStep /\ at'[q] = "idle"
  BY <1>2 DEF TInv, Control
<1> QED BY <1>2, <1>3, <1>4 DEF Control

\* A thread that is at work is one of a panel that serves.
LEMMA BusyIsServing ==
  ASSUME TInv, NEW t \in Thread, at[t] # "idle"
  PROVE  Serving
BY DEF TInv, Control

LEMMA JwtControl ==
  ASSUME TInv, NEW t \in Thread, Signs(t) \/ Authenticates(t) \/ GetsSecret(t)
  PROVE  Control'
<1>0. t \in Session /\ Serving /\ Proper(t, at[t], my[t]) /\ my \in [Session -> Memory]
  BY BusyIsServing, TypesAreParts
  DEF TInv, Control, Session, Signs, Authenticates, GetsSecret, JwtReads, JwtStores, JwtFills
<1>1. \A q \in Session \ {t} : my'[q] = my[q]
  BY <1>0 DEF Signs, Authenticates, NeedsSecret, GetsSecret, JwtReads, JwtStores, JwtFills, Fails, CommitFails
<1>2. CASE Signs(t)
  <2>1. \E s \in {"jwt.read", "close"} : Goto(t, s) /\ Proper(t, s, my'[t])
    BY <1>0, <1>2 DEF Signs, NeedsSecret, Runs, Proper, JwtStep, KeyStep, FindStep, Memory
  <2> QED BY <1>0, <1>1, <2>1, ThreadKeepsControl DEF AnyStep, JwtStep, MainStep
<1>3. CASE Authenticates(t)
  <2>1. \E s \in {"jwt.read", "close", "change.verify", "save.encrypt", "use"} :
          Goto(t, s) /\ Proper(t, s, my'[t])
    BY <1>0, <1>3 DEF Authenticates, NeedsSecret, Runs, Proper, JwtStep, KeyStep, FindStep, Memory
  <2> QED BY <1>0, <1>1, <2>1, ThreadKeepsControl DEF AnyStep, JwtStep, ChangeStep, SaveStep, MainStep
<1>4. CASE JwtReads(t) \/ JwtStores(t)
  <2>1. \E s \in {"jwt.fill", "jwt.again", "jwt.flush", "jwt.commit", "failed"} :
          Goto(t, s) /\ Proper(t, s, my'[t])
    BY <1>0, <1>4
    DEF JwtReads, JwtStores, Runs, Writes, Commits, Fails, CommitFails, Proper, JwtStep, KeyStep, FindStep, Memory
  <2> QED BY <1>0, <1>1, <2>1, ThreadKeepsControl DEF AnyStep, JwtStep, MainStep
<1>5. CASE JwtFills(t)
  <2>1. \E s \in {"token", "auth"} : Goto(t, s) /\ Proper(t, s, my'[t])
    BY <1>0, <1>5 DEF JwtFills, Proper, JwtStep, KeyStep, FindStep, Memory
  <2> QED BY <1>0, <1>1, <2>1, ThreadKeepsControl DEF AnyStep, MainStep
<1> QED BY <1>2, <1>3, <1>4, <1>5 DEF GetsSecret

LEMMA AccountControl ==
  ASSUME TInv, NEW t \in Thread, BeginLogin(t) \/ BeginSetup(t) \/ SetupRuns(t) \/ Change(t)
  PROVE  Control'
<1>0. t \in Session /\ Serving /\ my \in [Session -> Memory]
  BY BusyIsServing, TypesAreParts
  DEF TInv, Session, BeginLogin, BeginSetup, Begins, SetupRuns, Change, ChangeVerifies, ChangeSetsPassword,
      ChangeClearsMust, ChangeRotates, ChangeStores, ChangeCommits
<1>1. \A q \in Session \ {t} : my'[q] = my[q]
  BY <1>0 DEF BeginLogin, BeginSetup, Begins, SetupRuns, Fails, CommitFails, Forgets, Change, ChangeVerifies,
     ChangeSetsPassword, ChangeClearsMust, ChangeRotates, ChangeStores, ChangeCommits
<1>2. \E s \in {"token", "setup.user", "setup.pwd", "setup.commit", "change.pwd", "change.must",
                "change.rotate", "change.secret", "change.commit", "close", "failed"} : Goto(t, s)
  BY DEF BeginLogin, BeginSetup, Begins, Runs, Writes, Commits, SetupRuns, Fails, CommitFails, Change, ChangeVerifies,
     ChangeSetsPassword, ChangeClearsMust, ChangeRotates, ChangeStores, ChangeCommits
<1> QED BY <1>0, <1>1, <1>2, ThreadKeepsControl
        DEF Proper, AnyStep, SetupStep, ChangeStep, JwtStep, KeyStep, FindStep, MainStep

LEMMA KeyControl ==
  ASSUME TInv, NEW p \in Session, GetsFernet(p)
  PROVE  Control'
<1>0. at[p] \in KeyStep /\ Proper(p, at[p], my[p]) /\ my \in [Session -> Memory]
  BY TypesAreParts
  DEF TInv, Control, GetsFernet, KeyFinds, KeyChecks, KeyWrites, KeySets, KeyStep, FindStep
<1>1. \A q \in Session \ {p} : my'[q] = my[q]
  BY <1>0 DEF GetsFernet, KeyFinds, KeyChecks, KeyWrites, KeySets
<1>2. \E s \in FindStep \cup {"failed", my[p].back} : Goto(p, s) /\ Proper(p, s, my'[p])
  <2>1. CASE KeySets(p)
    BY <1>0, <2>1 DEF KeySets, Runs, Proper, JwtStep, KeyStep, FindStep, Memory
  <2>2. CASE KeyFinds(p)
    BY <1>0, <2>2 DEF KeyFinds, Proper, JwtStep, KeyStep, FindStep, Memory
  <2>3. CASE KeyChecks(p) \/ KeyWrites(p)
    BY <1>0, <2>3 DEF KeyChecks, KeyWrites, Runs, Reads, Proper, JwtStep, KeyStep, FindStep, Memory
  <2> QED BY <2>1, <2>2, <2>3 DEF GetsFernet
<1>3. CASE p = Main
  <2>1. ~ Serving /\ my[p].back = "migrate" /\ \A q \in Thread : q \in Session \ {p}
    BY <1>0, <1>3, ThreadAssumption DEF Serving, KeyStep, FindStep, Proper, Session
  <2> QED BY <1>1, <1>2, <1>3, <2>1, MainKeepsControl DEF StartStep, MainStep, KeyStep
<1>4. CASE p # Main
  <2>1. p \in Thread /\ Serving /\ my[p].back \in {"save.encrypt", "use"}
    BY <1>0, <1>4, BusyIsServing DEF KeyStep, FindStep, Proper, Session
  <2>2. FindStep \cup {"failed", my[p].back} \subseteq AnyStep \ MainStep
    BY <2>1 DEF AnyStep, KeyStep, FindStep, SaveStep, MainStep
  <2> QED BY <1>1, <1>2, <2>1, <2>2, ThreadKeepsControl
<1> QED BY <1>3, <1>4

LEMMA NodeControl ==
  ASSUME TInv, NEW t \in Thread,
         BeginRequest(t) \/ SaveEncrypts(t) \/ SaveCommits(t) \/ Uses(t) \/ Close(t)
  PROVE  Control'
<1>0. t \in Session /\ Serving /\ my \in [Session -> Memory] /\ t # Main
  BY BusyIsServing, TypesAreParts, ThreadAssumption
  DEF TInv, Session, BeginRequest, Begins, SaveEncrypts, SaveCommits, Uses, Close
<1>1. \A q \in Session \ {t} : my'[q] = my[q]
  BY <1>0 DEF BeginRequest, Begins, SaveEncrypts, SaveCommits, Uses, NeedsFernet, Close, Ends, CommitFails, Forgets
<1>2. \E s \in {"auth", "key.find", "save.flush", "save.commit", "close", "failed", "idle"} :
        Goto(t, s) /\ Proper(t, s, my'[t])
  <2>1. CASE BeginRequest(t)
    BY <1>0, <2>1 DEF BeginRequest, Begins, Runs, Proper, Blank, JwtStep, KeyStep, FindStep
  <2>2. CASE SaveEncrypts(t) \/ Uses(t)
    BY <1>0, <2>2 DEF SaveEncrypts, Uses, NeedsFernet, Runs, Proper, JwtStep, KeyStep, FindStep, Memory
  <2>3. CASE SaveCommits(t) \/ Close(t)
    BY <1>0, <2>3 DEF SaveCommits, Close, Ends, Reads, Writes, Commits, CommitFails, Proper, JwtStep, KeyStep, FindStep
  <2> QED BY <2>1, <2>2, <2>3
<1> QED BY <1>0, <1>1, <1>2, ThreadKeepsControl DEF AnyStep, SaveStep, KeyStep, MainStep

LEMMA MainControl ==
  ASSUME TInv, StartStepOf \/ Migrates(Main) \/ MigrateLoads(Main)
  PROVE  Control'
<1>0. Main \in Session /\ ~ Serving /\ my \in [Session -> Memory] /\ Main \notin Thread
  BY TypesAreParts, ThreadAssumption
  DEF TInv, Session, Serving, StartStepOf, FirstAdmin, TellsPassword, Start, Migrates, MigrateLoads
<1>1. \A q \in Thread : my'[q] = my[q]
  BY <1>0 DEF Session, StartStepOf, FirstAdmin, TellsPassword, Start, Migrates, MigrateLoads, NeedsFernet,
     CommitFails, Forgets
<1>2. \E s \in {"admin", "tell", "migrate", "migrate.commit", "serving", "key.find", "failed"} :
        Goto(Main, s) /\ Proper(Main, s, my'[Main])
  <2>1. CASE MigrateLoads(Main)
    BY <1>0, <2>1 DEF MigrateLoads, NeedsFernet, Runs, Proper, JwtStep, KeyStep, FindStep, Memory
  <2>2. CASE StartStepOf \/ Migrates(Main)
    BY <1>0, <2>2 DEF StartStepOf, FirstAdmin, TellsPassword, Start, Migrates, Runs, Writes, Commits,
       CommitFails, Proper, JwtStep, KeyStep, FindStep
  <2> QED BY <2>1, <2>2
<1> QED BY <1>0, <1>1, <1>2, MainKeepsControl DEF StartStep, MainStep, KeyStep

LEMMA OutsideControl ==
  ASSUME TInv, KeyIsLost \/ OtherSessionEnds \/ Stops \/ Crashes
  PROVE  Control'
<1>1. CASE KeyIsLost \/ OtherSessionEnds
  BY <1>1 DEF TInv, KeyIsLost, OtherSessionEnds, Control, Serving
<1>2. CASE Stops \/ Crashes
  <2>1. /\ Main \notin Thread
        /\ at' = [p \in Session |-> IF p = Main THEN "down" ELSE "idle"]
        /\ my' = [p \in Session |-> Blank]
    BY <1>2, ThreadAssumption DEF Stops, Crashes, Exits
  <2> QED BY <2>1 DEF Control, Session, StartStep, MainStep, Proper, KeyStep, FindStep, JwtStep
<1> QED BY <1>1, <1>2

LEMMA NextSplits ==
  ASSUME Next
  PROVE  \/ \E t \in Thread : AdminStep(t)
         \/ \E t \in Thread : BeginRequest(t)
         \/ \E t \in Thread : (SaveEncrypts(t) \/ SaveCommits(t) \/ Uses(t)) /\ UNCHANGED adminVars
         \/ \E t \in Thread : Close(t) /\ UNCHANGED <<adminVars, keyVars>>
         \/ \E p \in Session : GetsFernet(p) /\ UNCHANGED adminVars
         \/ StartStepOf /\ UNCHANGED keyVars
         \/ (Migrates(Main) \/ MigrateLoads(Main)) /\ UNCHANGED adminVars
         \/ KeyIsLost /\ UNCHANGED adminVars
         \/ OtherSessionEnds /\ UNCHANGED <<adminVars, keyVars>>
         \/ Stops \/ Crashes
BY DEF Next, StartStepOf, Start

LEMMA StutterKeepsTInv == TInv /\ UNCHANGED vars => TInv'
BY DEF vars, connVars, threadVars, adminVars, keyVars, TInv, TypeOK, AdminTypeOK, KeyTypeOK, Control, Serving

LEMMA StepKeepsTInv == TInv /\ [Next]_vars => TInv'
<1> SUFFICES ASSUME TInv, Next PROVE TypeOK' /\ Control'
  BY StutterKeepsTInv DEF TInv
<1>1. ASSUME NEW t \in Thread, AdminStep(t) PROVE TypeOK' /\ Control'
  BY <1>1, JwtTypes, AccountTypes, JwtControl, AccountControl DEF AdminStep
<1>2. ASSUME NEW t \in Thread, BeginRequest(t) PROVE TypeOK' /\ Control'
  BY <1>2, NodeTypes, NodeControl DEF BeginRequest
<1>3. ASSUME NEW t \in Thread, SaveEncrypts(t) \/ SaveCommits(t) \/ Uses(t), UNCHANGED adminVars
      PROVE  TypeOK' /\ Control'
  BY <1>3, NodeTypes, NodeControl
<1>4. ASSUME NEW t \in Thread, Close(t), UNCHANGED <<adminVars, keyVars>> PROVE TypeOK' /\ Control'
  BY <1>4, NodeTypes, NodeControl
<1>5. ASSUME NEW p \in Session, GetsFernet(p), UNCHANGED adminVars PROVE TypeOK' /\ Control'
  BY <1>5, KeyTypes, KeyControl
<1>6. CASE (StartStepOf /\ UNCHANGED keyVars)
           \/ ((Migrates(Main) \/ MigrateLoads(Main)) /\ UNCHANGED adminVars)
  BY <1>6, StartTypes, MigrateTypes, MainControl
<1>7. CASE \/ KeyIsLost /\ UNCHANGED adminVars
           \/ OtherSessionEnds /\ UNCHANGED <<adminVars, keyVars>>
           \/ Stops \/ Crashes
  BY <1>7, OutsideTypes, OutsideControl
<1> QED BY <1>1, <1>2, <1>3, <1>4, <1>5, <1>6, <1>7, NextSplits

LEMMA InitTInv == Init => TInv
<1> SUFFICES ASSUME Init PROVE TInv
  OBVIOUS
<1>1. TypeOK
  <2>1. TablesTypeOK
    <3>1. PICK cred \in [Node -> {"plain", None}] :
            DatabaseInit([admin |-> FALSE, pwd |-> None, must |-> None, secret |-> None, cred |-> cred])
      BY DEF Init
    <3>2. [admin |-> FALSE, pwd |-> None, must |-> None, secret |-> None, cred |-> cred] \in Tables
      BY DEF Tables
    <3> QED BY <3>1, <3>2 DEF DatabaseInit, TablesTypeOK
  <2>2. at \in [Session -> AnyStep] /\ my \in [Session -> Memory]
    BY BlankIsTyped DEF Init, ThreadInit, AnyStep, MainStep
  <2>3. AmissTypeOK /\ trouble \in 0..MaxTrouble
    BY ThreadAssumption DEF Init, ThreadInit, AmissTypeOK
  <2>4. AdminTypeOK /\ KeyTypeOK
    BY DEF Init, AdminInit, KeyInit, AdminTypeOK, KeyTypeOK
  <2> QED BY <2>1, <2>2, <2>3, <2>4 DEF TypeOK, TablesTypeOK, AmissTypeOK, AnyStep
<1>2. Control
  BY ThreadAssumption
  DEF Init, ThreadInit, Control, Session, StartStep, MainStep, Proper, KeyStep, FindStep, JwtStep
<1> QED BY <1>1, <1>2 DEF TInv

(***************************************************************************)
(* TypeOK for any number of threads and nodes.  It needs Control: a call   *)
(* of get_jwt_secret or _get_fernet goes on at the step it was made from.  *)
(***************************************************************************)
THEOREM TypesHold == Spec => []TypeOK
<1>1. TInv => TypeOK
  BY DEF TInv
<1> QED BY <1>1, InitTInv, StepKeepsTInv, PTL DEF Spec

=============================================================================
