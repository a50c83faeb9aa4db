------------------------- MODULE AdminAccountProofs -------------------------
(***************************************************************************)
(* What is proved of the administrator's account in PanelProcess: its rows *)
(* are stored together, tokens from before a password change stay dead,    *)
(* and a restart of a panel at rest throws nobody out.                     *)
(***************************************************************************)
EXTENDS PanelProcessProofs

-----------------------------------------------------------------------------
(* The invariants.                                                         *)

\* The steps at which a session has statements that are not committed.
FlushedStep == {"jwt.commit", "setup.pwd", "setup.commit", "change.must", "change.rotate",
                "change.secret", "change.commit", "save.commit", "migrate.commit"}

(***************************************************************************)
(* Flushed statements belong to sessions that are still at work on them;   *)
(* as long as nothing was shared, what such a session flushed is there.    *)
(***************************************************************************)
Flushed ==
  /\ dirty = {} => db = disk
  /\ \A p \in dirty : at[p] \in FlushedStep \cup {"failed"}
  /\ Without({"shared"}) => \A p \in Session : at[p] \in FlushedStep => p \in dirty

(***************************************************************************)
(* The account as a session that alone has flushed something sees it.      *)
(***************************************************************************)
Same(a, b) == a.admin = b.admin /\ a.pwd = b.pwd /\ a.must = b.must

Draft(p) ==
  /\ at[p] = "setup.pwd"    => db.admin /\ db.pwd = disk.pwd /\ db.must = disk.must
  /\ at[p] = "setup.commit" => db.admin /\ db.pwd \in Password /\ db.must = disk.must
  /\ at[p] \in {"change.must", "change.rotate", "change.secret", "change.commit"} =>
       db.admin = disk.admin /\ db.pwd \in Password /\ disk.pwd # None
  /\ at[p] = "change.must" => db.must = disk.must
  /\ at[p] \in {"change.rotate", "change.secret", "change.commit"} => db.must = "0"
  /\ at[p] \in {"jwt.commit", "save.commit", "migrate.commit"} => Same(db, disk)

\* The steps after which a request still needs the password it was sent.
HoldsPassword == {"setup.user", "setup.pwd", "change.pwd"}

Whole ==
  /\ disk.admin <=> disk.pwd # None
  /\ disk.must = "1" <=> disk.pwd = First

AccountInv ==
  /\ \A p \in Session : at[p] \in HoldsPassword => my[p].pwd \in Password
  /\ disk.admin => db.admin
  /\ db.pwd = First => disk.pwd = First
  /\ disk.pwd = First => told \/ "untold" \in amiss \/ at[Main] = "tell"
  /\ Without({"shared"}) =>
       /\ Whole
       /\ \A p \in Session : dirty = {p} => Draft(p)
       /\ \A p \in Session : at[p] \in SetupStep => disk.pwd # First

\* A secret that is to become the stored one is nobody else's.
Unseen(p) ==
  /\ my[p].sec \in Secret
  /\ my[p].sec \notin {cache, db.secret, disk.secret} \cup signed
  /\ \A u \in Session \ {p} : my[u].sec # my[p].sec

SecretInv ==
  /\ revoked \subseteq signed
  /\ \A p \in Session :
       /\ my[p].olds \subseteq signed
       /\ at[p] \in {"jwt.again", "jwt.flush"} => Unseen(p)
       /\ at[p] \in {"jwt.commit", "jwt.fill"} => my[p].sec \in Secret
       /\ at[p] \in {"change.secret", "change.commit"} =>
            my[p].sec \in Secret /\ my[p].sec \notin my[p].olds /\ cache # None
  /\ Without({"shared"}) => \A p \in Session : dirty = {p} =>
       /\ at[p] \in {"jwt.commit", "change.commit"} => db.secret = my[p].sec
       /\ at[p] \in FlushedStep \ {"jwt.commit", "change.commit"} => db.secret = disk.secret
       /\ at[p] \in {"change.rotate", "change.secret"} => my[p].row = (db.secret # None)

DeadInv ==
  Without({"shared", "overtaken"}) =>
    /\ revoked \cap {cache, db.secret, disk.secret} = {}
    /\ \A p \in Session :
         /\ at[p] \in {"jwt.commit", "change.secret", "change.commit"} => my[p].sec \notin revoked
         /\ at[p] \in {"change.secret", "change.commit"} => cache \notin my[p].olds
         /\ at[p] = "jwt.fill" /\ cache = None => my[p].sec \notin revoked

\* A secret that is, or is about to be, the stored one.
Backed(s) ==
  \/ s = disk.secret
  \/ \E p \in dirty : at[p] \in {"jwt.commit", "change.secret", "change.commit"} /\ my[p].sec = s
  \/ \E p \in Session : at[p] = "jwt.fill" /\ my[p].sec = disk.secret
  \/ \E p, q \in dirty : p # q

\* The cache's secret; while it is empty, those that may fill it.
InUse(s) ==
  \/ s = cache
  \/ cache = None /\ \E p \in Session : at[p] = "jwt.fill" /\ my[p].sec = s

KeepInv ==
  Without({"shared", "overtaken", "unsaved"}) =>
    /\ \A p \in Session : dirty = {p} =>
         /\ at[p] \in {"change.secret", "change.commit"} => cache = my[p].sec
         /\ at[p] = "failed" => db.secret = disk.secret
    /\ \A s \in Secret : InUse(s) => Backed(s)

-----------------------------------------------------------------------------
(* The statements that are flushed and not yet committed.                  *)

LEMMA StillKeepsFlushed ==
  ASSUME TInv, Flushed, NEW p \in Session, NEW s, Goto(p, s),
         UNCHANGED <<db, disk, dirty>>, amiss \subseteq amiss',
         s \in FlushedStep => at[p] \in FlushedStep,
         at[p] \in FlushedStep \cup {"failed"} => s \in FlushedStep \cup {"failed"}
  PROVE  Flushed'
<1>1. at'[p] = s /\ \A q \in Session \ {p} : at'[q] = at[q]
  BY TypesAreParts DEF TInv, Goto
<1>2. dirty \subseteq Session
  BY TypesAreParts DEF TInv, TablesTypeOK
<1>3. Without({"shared"})' => Without({"shared"})
  BY DEF Without
<1> QED BY <1>1, <1>2, <1>3 DEF Flushed

LEMMA WritesKeepsFlushed ==
  ASSUME TInv, Flushed, NEW p \in Session, NEW s \in FlushedStep, NEW tables, Writes(p, tables, s)
  PROVE  Flushed'
<1>1. at'[p] = s /\ \A q \in Session \ {p} : at'[q] = at[q]
  BY TypesAreParts DEF TInv, Writes, Goto
<1>2. dirty' = dirty \cup {p} /\ amiss' = amiss /\ dirty \subseteq Session
  BY TypesAreParts DEF TInv, TablesTypeOK, Writes, Flush
<1> QED BY <1>1, <1>2 DEF Flushed, Without

\* Who ends beside another's statements shares them.
LEMMA AloneAtTheEnd ==
  ASSUME NEW p, Besides(p), Without({"shared"})'
  PROVE  dirty \subseteq {p} /\ amiss' = amiss /\ Without({"shared"})
BY DEF Besides, Without

LEMMA EndsKeepsFlushed ==
  ASSUME TInv, Flushed, NEW p \in Session, NEW s, s \notin FlushedStep, Commits(p, s) \/ Reads(p, s)
  PROVE  Flushed'
<1>1. at'[p] = s /\ \A q \in Session \ {p} : at'[q] = at[q]
  BY TypesAreParts DEF TInv, Commits, Reads, Goto
<1>2. dirty' = {} /\ db' = disk' /\ Besides(p)
  BY DEF Commits, Reads, CommitAll, RollbackAll
<1>3. Without({"shared"})' => \A q \in Session \ {p} : at'[q] \notin FlushedStep
  BY <1>1, <1>2, AloneAtTheEnd DEF Flushed
<1> QED BY <1>1, <1>2, <1>3 DEF Flushed

LEMMA AdminKeepsFlushed ==
  ASSUME TInv, Flushed, NEW t \in Thread, AdminStep(t)
  PROVE  Flushed'
<1>0. t \in Session /\ Proper(t, at[t], my[t])
  BY DEF Session, TInv, Control
<1>1. CASE Signs(t) \/ Authenticates(t) \/ BeginLogin(t) \/ BeginSetup(t) \/ ChangeVerifies(t)
  <2>1. \E s : s \notin FlushedStep /\ Runs(t, s) /\ at[t] \notin FlushedStep \cup {"failed"}
    BY <1>0, <1>1 DEF Signs, Authenticates, NeedsSecret, BeginLogin, BeginSetup, Begins, ChangeVerifies,
       Proper, FlushedStep
  <2> QED BY <2>1, <1>0, StillKeepsFlushed DEF Runs, connVars
<1>2. CASE ChangeRotates(t)
  BY <1>0, <1>2, StillKeepsFlushed DEF ChangeRotates, Runs, connVars, FlushedStep
<1>3. CASE JwtReads(t) \/ JwtFills(t)
  <2>1. PICK s : s \notin FlushedStep /\ Goto(t, s) /\ at[t] \notin FlushedStep \cup {"failed"}
    BY <1>0, <1>3 DEF JwtReads, JwtFills, Runs, Proper, JwtStep, FlushedStep
  <2>2. UNCHANGED <<db, disk, dirty>> /\ amiss \subseteq amiss'
    BY <1>3 DEF JwtReads, JwtFills, Runs, connVars
  <2> QED BY <2>1, <2>2, <1>0, StillKeepsFlushed
<1>4. CASE Fails(t) \/ CommitFails(t)
  <2>1. Goto(t, "failed") /\ UNCHANGED <<db, disk, dirty>> /\ amiss \subseteq amiss'
    BY <1>4 DEF Fails, CommitFails, connVars
  <2> QED BY <2>1, <1>0, StillKeepsFlushed DEF FlushedStep
<1>5. CASE JwtStores(t) \/ SetupRuns(t)
  <2>1. \/ \E s \in FlushedStep : \E tables : Writes(t, tables, s)
        \/ Commits(t, "jwt.fill") \/ Commits(t, "token")
        \/ Fails(t) \/ CommitFails(t)
        \/ Runs(t, "jwt.flush") /\ at[t] = "jwt.again"
    BY <1>5 DEF JwtStores, SetupRuns, FlushedStep
  <2> QED BY <2>1, <1>0, <1>4, WritesKeepsFlushed, EndsKeepsFlushed, StillKeepsFlushed
          DEF FlushedStep, Runs, connVars
<1>6. CASE ChangeSetsPassword(t) \/ ChangeClearsMust(t) \/ ChangeStores(t) \/ ChangeCommits(t)
  <2>1. \/ \E s \in FlushedStep : \E tables : Writes(t, tables, s)
        \/ Commits(t, "token") \/ Fails(t) \/ CommitFails(t)
    BY <1>6 DEF ChangeSetsPassword, ChangeClearsMust, ChangeStores, ChangeCommits, FlushedStep
  <2> QED BY <2>1, <1>0, <1>4, WritesKeepsFlushed, EndsKeepsFlushed DEF FlushedStep
<1> QED BY <1>1, <1>2, <1>3, <1>5, <1>6 DEF AdminStep, GetsSecret, Change

-----------------------------------------------------------------------------
(* Steps that have nothing to do with the account.                         *)

OtherStep == KeyStep \cup SaveStep \cup MainStep \cup {"idle", "close", "failed", "auth", "use"}

Elsewhere(p, s) ==
  /\ at[p] \in OtherStep \ {"auth", "tell"} /\ s \in OtherStep \ {"tell"}
  /\ Goto(p, s)
  /\ UNCHANGED adminVars
  /\ \A q \in Session \ {p} : my'[q] = my[q]
  /\ my'[p].olds \in {{}, my[p].olds} /\ my'[p].sec \in {None, my[p].sec}
  /\ \/ /\ UNCHANGED <<db, disk, dirty>> /\ amiss \subseteq amiss'
        /\ s \notin FlushedStep /\ (at[p] \in FlushedStep \cup {"failed"} => s = "failed")
        /\ at[p] = "failed" \/ s # "failed" \/ at[p] \notin FlushedStep \/ "unsaved" \in amiss'
     \/ /\ \E cred : Writes(p, [db EXCEPT !.cred = cred], s)
        /\ s \in FlushedStep /\ at[p] \notin FlushedStep \cup {"failed"}
     \/ Commits(p, s) /\ at[p] \in FlushedStep /\ s \notin FlushedStep
     \/ Reads(p, s) /\ at[p] \notin FlushedStep /\ s \notin FlushedStep

LEMMA KeyIsElsewhere ==
  ASSUME TInv, NEW p \in Session, GetsFernet(p), UNCHANGED adminVars
  PROVE  \E s : Elsewhere(p, s)
<1>0. at[p] \in KeyStep /\ Proper(p, at[p], my[p]) /\ my \in [Session -> Memory]
  BY TypesAreParts
  DEF TInv, Control, GetsFernet, KeyFinds, KeyChecks, KeyWrites, KeySets, KeyStep, FindStep
<1>1. \A q \in Session \ {p} : my'[q] = my[q]
  BY <1>0 DEF GetsFernet, KeyFinds, KeyChecks, KeyWrites, KeySets
<1>2. my'[p].olds = my[p].olds /\ my'[p].sec = my[p].sec
  BY <1>0 DEF GetsFernet, KeyFinds, KeyChecks, KeyWrites, KeySets, Memory
<1>3. CASE KeySets(p)
  BY <1>0, <1>1, <1>2, <1>3 DEF KeySets, Runs, Elsewhere, connVars, Proper, OtherStep, KeyStep, FindStep, SaveStep,
     MainStep, FlushedStep
<1>4. CASE KeyFinds(p)
  <2>1. \E s \in FindStep \cup {"failed"} : Goto(p, s)
    BY <1>4 DEF KeyFinds, FindStep
  <2>2. UNCHANGED connVars /\ amiss \subseteq amiss' /\ at[p] = "key.find"
    BY <1>4 DEF KeyFinds
  <2> QED BY <1>1, <1>2, <2>1, <2>2 DEF Elsewhere, connVars, OtherStep, KeyStep, FindStep, FlushedStep
<1>5. CASE KeyChecks(p)
  <2>1. CASE \E s \in {"key.open", "failed"} : Reads(p, s)
    BY <1>1, <1>2, <1>5, <2>1 DEF KeyChecks, Reads, Elsewhere, OtherStep, KeyStep, FindStep, FlushedStep
  <2>2. CASE Goto(p, "key.open") /\ UNCHANGED connVars /\ amiss \subseteq amiss'
    BY <1>1, <1>2, <1>5, <2>2 DEF KeyChecks, Elsewhere, connVars, OtherStep, KeyStep, FindStep, FlushedStep
  <2> QED BY <1>5, <2>1, <2>2 DEF KeyChecks
<1>6. CASE KeyWrites(p)
  BY <1>1, <1>2, <1>6 DEF KeyWrites, Runs, Elsewhere, connVars, OtherStep, KeyStep, FindStep, FlushedStep
<1> QED BY <1>3, <1>4, <1>5, <1>6 DEF GetsFernet

LEMMA NodeIsElsewhere ==
  ASSUME TInv, NEW t \in Thread, UNCHANGED adminVars,
         BeginRequest(t) \/ SaveEncrypts(t) \/ SaveCommits(t) \/ Uses(t) \/ Close(t)
  PROVE  \E s : Elsewhere(t, s)
<1>0. t \in Session /\ my \in [Session -> Memory]
  BY TypesAreParts DEF TInv, Session
<1>1. \A q \in Session \ {t} : my'[q] = my[q]
  BY <1>0 DEF BeginRequest, Begins, SaveEncrypts, SaveCommits, Uses, NeedsFernet, Close, Ends, CommitFails, Forgets
<1>2. my'[t].olds \in {{}, my[t].olds} /\ my'[t].sec \in {None, my[t].sec}
  <2>1. CASE BeginRequest(t)
    BY <1>0, <2>1 DEF BeginRequest, Begins, Blank
  <2>2. CASE SaveEncrypts(t) \/ SaveCommits(t) \/ Uses(t) \/ Close(t)
    BY <1>0, <2>2 DEF SaveEncrypts, SaveCommits, Uses, NeedsFernet, Close, Ends, CommitFails, Forgets,
       Memory, Blank
  <2> QED BY <2>1, <2>2
<1>3. CASE BeginRequest(t) \/ SaveEncrypts(t) \/ Uses(t)
  <2>1. PICK s \in {"auth", "key.find", "save.flush", "close"} : Runs(t, s)
    BY <1>3 DEF BeginRequest, Begins, SaveEncrypts, Uses, NeedsFernet
  <2>2. at[t] \in {"idle", "save.encrypt", "use"}
    BY <1>3 DEF BeginRequest, Begins, SaveEncrypts, Uses
  <2> QED BY <1>1, <1>2, <2>1, <2>2
          DEF Runs, Elsewhere, connVars, OtherStep, KeyStep, SaveStep, FlushedStep
<1>4. CASE SaveCommits(t) /\ at[t] = "save.flush"
  BY <1>1, <1>2, <1>4 DEF SaveCommits, Writes, Elsewhere, OtherStep, SaveStep, FlushedStep
<1>5. CASE SaveCommits(t) /\ at[t] = "save.commit"
  BY <1>1, <1>2, <1>5
  DEF SaveCommits, Commits, CommitFails, Elsewhere, connVars, OtherStep, SaveStep, FlushedStep
<1>6. CASE Close(t)
  BY <1>1, <1>2, <1>6 DEF Close, Ends, Reads, Elsewhere, OtherStep, FlushedStep
<1> QED BY <1>3, <1>4, <1>5, <1>6 DEF SaveCommits

LEMMA MainIsElsewhere ==
  ASSUME TInv, UNCHANGED adminVars, Start \/ Migrates(Main) \/ MigrateLoads(Main)
  PROVE  \E s : Elsewhere(Main, s)
<1>0. Main \in Session /\ my \in [Session -> Memory] /\ db \in Tables
  BY TypesAreParts DEF TInv, Session, TablesTypeOK
<1>1. \A q \in Session \ {Main} : my'[q] = my[q]
  BY <1>0 DEF Start, Migrates, MigrateLoads, NeedsFernet, CommitFails, Forgets
<1>2. my'[Main].olds \in {{}, my[Main].olds} /\ my'[Main].sec \in {None, my[Main].sec}
  BY <1>0 DEF Start, Migrates, MigrateLoads, NeedsFernet, CommitFails, Forgets, Memory, Blank
<1>3. CASE Start \/ MigrateLoads(Main) \/ (Migrates(Main) /\ Plain = {} /\ at[Main] = "migrate")
  BY <1>1, <1>2, <1>3
  DEF Start, Migrates, MigrateLoads, NeedsFernet, Runs, Elsewhere, connVars, OtherStep, KeyStep, MainStep,
      FlushedStep
<1>4. CASE Migrates(Main) /\ at[Main] = "migrate" /\ Plain # {}
  BY <1>0, <1>1, <1>2, <1>4 DEF Migrates, Writes, Elsewhere, OtherStep, MainStep, FlushedStep
<1>5. CASE Migrates(Main) /\ at[Main] = "migrate.commit"
  BY <1>1, <1>2, <1>5
  DEF Migrates, Commits, CommitFails, Elsewhere, connVars, OtherStep, MainStep, FlushedStep
<1> QED BY <1>3, <1>4, <1>5 DEF Migrates

LEMMA ElsewhereKeepsFlushed ==
  ASSUME TInv, Flushed, NEW p \in Session, NEW s, Elsewhere(p, s)
  PROVE  Flushed'
BY StillKeepsFlushed, WritesKeepsFlushed, EndsKeepsFlushed DEF Elsewhere, Commits, Reads

LEMMA RestKeepsFlushed ==
  ASSUME TInv, Flushed, FirstAdmin(Main) \/ TellsPassword(Main) \/ KeyIsLost \/ OtherSessionEnds \/ Stops \/ Crashes
  PROVE  Flushed'
<1>0. Main \in Session /\ dirty \subseteq Session /\ at \in [Session -> AnyStep]
  BY TypesAreParts DEF TInv, Session, TablesTypeOK
<1>1. CASE FirstAdmin(Main)
  BY <1>0, <1>1 DEF FirstAdmin, Runs, Goto, connVars, Flushed, FlushedStep, Without
<1>2. CASE TellsPassword(Main) \/ KeyIsLost
  BY <1>0, <1>2 DEF TellsPassword, KeyIsLost, Runs, Goto, connVars, Flushed, FlushedStep, Without
<1>3. CASE OtherSessionEnds
  BY <1>0, <1>3, ThreadAssumption
  DEF OtherSessionEnds, RollbackAll, CommitAll, Besides, Flushed, Without, Session
<1>4. CASE Stops \/ Crashes
  BY <1>4 DEF Stops, Crashes, Exits, Reopen, Flushed, FlushedStep
<1> QED BY <1>1, <1>2, <1>3, <1>4

-----------------------------------------------------------------------------
(* The account.                                                            *)

\* What every step of p does to what the others remember.
Alone(p, s) == Goto(p, s) /\ \A q \in Session \ {p} : my'[q] = my[q]

LEMMA StillKeepsAccount ==
  ASSUME TInv, Flushed, AccountInv, NEW p \in Session, NEW s, Alone(p, s),
         UNCHANGED <<db, disk, dirty>>, amiss \subseteq amiss', told => told',
         at[p] = "tell" => told',
         s \in HoldsPassword => my'[p].pwd \in Password,
         s \in SetupStep /\ Without({"shared"}) => disk.pwd # First,
         s \in FlushedStep => at[p] = "change.rotate" /\ s = "change.secret"
  PROVE  AccountInv'
<1>1. at'[p] = s /\ \A q \in Session \ {p} : at'[q] = at[q] /\ my'[q] = my[q]
  BY TypesAreParts DEF TInv, Alone, Goto
<1>2. Main \in Session
  BY DEF Session
<1>3. \A q \in Session : at'[q] \in HoldsPassword => my'[q].pwd \in Password
  BY <1>1 DEF AccountInv
<1>4. disk'.pwd = First => told' \/ "untold" \in amiss' \/ at'[Main] = "tell"
  BY <1>1, <1>2 DEF AccountInv
<1>5. ASSUME Without({"shared"})'
      PROVE  /\ Whole'
             /\ \A q \in Session : dirty' = {q} => Draft(q)'
             /\ \A q \in Session : at'[q] \in SetupStep => disk'.pwd # First
  <2>1. Without({"shared"})
    BY <1>5 DEF Without
  <2>2. ASSUME NEW q \in Session, dirty' = {q} PROVE Draft(q)'
    <3>1. Draft(q)
      BY <2>1, <2>2 DEF AccountInv
    <3>2. CASE q = p
      BY <1>1, <3>1, <3>2 DEF Draft, FlushedStep
    <3>3. CASE q # p
      BY <1>1, <3>1, <3>3 DEF Draft, Same
    <3> QED BY <3>2, <3>3
  <2>3. \A q \in Session : at'[q] \in SetupStep => disk'.pwd # First
    BY <1>1, <2>1 DEF AccountInv
  <2> QED BY <2>1, <2>2, <2>3 DEF AccountInv, Whole
<1> QED BY <1>3, <1>4, <1>5 DEF AccountInv

LEMMA CommitKeepsAccount ==
  ASSUME TInv, Flushed, AccountInv, NEW p \in Session, NEW s, Alone(p, s), Commits(p, s), told' = told,
         s \notin SetupStep \cup HoldsPassword,
         at[p] \in {"jwt.commit", "setup.commit", "change.commit", "save.commit", "migrate.commit"}
  PROVE  AccountInv'
<1>1. at'[p] = s /\ \A q \in Session \ {p} : at'[q] = at[q] /\ my'[q] = my[q]
  BY TypesAreParts DEF TInv, Alone, Goto
<1>2. Main \in Session
  BY DEF Session
<1>3. disk' = db /\ db' = db /\ dirty' = {} /\ amiss \subseteq amiss'
  BY DEF Commits, CommitAll, Besides
<1>4. disk'.pwd = First => told' \/ "untold" \in amiss' \/ at'[Main] = "tell"
  BY <1>1, <1>2, <1>3 DEF AccountInv
<1>5. ASSUME Without({"shared"})'
      PROVE  Whole' /\ \A q \in Session : at'[q] \in SetupStep => disk'.pwd # First
  <2>1. Without({"shared"}) /\ dirty = {p}
    BY <1>5, AloneAtTheEnd DEF Commits, Flushed, FlushedStep
  <2>2. Draft(p) /\ Whole
    BY <2>1 DEF AccountInv
  <2>3. at[p] = "setup.commit" => disk.pwd # First
    BY <2>1 DEF AccountInv, SetupStep
  <2>4. Whole'
    <3>1. CASE at[p] \in {"jwt.commit", "save.commit", "migrate.commit"}
      BY <3>1, <1>3, <2>2 DEF Draft, Same, Whole
    <3>2. CASE at[p] = "setup.commit"
      BY <3>2, <1>3, <2>2, <2>3, ThreadAssumption DEF Draft, Whole
    <3>3. CASE at[p] = "change.commit"
      BY <3>3, <1>3, <2>2, ThreadAssumption DEF Draft, Whole
    <3> QED BY <3>1, <3>2, <3>3
  <2>5. \A q \in Session : at'[q] \in SetupStep => disk'.pwd # First
    BY <1>1, <1>3, <2>1 DEF AccountInv
  <2> QED BY <2>4, <2>5
<1> QED BY <1>1, <1>3, <1>4, <1>5 DEF AccountInv

LEMMA ReadsKeepsAccount ==
  ASSUME TInv, Flushed, AccountInv, NEW p \in Session, NEW s, Alone(p, s), Reads(p, s), told' = told,
         at[p] # "tell", s \notin SetupStep \cup HoldsPassword
  PROVE  AccountInv'
<1>1. at'[p] = s /\ \A q \in Session \ {p} : at'[q] = at[q] /\ my'[q] = my[q]
  BY TypesAreParts DEF TInv, Alone, Goto
<1>2. Main \in Session
  BY DEF Session
<1>3. db' = disk /\ disk' = disk /\ dirty' = {} /\ amiss \subseteq amiss'
  BY DEF Reads, RollbackAll, Besides
<1>4. disk'.pwd = First => told' \/ "untold" \in amiss' \/ at'[Main] = "tell"
  BY <1>1, <1>2, <1>3 DEF AccountInv
<1>5. Without({"shared"})' =>
        Whole' /\ \A q \in Session : at'[q] \in SetupStep => disk'.pwd # First
  BY <1>1, <1>3 DEF AccountInv, Whole, Without
<1> QED BY <1>1, <1>3, <1>4, <1>5 DEF AccountInv

\* Statements about other tables, and the secret.
LEMMA OtherWritesKeepAccount ==
  ASSUME TInv, Flushed, AccountInv, NEW p \in Session, NEW s, NEW tables, Alone(p, s), Writes(p, tables, s),
         Same(tables, db), told' = told, at[p] # "tell",
         \/ at[p] \notin FlushedStep \cup {"failed"} /\ s \in {"jwt.commit", "save.commit", "migrate.commit"}
         \/ at[p] = "change.secret" /\ s = "change.commit"
  PROVE  AccountInv'
<1>1. at'[p] = s /\ \A q \in Session \ {p} : at'[q] = at[q] /\ my'[q] = my[q]
  BY TypesAreParts DEF TInv, Alone, Goto
<1>2. Main \in Session
  BY DEF Session
<1>3. db' = tables /\ disk' = disk /\ dirty' = dirty \cup {p} /\ amiss' = amiss
  BY DEF Writes, Flush
<1>4. disk'.pwd = First => told' \/ "untold" \in amiss' \/ at'[Main] = "tell"
  BY <1>1, <1>2, <1>3 DEF AccountInv
<1>5. ASSUME Without({"shared"})'
      PROVE  /\ Whole'
             /\ \A q \in Session : dirty' = {q} => Draft(q)'
             /\ \A q \in Session : at'[q] \in SetupStep => disk'.pwd # First
  <2>1. Without({"shared"})
    BY <1>3, <1>5 DEF Without
  <2>2. ASSUME NEW q \in Session, dirty' = {q} PROVE Draft(q)'
    <3>1. q = p /\ dirty \in {{}, {p}}
      BY <1>3, <2>2
    <3>2. CASE at[p] \notin FlushedStep \cup {"failed"}
      BY <1>1, <1>3, <3>1, <3>2 DEF Flushed, Draft, Same, FlushedStep
    <3>3. CASE at[p] = "change.secret" /\ s = "change.commit"
      <4>1. Draft(p)
        BY <2>1, <3>1, <3>3 DEF AccountInv, Flushed, FlushedStep
      <4> QED BY <1>1, <1>3, <3>1, <3>3, <4>1 DEF Draft, Same
    <3> QED BY <3>2, <3>3 DEF FlushedStep
  <2>3. \A q \in Session : at'[q] \in SetupStep => disk'.pwd # First
    BY <1>1, <1>3, <2>1 DEF AccountInv, SetupStep
  <2> QED BY <1>3, <2>1, <2>2, <2>3 DEF AccountInv, Whole
<1>6. (disk'.admin => db'.admin) /\ (db'.pwd = First => disk'.pwd = First)
  BY <1>3 DEF AccountInv, Same
<1>7. s \notin HoldsPassword
  BY DEF HoldsPassword
<1> QED BY <1>1, <1>4, <1>5, <1>6, <1>7 DEF AccountInv

LEMMA ElsewhereKeepsAccount ==
  ASSUME TInv, Flushed, AccountInv, NEW p \in Session, NEW s, Elsewhere(p, s)
  PROVE  AccountInv'
<1>0. /\ Alone(p, s) /\ told' = told /\ at[p] # "tell" /\ s \notin SetupStep \cup HoldsPassword
      /\ at[p] \in FlushedStep => at[p] \in {"save.commit", "migrate.commit"}
      /\ s \in FlushedStep => s \in {"save.commit", "migrate.commit"}
  BY DEF Elsewhere, Alone, adminVars, OtherStep, KeyStep, FindStep, SaveStep, MainStep, SetupStep, HoldsPassword,
     FlushedStep
<1>1. CASE UNCHANGED <<db, disk, dirty>> /\ amiss \subseteq amiss' /\ s \notin FlushedStep
  BY <1>0, <1>1, StillKeepsAccount
<1>2. ASSUME NEW cred, Writes(p, [db EXCEPT !.cred = cred], s), s \in FlushedStep,
             at[p] \notin FlushedStep \cup {"failed"}
      PROVE  AccountInv'
  <2>1. Same([db EXCEPT !.cred = cred], db)
    BY TypesAreParts DEF TInv, TablesTypeOK, Tables, Same
  <2> QED BY <1>0, <1>2, <2>1, OtherWritesKeepAccount
<1>3. CASE Commits(p, s) /\ at[p] \in FlushedStep
  BY <1>0, <1>3, CommitKeepsAccount
<1>4. CASE Reads(p, s)
  BY <1>0, <1>4, ReadsKeepsAccount
<1> QED BY <1>1, <1>2, <1>3, <1>4 DEF Elsewhere

LEMMA JwtKeepsAccount ==
  ASSUME TInv, Flushed, AccountInv, NEW t \in Thread, Signs(t) \/ Authenticates(t) \/ GetsSecret(t)
  PROVE  AccountInv'
<1>0. /\ t \in Session /\ Proper(t, at[t], my[t]) /\ my \in [Session -> Memory] /\ db \in Tables
      /\ at[t] \notin MainStep
  BY TypesAreParts DEF Session, TInv, Control, TablesTypeOK
<1>1. \A q \in Session \ {t} : my'[q] = my[q]
  BY <1>0 DEF Signs, Authenticates, NeedsSecret, GetsSecret, JwtReads, JwtStores, JwtFills, Fails, CommitFails
<1>2. told' = told /\ at[t] # "tell"
  BY <1>0 DEF Signs, Authenticates, NeedsSecret, GetsSecret, JwtReads, JwtStores, JwtFills, adminVars, MainStep
<1>3. CASE Signs(t) \/ Authenticates(t) \/ JwtReads(t) \/ JwtFills(t)
  <2>1. PICK s \in {"jwt.read", "jwt.fill", "jwt.again", "close", "change.verify", "save.encrypt", "use", "auth", "token"} :
          Goto(t, s)
    BY <1>0, <1>3
    DEF Signs, Authenticates, NeedsSecret, JwtReads, JwtFills, Runs, Proper, JwtStep
  <2>2. UNCHANGED <<db, disk, dirty>> /\ amiss \subseteq amiss'
    BY <1>3 DEF Signs, Authenticates, NeedsSecret, JwtReads, JwtFills, Runs, connVars
  <2> QED BY <1>0, <1>1, <1>2, <2>1, <2>2, StillKeepsAccount
          DEF Alone, HoldsPassword, SetupStep, FlushedStep
<1>4. CASE at[t] = "jwt.again" /\ Runs(t, "jwt.flush")
  BY <1>0, <1>1, <1>2, <1>4, StillKeepsAccount DEF Runs, connVars, Alone, HoldsPassword, SetupStep, FlushedStep
<1>5. CASE Fails(t) \/ CommitFails(t)
  <2>1. Alone(t, "failed") /\ UNCHANGED <<db, disk, dirty>> /\ amiss \subseteq amiss'
    BY <1>1, <1>5 DEF Fails, CommitFails, connVars, Alone
  <2> QED BY <1>0, <1>2, <2>1, StillKeepsAccount DEF HoldsPassword, SetupStep, FlushedStep
<1>6. CASE at[t] = "jwt.flush" /\ Writes(t, [db EXCEPT !.secret = my[t].sec], "jwt.commit")
  <2>1. Same([db EXCEPT !.secret = my[t].sec], db)
    BY <1>0 DEF Tables, Same
  <2>2. Alone(t, "jwt.commit")
    BY <1>1, <1>6 DEF Writes, Alone
  <2> QED BY <1>0, <1>2, <1>6, <2>1, <2>2, OtherWritesKeepAccount DEF FlushedStep
<1>7. CASE at[t] = "jwt.commit" /\ Commits(t, "jwt.fill")
  BY <1>0, <1>1, <1>2, <1>7, CommitKeepsAccount DEF Commits, Alone, SetupStep, HoldsPassword
<1> QED BY <1>3, <1>4, <1>5, <1>6, <1>7 DEF GetsSecret, JwtStores

LEMMA BeginsKeepAccount ==
  ASSUME TInv, Flushed, AccountInv, NEW t \in Thread,
         BeginLogin(t) \/ BeginSetup(t) \/ ChangeVerifies(t) \/ ChangeRotates(t)
  PROVE  AccountInv'
<1>0. t \in Session /\ my \in [Session -> Memory]
  BY TypesAreParts DEF Session, TInv
<1>1. \A q \in Session \ {t} : my'[q] = my[q]
  BY <1>0 DEF BeginLogin, BeginSetup, Begins, ChangeVerifies, ChangeRotates
<1>2. told' = told /\ at[t] # "tell" /\ UNCHANGED <<db, disk, dirty>> /\ amiss \subseteq amiss'
  BY DEF BeginLogin, BeginSetup, Begins, ChangeVerifies, ChangeRotates, Runs, connVars, adminVars
<1>3. CASE BeginLogin(t)
  BY <1>0, <1>1, <1>2, <1>3, StillKeepsAccount
  DEF BeginLogin, Begins, Runs, Alone, HoldsPassword, SetupStep, FlushedStep
<1>4. CASE BeginSetup(t)
  <2>1. Alone(t, "setup.user") /\ my'[t].pwd \in Password
    BY <1>0, <1>1, <1>4 DEF BeginSetup, Begins, Runs, Alone, Blank
  <2>2. Without({"shared"}) => disk.pwd # First
    BY <1>4, ThreadAssumption DEF BeginSetup, AccountInv, Whole
  <2> QED BY <1>0, <1>2, <2>1, <2>2, StillKeepsAccount DEF FlushedStep
<1>5. CASE ChangeVerifies(t)
  <2>1. \E s \in {"close", "change.pwd"} : Alone(t, s) /\ (s = "change.pwd" => my'[t].pwd \in Password)
    BY <1>0, <1>1, <1>5 DEF ChangeVerifies, Runs, Alone, Memory
  <2> QED BY <1>0, <1>2, <2>1, StillKeepsAccount DEF HoldsPassword, SetupStep, FlushedStep
<1>6. CASE ChangeRotates(t)
  <2>1. Alone(t, "change.secret") /\ at[t] = "change.rotate"
    BY <1>1, <1>6 DEF ChangeRotates, Runs, Alone
  <2> QED BY <1>0, <1>2, <2>1, StillKeepsAccount DEF HoldsPassword, SetupStep
<1> QED BY <1>3, <1>4, <1>5, <1>6

\* A session's first statement on the account, and the ones that follow it.
LEMMA SetupKeepsAccount ==
  ASSUME TInv, Flushed, AccountInv, NEW t \in Thread, SetupRuns(t)
  PROVE  AccountInv'
<1>0. t \in Session /\ my \in [Session -> Memory] /\ db \in Tables /\ at[t] \notin MainStep
  BY TypesAreParts DEF Session, TInv, TablesTypeOK, Control
<1>1. \A q \in Session \ {t} : my'[q] = my[q]
  BY <1>0 DEF SetupRuns, Fails, CommitFails, Forgets
<1>2. told' = told /\ at[t] # "tell" /\ Main \in Session /\ at \in [Session -> AnyStep]
  BY <1>0, TypesAreParts DEF SetupRuns, adminVars, MainStep, Session, TInv
<1>3. CASE Fails(t) \/ CommitFails(t)
  <2>1. Alone(t, "failed") /\ UNCHANGED <<db, disk, dirty>> /\ amiss \subseteq amiss'
    BY <1>1, <1>3 DEF Fails, CommitFails, connVars, Alone
  <2> QED BY <1>0, <1>2, <2>1, StillKeepsAccount DEF HoldsPassword, SetupStep, FlushedStep
<1>4. CASE at[t] = "setup.commit" /\ Commits(t, "token")
  BY <1>0, <1>1, <1>2, <1>4, CommitKeepsAccount DEF Commits, Alone, SetupStep, HoldsPassword
<1>5. CASE at[t] = "setup.user"
  <2>1. /\ at'[t] = "setup.pwd" /\ \A q \in Session \ {t} : at'[q] = at[q]
        /\ disk' = disk /\ dirty' = dirty \cup {t} /\ amiss' = amiss
        /\ db' = [db EXCEPT !.admin = TRUE]
    BY <1>0, <1>2, <1>5 DEF SetupRuns, Writes, Flush, Goto
  <2>2. db'.admin = TRUE /\ db'.pwd = db.pwd /\ db'.must = db.must
    BY <1>0, <2>1 DEF Tables
  <2>3. my'[t].pwd = my[t].pwd
    BY <1>0, <1>5 DEF SetupRuns, Memory
  <2>4. ASSUME NEW q \in Session, dirty' = {q} PROVE Draft(q)'
    <3>1. q = t /\ db = disk
      BY <1>5, <2>1, <2>4 DEF Flushed, FlushedStep
    <3> QED BY <2>1, <2>2, <3>1 DEF Draft
  <2>5. disk'.pwd = First => told' \/ "untold" \in amiss' \/ at'[Main] = "tell"
    BY <1>2, <1>5, <2>1 DEF AccountInv
  <2> QED BY <1>1, <1>2, <1>5, <2>1, <2>2, <2>3, <2>4, <2>5
          DEF AccountInv, Whole, Without, HoldsPassword, SetupStep
<1>6. CASE at[t] = "setup.pwd" /\ Writes(t, [db EXCEPT !.pwd = my[t].pwd], "setup.commit")
  <2>1. /\ at'[t] = "setup.commit" /\ \A q \in Session \ {t} : at'[q] = at[q]
        /\ disk' = disk /\ dirty' = dirty \cup {t} /\ amiss' = amiss
        /\ db' = [db EXCEPT !.pwd = my[t].pwd]
    BY <1>0, <1>2, <1>6 DEF Writes, Flush, Goto
  <2>2. db'.admin = db.admin /\ db'.pwd = my[t].pwd /\ db'.must = db.must /\ my[t].pwd \in Password
    BY <1>0, <1>6, <2>1 DEF Tables, AccountInv, HoldsPassword
  <2>4. ASSUME NEW q \in Session, dirty' = {q}, Without({"shared"}) PROVE Draft(q)'
    <3>1. q = t /\ dirty = {t}
      BY <1>0, <1>6, <2>1, <2>4 DEF Flushed, FlushedStep
    <3>2. db.admin /\ db.must = disk.must
      BY <1>0, <1>6, <2>4, <3>1 DEF AccountInv, Draft
    <3> QED BY <2>1, <2>2, <3>1, <3>2 DEF Draft
  <2>5. disk'.pwd = First => told' \/ "untold" \in amiss' \/ at'[Main] = "tell"
    BY <1>2, <1>6, <2>1 DEF AccountInv
  <2> QED BY <1>1, <1>2, <1>6, <2>1, <2>2, <2>4, <2>5, ThreadAssumption
          DEF AccountInv, Whole, Without, HoldsPassword, SetupStep
<1> QED BY <1>3, <1>4, <1>5, <1>6 DEF SetupRuns

LEMMA ChangeKeepsAccount ==
  ASSUME TInv, Flushed, AccountInv, NEW t \in Thread,
         ChangeSetsPassword(t) \/ ChangeClearsMust(t) \/ ChangeStores(t) \/ ChangeCommits(t)
  PROVE  AccountInv'
<1>0. t \in Session /\ my \in [Session -> Memory] /\ db \in Tables /\ at[t] \notin MainStep
  BY TypesAreParts DEF Session, TInv, TablesTypeOK, Control
<1>1. \A q \in Session \ {t} : my'[q] = my[q]
  BY <1>0 DEF ChangeSetsPassword, ChangeClearsMust, ChangeStores, ChangeCommits, Fails, CommitFails, Forgets
<1>2. told' = told /\ at[t] # "tell" /\ Main \in Session /\ at \in [Session -> AnyStep]
  BY <1>0, TypesAreParts
  DEF ChangeSetsPassword, ChangeClearsMust, ChangeStores, ChangeCommits, adminVars, MainStep, Session, TInv
<1>3. CASE Fails(t) \/ CommitFails(t)
  <2>1. Alone(t, "failed") /\ UNCHANGED <<db, disk, dirty>> /\ amiss \subseteq amiss'
    BY <1>1, <1>3 DEF Fails, CommitFails, connVars, Alone
  <2> QED BY <1>0, <1>2, <2>1, StillKeepsAccount DEF HoldsPassword, SetupStep, FlushedStep
<1>4. CASE at[t] = "change.commit" /\ Commits(t, "token")
  BY <1>0, <1>1, <1>2, <1>4, CommitKeepsAccount DEF Commits, Alone, SetupStep, HoldsPassword
<1>5. CASE at[t] = "change.secret" /\ Writes(t, [db EXCEPT !.secret = my[t].sec], "change.commit")
  <2>1. Same([db EXCEPT !.secret = my[t].sec], db)
    BY <1>0 DEF Tables, Same
  <2>2. Alone(t, "change.commit")
    BY <1>1, <1>5 DEF Writes, Alone
  <2> QED BY <1>0, <1>2, <1>5, <2>1, <2>2, OtherWritesKeepAccount
<1>6. CASE at[t] = "change.pwd" /\ db.pwd # None /\ Writes(t, [db EXCEPT !.pwd = my[t].pwd], "change.must")
  <2>1. /\ at'[t] = "change.must" /\ \A q \in Session \ {t} : at'[q] = at[q]
        /\ disk' = disk /\ dirty' = dirty \cup {t} /\ amiss' = amiss
        /\ db' = [db EXCEPT !.pwd = my[t].pwd]
    BY <1>0, <1>2, <1>6 DEF Writes, Flush, Goto
  <2>2. db'.admin = db.admin /\ db'.pwd = my[t].pwd /\ db'.must = db.must /\ my[t].pwd \in Password
    BY <1>0, <1>6, <2>1 DEF Tables, AccountInv, HoldsPassword
  <2>4. ASSUME NEW q \in Session, dirty' = {q} PROVE Draft(q)'
    <3>1. q = t /\ db = disk
      BY <1>6, <2>1, <2>4 DEF Flushed, FlushedStep
    <3> QED BY <1>6, <2>1, <2>2, <3>1 DEF Draft
  <2>5. disk'.pwd = First => told' \/ "untold" \in amiss' \/ at'[Main] = "tell"
    BY <1>2, <1>6, <2>1 DEF AccountInv
  <2> QED BY <1>1, <1>2, <1>6, <2>1, <2>2, <2>4, <2>5, ThreadAssumption
          DEF AccountInv, Whole, Without, HoldsPassword, SetupStep
<1>7. CASE at[t] = "change.must" /\ Writes(t, [db EXCEPT !.must = "0"], "change.rotate")
  <2>1. /\ at'[t] = "change.rotate" /\ \A q \in Session \ {t} : at'[q] = at[q]
        /\ disk' = disk /\ dirty' = dirty \cup {t} /\ amiss' = amiss
        /\ db' = [db EXCEPT !.must = "0"]
    BY <1>0, <1>2, <1>7 DEF Writes, Flush, Goto
  <2>2. db'.admin = db.admin /\ db'.pwd = db.pwd /\ db'.must = "0"
    BY <1>0, <2>1 DEF Tables
  <2>4. ASSUME NEW q \in Session, dirty' = {q}, Without({"shared"}) PROVE Draft(q)'
    <3>1. q = t /\ dirty = {t}
      BY <1>0, <1>7, <2>1, <2>4 DEF Flushed, FlushedStep
    <3>2. Draft(t)
      BY <1>0, <2>4, <3>1 DEF AccountInv
    <3> QED BY <1>7, <2>1, <2>2, <3>1, <3>2 DEF Draft
  <2>5. disk'.pwd = First => told' \/ "untold" \in amiss' \/ at'[Main] = "tell"
    BY <1>2, <1>7, <2>1 DEF AccountInv
  <2> QED BY <1>1, <1>2, <1>7, <2>1, <2>2, <2>4, <2>5
          DEF AccountInv, Whole, Without, HoldsPassword, SetupStep
<1> QED BY <1>3, <1>4, <1>5, <1>6, <1>7
        DEF ChangeSetsPassword, ChangeClearsMust, ChangeStores, ChangeCommits

LEMMA RestKeepsAccount ==
  ASSUME TInv, Flushed, AccountInv,
         FirstAdmin(Main) \/ TellsPassword(Main) \/ (OtherSessionEnds /\ UNCHANGED adminVars)
         \/ (KeyIsLost /\ UNCHANGED adminVars) \/ Stops \/ Crashes
  PROVE  AccountInv'
<1>0. Main \in Session /\ at \in [Session -> AnyStep] /\ my \in [Session -> Memory] /\ db \in Tables
  BY TypesAreParts DEF TInv, Session, TablesTypeOK
<1>1. CASE FirstAdmin(Main)
  <2>1. CASE UNCHANGED <<db, disk, dirty>> /\ amiss' = amiss /\ Goto(Main, "migrate")
    BY <1>0, <1>1, <2>1, StillKeepsAccount
    DEF FirstAdmin, Alone, adminVars, HoldsPassword, SetupStep, FlushedStep
  <2>2. CASE /\ ~ db.admin /\ db' = [db EXCEPT !.admin = TRUE, !.pwd = First, !.must = "1"]
             /\ disk' = db' /\ Goto(Main, "tell") /\ UNCHANGED <<dirty, amiss>>
    <3>1. disk'.admin = TRUE /\ disk'.pwd = First /\ disk'.must = "1"
      BY <1>0, <2>2 DEF Tables
    <3>2. at'[Main] = "tell" /\ my' = my /\ \A t \in Thread : at'[t] = "idle"
      BY <1>0, <1>1, <2>2, ThreadAssumption DEF FirstAdmin, Goto, TInv, Control, Serving, Session
    <3>3. dirty' = {}
      BY <1>0, <1>1, <2>2, TypesAreParts
      DEF FirstAdmin, TInv, Control, Flushed, FlushedStep, Serving, Session, TablesTypeOK
    <3> QED BY <2>2, <3>1, <3>2, <3>3, ThreadAssumption DEF AccountInv, Whole, HoldsPassword, SetupStep, Session
  <2> QED BY <1>1, <2>1, <2>2 DEF FirstAdmin, Runs, connVars
<1>2. CASE TellsPassword(Main)
  BY <1>0, <1>2, StillKeepsAccount
  DEF TellsPassword, Runs, connVars, Alone, HoldsPassword, SetupStep, FlushedStep
<1>3. CASE OtherSessionEnds /\ UNCHANGED adminVars
  <2>1. "shared" \in amiss' /\ amiss \subseteq amiss' /\ UNCHANGED <<at, my, told>>
    BY <1>3, ThreadAssumption, TypesAreParts
    DEF OtherSessionEnds, Besides, adminVars, TInv, TablesTypeOK, Session
  <2>2. \/ db' = disk /\ disk' = disk
        \/ db' = db /\ disk' = db
    BY <1>3 DEF OtherSessionEnds, RollbackAll, CommitAll
  <2> QED BY <2>1, <2>2 DEF AccountInv, Without
<1>4. CASE KeyIsLost /\ UNCHANGED adminVars
  <2>1. UNCHANGED <<db, disk, dirty, at, my, told>> /\ amiss \subseteq amiss'
    BY <1>4 DEF KeyIsLost, connVars, adminVars
  <2> QED BY <2>1 DEF AccountInv, Without, Whole, Draft, Same
<1>5. CASE Stops \/ Crashes
  <2>1. /\ db' = disk /\ disk' = disk /\ dirty' = {} /\ told' = told /\ amiss \subseteq amiss'
        /\ \A p \in Session : at'[p] \in {"idle", "down"}
        /\ at[Main] = "tell" => "untold" \in amiss'
    BY <1>5 DEF Stops, Crashes, Exits, Reopen, Quiet, Serving
  <2> QED BY <2>1 DEF AccountInv, Without, Whole, HoldsPassword, SetupStep
<1> QED BY <1>1, <1>2, <1>3, <1>4, <1>5

LEMMA InitAccountInv == Init => Flushed /\ AccountInv
<1> SUFFICES ASSUME Init PROVE Flushed /\ AccountInv
  OBVIOUS
<1>1. db = disk /\ disk.admin = FALSE /\ disk.pwd = None /\ disk.must = None /\ dirty = {}
  BY DEF Init, DatabaseInit
<1>2. \A p \in Session : at[p] \in {"idle", "down"}
  BY DEF Init, ThreadInit
<1> QED BY <1>1, <1>2, ThreadAssumption
        DEF Flushed, FlushedStep, AccountInv, HoldsPassword, Whole, SetupStep

\* The ways to take a step, once more, with what has nothing to do with the account in one.
LEMMA AdminSplits ==
  ASSUME TInv, [Next]_vars
  PROVE  \/ UNCHANGED vars
         \/ \E t \in Thread : AdminStep(t)
         \/ \E p \in Session, s \in AnyStep : Elsewhere(p, s)
         \/ FirstAdmin(Main) \/ TellsPassword(Main) \/ (OtherSessionEnds /\ UNCHANGED adminVars)
         \/ (KeyIsLost /\ UNCHANGED adminVars) \/ Stops \/ Crashes
<1>0. Main \in Session /\ Thread \subseteq Session
  BY DEF Session
<1>1. ASSUME NEW p \in Session, NEW s, Elsewhere(p, s) PROVE s \in AnyStep
  BY <1>1 DEF Elsewhere, OtherStep, AnyStep
<1>2. ASSUME NEW t \in Thread, UNCHANGED adminVars,
             BeginRequest(t) \/ SaveEncrypts(t) \/ SaveCommits(t) \/ Uses(t) \/ Close(t)
      PROVE  \E p \in Session, s \in AnyStep : Elsewhere(p, s)
  BY <1>0, <1>1, <1>2, NodeIsElsewhere
<1>3. ASSUME NEW p \in Session, GetsFernet(p), UNCHANGED adminVars
      PROVE  \E q \in Session, s \in AnyStep : Elsewhere(q, s)
  BY <1>1, <1>3, KeyIsElsewhere
<1>4. ASSUME UNCHANGED adminVars, Start \/ Migrates(Main) \/ MigrateLoads(Main)
      PROVE  \E p \in Session, s \in AnyStep : Elsewhere(p, s)
  BY <1>0, <1>1, <1>4, MainIsElsewhere
<1>5. \A t \in Thread : BeginRequest(t) => UNCHANGED adminVars
  BY DEF BeginRequest, adminVars
<1>6. Start => UNCHANGED adminVars
  BY DEF Start, adminVars
<1> QED BY <1>2, <1>3, <1>4, <1>5, <1>6 DEF Next, adminVars

LEMMA StepKeepsAccountInv ==
  TInv /\ Flushed /\ AccountInv /\ [Next]_vars => Flushed' /\ AccountInv'
<1> SUFFICES ASSUME TInv, Flushed, AccountInv, [Next]_vars PROVE Flushed' /\ AccountInv'
  OBVIOUS
<1>1. CASE UNCHANGED vars
  BY <1>1 DEF vars, connVars, threadVars, adminVars, Flushed, Without, AccountInv, Whole, Draft, Same
<1>2. ASSUME NEW t \in Thread, AdminStep(t) PROVE Flushed' /\ AccountInv'
  BY <1>2, AdminKeepsFlushed, JwtKeepsAccount, BeginsKeepAccount, SetupKeepsAccount, ChangeKeepsAccount
  DEF AdminStep, Change
<1>3. ASSUME NEW p \in Session, NEW s \in AnyStep, Elsewhere(p, s) PROVE Flushed' /\ AccountInv'
  BY <1>3, ElsewhereKeepsFlushed, ElsewhereKeepsAccount
<1>4. CASE \/ FirstAdmin(Main) \/ TellsPassword(Main) \/ (OtherSessionEnds /\ UNCHANGED adminVars)
           \/ (KeyIsLost /\ UNCHANGED adminVars) \/ Stops \/ Crashes
  BY <1>4, RestKeepsFlushed, RestKeepsAccount
<1> QED BY <1>1, <1>2, <1>3, <1>4, AdminSplits

(***************************************************************************)
(* The rows of the account are stored together, for any number of requests *)
(* that set up, log in and change the password, and wherever the process   *)
(* dies: a served panel asks for an administrator or has one with a        *)
(* password, and insists on the change of the first one, which somebody    *)
(* was told.                                                               *)
(***************************************************************************)
THEOREM AccountStaysWhole == Spec => []AccountIsWhole
<1>1. AccountInv => AccountIsWhole
  BY DEF AccountInv, Whole, AccountIsWhole, Serving
<1> QED BY <1>1, InitTInv, StepKeepsTInv, InitAccountInv, StepKeepsAccountInv, PTL DEF Spec

-----------------------------------------------------------------------------
(* The secrets.                                                            *)

SecInv == SecretInv /\ DeadInv /\ KeepInv

\* p keeps, or forgets, what it knows of secrets, and nobody signs or revokes.
Remembers(p, s) ==
  /\ Alone(p, s)
  /\ UNCHANGED <<cache, signed, revoked>> /\ amiss \subseteq amiss'
  /\ my'[p].sec \in {None, my[p].sec} /\ my'[p].olds \in {{}, my[p].olds}

\* The steps of a request that has got hold of a secret, or is about to store one.
SecretStep == {"jwt.again", "jwt.flush", "jwt.commit", "jwt.fill", "change.rotate", "change.secret", "change.commit"}
Pending    == {"jwt.commit", "change.secret", "change.commit"}

LEMMA StillKeepsSecrets ==
  ASSUME TInv, Flushed, SecInv, NEW p \in Session, NEW s, Remembers(p, s),
         db'.secret = db.secret, disk'.secret = disk.secret, dirty' = dirty,
         s \in SecretStep \cup FlushedStep => at[p] = "jwt.again" /\ s = "jwt.flush" /\ my'[p].sec = my[p].sec,
         at[p] # "jwt.fill", at[p] \in Pending => "unsaved" \in amiss'
  PROVE  SecInv'
<1>1. at'[p] = s /\ \A q \in Session \ {p} : at'[q] = at[q] /\ my'[q] = my[q]
  BY TypesAreParts DEF TInv, Remembers, Alone, Goto
<1>2. /\ cache' = cache /\ signed' = signed /\ revoked' = revoked /\ dirty \subseteq Session
      /\ \A kinds : Without(kinds)' => Without(kinds)
  BY TypesAreParts DEF TInv, TablesTypeOK, Remembers, Without
<1>3. SecretInv'
  <2>1. \A q \in Session : my'[q].olds \subseteq signed
    BY <1>1 DEF SecInv, SecretInv, Remembers
  <2>2. ASSUME NEW q \in Session, at'[q] \in {"jwt.again", "jwt.flush"} PROVE Unseen(q)'
    <3>1. Unseen(q) /\ my'[q].sec = my[q].sec
      BY <1>1, <2>2 DEF SecInv, SecretInv, SecretStep
    <3> QED BY <1>1, <1>2, <3>1, ThreadAssumption DEF Unseen, Remembers
  <2>3. \A q \in Session :
          /\ at'[q] \in {"jwt.commit", "jwt.fill"} => my'[q].sec \in Secret
          /\ at'[q] \in {"change.secret", "change.commit"} =>
               my'[q].sec \in Secret /\ my'[q].sec \notin my'[q].olds /\ cache # None
    BY <1>1 DEF SecInv, SecretInv, SecretStep
  <2>4. Without({"shared"})' => \A q \in Session : dirty = {q} =>
          /\ at'[q] \in {"jwt.commit", "change.commit"} => db.secret = my'[q].sec
          /\ at'[q] \in FlushedStep \ {"jwt.commit", "change.commit"} => db.secret = disk.secret
          /\ at'[q] \in {"change.rotate", "change.secret"} => my'[q].row = (db.secret # None)
    BY <1>1, <1>2 DEF SecInv, SecretInv, SecretStep, FlushedStep
  <2> QED BY <1>2, <2>1, <2>2, <2>3, <2>4 DEF SecInv, SecretInv
<1>4. DeadInv'
  BY <1>1, <1>2 DEF SecInv, DeadInv, SecretStep
<1>5. KeepInv'
  <2> SUFFICES ASSUME Without({"shared", "overtaken", "unsaved"})'
               PROVE  /\ \A q \in Session : dirty = {q} =>
                           /\ at'[q] \in {"change.secret", "change.commit"} => cache = my'[q].sec
                           /\ at'[q] = "failed" => db.secret = disk.secret
                      /\ \A c \in Secret : InUse(c)' => Backed(c)'
    BY <1>2 DEF KeepInv
  <2>1. Without({"shared", "overtaken", "unsaved"}) /\ Without({"shared"}) /\ at[p] \notin Pending
    BY <1>2 DEF Without
  <2>2. ASSUME NEW c, Backed(c) PROVE Backed(c)'
    BY <1>1, <1>2, <2>1, <2>2 DEF Backed, Pending
  <2>3. ASSUME NEW q \in Session, dirty = {q}
        PROVE  /\ at'[q] \in {"change.secret", "change.commit"} => cache = my'[q].sec
               /\ at'[q] = "failed" => db.secret = disk.secret
    <3>1. CASE q # p
      BY <1>1, <2>1, <2>3, <3>1 DEF SecInv, KeepInv
    <3>2. CASE q = p
      <4>1. at[p] \in FlushedStep \cup {"failed"}
        BY <2>3, <3>2 DEF Flushed
      <4>2. s = "failed" => db.secret = disk.secret
        BY <2>1, <2>3, <3>2, <4>1 DEF SecInv, SecretInv, KeepInv, Pending
      <4> QED BY <1>1, <3>2, <4>2 DEF SecretStep
    <3> QED BY <3>1, <3>2
  <2>4. \A c : InUse(c)' => InUse(c)
    BY <1>1, <1>2 DEF InUse, SecretStep
  <2> QED BY <2>1, <2>2, <2>3, <2>4 DEF SecInv, KeepInv
<1> QED BY <1>3, <1>4, <1>5 DEF SecInv

\* Statements that leave the secret alone.
LEMMA OtherWritesKeepSecrets ==
  ASSUME TInv, Flushed, SecInv, NEW p \in Session, NEW s, NEW tables, Remembers(p, s), Writes(p, tables, s),
         tables.secret = db.secret,
         s \in FlushedStep \ {"jwt.commit", "change.commit", "change.secret"},
         at[p] \notin SecretStep \cup {"failed"},
         s = "change.rotate" => my'[p].row = (db.secret # None)
  PROVE  SecInv'
<1>1. at'[p] = s /\ \A q \in Session \ {p} : at'[q] = at[q] /\ my'[q] = my[q]
  BY TypesAreParts DEF TInv, Remembers, Alone, Goto
<1>2. /\ cache' = cache /\ signed' = signed /\ revoked' = revoked /\ amiss' = amiss
      /\ db'.secret = db.secret /\ disk' = disk /\ dirty' = dirty \cup {p} /\ dirty \subseteq Session
  BY TypesAreParts DEF TInv, TablesTypeOK, Remembers, Writes, Flush
<1>3. SecretInv'
  <2>1. \A q \in Session : my'[q].olds \subseteq signed
    BY <1>1 DEF SecInv, SecretInv, Remembers
  <2>2. ASSUME NEW q \in Session, at'[q] \in {"jwt.again", "jwt.flush"} PROVE Unseen(q)'
    <3>1. Unseen(q) /\ q # p
      BY <1>1, <2>2 DEF SecInv, SecretInv, FlushedStep
    <3> QED BY <1>1, <1>2, <3>1, ThreadAssumption DEF Unseen, Remembers
  <2>3. \A q \in Session :
          /\ at'[q] \in {"jwt.commit", "jwt.fill"} => my'[q].sec \in Secret
          /\ at'[q] \in {"change.secret", "change.commit"} =>
               my'[q].sec \in Secret /\ my'[q].sec \notin my'[q].olds /\ cache # None
    BY <1>1 DEF SecInv, SecretInv, FlushedStep
  <2>4. ASSUME Without({"shared"}), NEW q \in Session, dirty' = {q}
        PROVE  /\ at'[q] \in {"jwt.commit", "change.commit"} => db'.secret = my'[q].sec
               /\ at'[q] \in FlushedStep \ {"jwt.commit", "change.commit"} => db'.secret = disk'.secret
               /\ at'[q] \in {"change.rotate", "change.secret"} => my'[q].row = (db'.secret # None)
    <3>1. q = p /\ dirty \in {{}, {p}}
      BY <1>2, <2>4
    <3>2. db.secret = disk.secret
      <4>1. CASE dirty = {}
        BY <4>1 DEF Flushed
      <4>2. CASE dirty = {p}
        BY <2>4, <4>2 DEF Flushed, SecInv, SecretInv, SecretStep
      <4> QED BY <3>1, <4>1, <4>2
    <3> QED BY <1>1, <1>2, <3>1, <3>2
  <2> QED BY <1>2, <2>1, <2>2, <2>3, <2>4 DEF SecInv, SecretInv, Without
<1>4. DeadInv'
  BY <1>1, <1>2 DEF SecInv, DeadInv, Without, FlushedStep
<1>5. KeepInv'
  <2> SUFFICES ASSUME Without({"shared", "overtaken", "unsaved"})
               PROVE  /\ \A q \in Session : dirty' = {q} =>
                           /\ at'[q] \in {"change.secret", "change.commit"} => cache = my'[q].sec
                           /\ at'[q] = "failed" => db'.secret = disk'.secret
                      /\ \A c \in Secret : InUse(c)' => Backed(c)'
    BY <1>2 DEF KeepInv, Without
  <2>1. ASSUME NEW c, Backed(c) PROVE Backed(c)'
    BY <1>1, <1>2, <2>1 DEF Backed, SecretStep
  <2>2. \A q \in Session : dirty' = {q} => q = p /\ at'[q] \notin {"change.secret", "change.commit", "failed"}
    BY <1>1, <1>2 DEF FlushedStep
  <2>3. \A c : InUse(c)' => InUse(c)
    BY <1>1, <1>2 DEF InUse, FlushedStep
  <2> QED BY <2>1, <2>2, <2>3 DEF SecInv, KeepInv
<1> QED BY <1>3, <1>4, <1>5 DEF SecInv

\* The end of a session whose statements leave the secret alone.
LEMMA OtherEndsKeepSecrets ==
  ASSUME TInv, Flushed, SecInv, NEW p \in Session, NEW s, Remembers(p, s),
         \/ Commits(p, s) /\ at[p] \in {"setup.commit", "save.commit", "migrate.commit"}
         \/ Reads(p, s) /\ at[p] \notin FlushedStep \cup SecretStep,
         s \notin SecretStep
  PROVE  SecInv'
<1>1. at'[p] = s /\ \A q \in Session \ {p} : at'[q] = at[q] /\ my'[q] = my[q]
  BY TypesAreParts DEF TInv, Remembers, Alone, Goto
<1>2. /\ cache' = cache /\ signed' = signed /\ revoked' = revoked /\ dirty' = {} /\ dirty \subseteq Session
      /\ db' = disk' /\ disk' \in {db, disk}
      /\ \A kinds : Without(kinds)' => Without(kinds)
  BY TypesAreParts DEF TInv, TablesTypeOK, Remembers, Without, Commits, Reads, CommitAll, RollbackAll
<1>3. Without({"shared"})' => dirty \subseteq {p} /\ disk'.secret = disk.secret
  <2> SUFFICES ASSUME Without({"shared"})' PROVE dirty \subseteq {p} /\ disk'.secret = disk.secret
    OBVIOUS
  <2>1. dirty \subseteq {p} /\ Without({"shared"})
    BY AloneAtTheEnd DEF Commits, Reads
  <2>2. CASE Reads(p, s)
    BY <2>1, <2>2 DEF Reads, RollbackAll
  <2>3. CASE at[p] \in {"setup.commit", "save.commit", "migrate.commit"} /\ disk' = db
    BY <2>1, <2>3 DEF Flushed, FlushedStep, SecInv, SecretInv
  <2> QED BY <2>1, <2>2, <2>3 DEF Commits, CommitAll
<1>4. SecretInv'
  <2>1. \A q \in Session : my'[q].olds \subseteq signed
    BY <1>1 DEF SecInv, SecretInv, Remembers
  <2>2. ASSUME NEW q \in Session, at'[q] \in {"jwt.again", "jwt.flush"} PROVE Unseen(q)'
    <3>1. Unseen(q) /\ q # p
      BY <1>1, <2>2 DEF SecInv, SecretInv, SecretStep
    <3> QED BY <1>1, <1>2, <3>1, ThreadAssumption DEF Unseen, Remembers
  <2>3. \A q \in Session :
          /\ at'[q] \in {"jwt.commit", "jwt.fill"} => my'[q].sec \in Secret
          /\ at'[q] \in {"change.secret", "change.commit"} =>
               my'[q].sec \in Secret /\ my'[q].sec \notin my'[q].olds /\ cache # None
    BY <1>1 DEF SecInv, SecretInv, SecretStep
  <2> QED BY <1>2, <2>1, <2>2, <2>3 DEF SecInv, SecretInv
<1>5. DeadInv'
  <2>1. Without({"shared", "overtaken"})' => Without({"shared"})' /\ Without({"shared", "overtaken"})
    BY <1>2 DEF Without
  <2> QED BY <1>1, <1>2, <1>3, <2>1 DEF SecInv, DeadInv, SecretStep
<1>6. KeepInv'
  <2> SUFFICES ASSUME Without({"shared", "overtaken", "unsaved"})'
               PROVE  \A c \in Secret : InUse(c)' => Backed(c)'
    BY <1>2 DEF KeepInv
  <2>1. Without({"shared", "overtaken", "unsaved"}) /\ Without({"shared"})'
    BY <1>2 DEF Without
  <2>2. ASSUME NEW c, Backed(c) PROVE Backed(c)'
    <3>1. \/ c = disk.secret
          \/ \E q \in Session : at[q] = "jwt.fill" /\ my[q].sec = disk.secret
      BY <1>3, <2>1, <2>2 DEF Backed, SecretStep
    <3> QED BY <1>1, <1>3, <2>1, <3>1 DEF Backed, SecretStep
  <2>3. \A c : InUse(c)' => InUse(c)
    BY <1>1, <1>2 DEF InUse, SecretStep
  <2> QED BY <2>1, <2>2, <2>3 DEF SecInv, KeepInv
<1> QED BY <1>4, <1>5, <1>6 DEF SecInv

\* get_jwt_secret reads the stored secret, or makes one.
LEMMA JwtReadsKeepsSecrets ==
  ASSUME TInv, Flushed, SecInv, NEW t \in Thread, JwtReads(t)
  PROVE  SecInv'
<1>0. t \in Session /\ my \in [Session -> Memory] /\ at \in [Session -> AnyStep] /\ db \in Tables
  BY TypesAreParts DEF Session, TInv, TablesTypeOK
<1>1. /\ \A q \in Session \ {t} : at'[q] = at[q] /\ my'[q] = my[q]
      /\ my'[t].olds = my[t].olds
      /\ UNCHANGED <<cache, signed, revoked, db, disk, dirty, amiss>>
  BY <1>0 DEF JwtReads, Runs, Goto, connVars, adminVars, Memory
<1>2. \/ at'[t] = "jwt.fill" /\ my'[t].sec = db.secret /\ db.secret \in Secret
      \/ at'[t] = "jwt.again" /\ Fresh(my'[t].sec) /\ my'[t].sec \in Secret
  <2>1. CASE db.secret # None
    BY <1>0, <2>1 DEF JwtReads, Runs, Goto, Memory, Tables
  <2>2. CASE db.secret = None
    <3>1. PICK s \in Secret : Fresh(s) /\ my' = [my EXCEPT ![t].sec = s]
      BY <2>2 DEF JwtReads
    <3>2. my'[t].sec = s /\ at'[t] = "jwt.again"
      BY <1>0, <2>2, <3>1 DEF JwtReads, Runs, Goto, Memory
    <3> QED BY <3>1, <3>2
  <2> QED BY <2>1, <2>2
<1>3. at[t] = "jwt.read" /\ t \notin dirty /\ dirty \subseteq Session
  BY TypesAreParts DEF JwtReads, Flushed, FlushedStep, TInv, TablesTypeOK
<1>4. SecretInv'
  <2>1. \A q \in Session : my'[q].olds \subseteq signed
    BY <1>1 DEF SecInv, SecretInv
  <2>2. ASSUME NEW q \in Session, at'[q] \in {"jwt.again", "jwt.flush"} PROVE Unseen(q)'
    <3>1. CASE q = t
      BY <1>1, <1>2, <2>2, <3>1 DEF Fresh, Unseen
    <3>2. CASE q # t
      <4>1. Unseen(q)
        BY <1>1, <2>2, <3>2 DEF SecInv, SecretInv
      <4>2. my'[t].sec # my[q].sec
        BY <1>2, <3>2, <4>1 DEF Unseen, Fresh
      <4> QED BY <1>1, <3>2, <4>1, <4>2 DEF Unseen
    <3> QED BY <3>1, <3>2
  <2>3. \A q \in Session :
          /\ at'[q] \in {"jwt.commit", "jwt.fill"} => my'[q].sec \in Secret
          /\ at'[q] \in {"change.secret", "change.commit"} =>
               my'[q].sec \in Secret /\ my'[q].sec \notin my'[q].olds /\ cache # None
    BY <1>1, <1>2 DEF SecInv, SecretInv
  <2> QED BY <1>1, <1>3, <2>1, <2>2, <2>3 DEF SecInv, SecretInv, Without
<1>5. DeadInv'
  BY <1>1, <1>2 DEF SecInv, DeadInv, Without
<1>6. KeepInv'
  <2> SUFFICES ASSUME Without({"shared", "overtaken", "unsaved"})
               PROVE  /\ \A q \in Session : dirty = {q} =>
                           /\ at'[q] \in {"change.secret", "change.commit"} => cache = my'[q].sec
                           /\ at'[q] = "failed" => db.secret = disk.secret
                      /\ \A c \in Secret : InUse(c)' => Backed(c)'
    BY <1>1 DEF KeepInv, Without
  <2>1. Without({"shared"})
    BY DEF Without
  <2>2. ASSUME NEW c, Backed(c) PROVE Backed(c)'
    BY <1>1, <1>3, <2>2 DEF Backed
  <2>3. cache = None => Backed(db.secret)
    <3>1. CASE dirty = {}
      BY <3>1 DEF Flushed, Backed
    <3>2. ASSUME NEW q \in dirty, dirty = {q}, cache = None PROVE Backed(db.secret)
      <4>1. q \in Session
        BY <3>2, TypesAreParts DEF TInv, TablesTypeOK
      <4>2. at[q] \in FlushedStep \cup {"failed"}
        BY DEF Flushed
      <4>3. at[q] # "change.commit"
        BY <3>2, <4>1 DEF SecInv, SecretInv
      <4>4. at[q] \in FlushedStep \ {"jwt.commit", "change.commit"} => db.secret = disk.secret
        BY <2>1, <3>2, <4>1 DEF SecInv, SecretInv
      <4>5. at[q] = "failed" => db.secret = disk.secret
        BY <3>2, <4>1 DEF SecInv, KeepInv
      <4>6. at[q] = "jwt.commit" => my[q].sec = db.secret
        BY <2>1, <3>2, <4>1 DEF SecInv, SecretInv
      <4> QED BY <3>2, <4>2, <4>3, <4>4, <4>5, <4>6 DEF Backed
    <3>3. CASE \E p, q \in dirty : p # q
      BY <3>3 DEF Backed
    <3> QED BY <3>1, <3>2, <3>3
  <2>5. ASSUME NEW c \in Secret, InUse(c)' PROVE Backed(c)'
    <3>1. InUse(c) \/ (cache = None /\ c = db.secret)
      BY <1>1, <1>2, <2>5 DEF InUse
    <3> QED BY <2>2, <2>3, <3>1 DEF SecInv, KeepInv
  <2> QED BY <1>1, <1>3, <2>5 DEF SecInv, KeepInv
<1> QED BY <1>4, <1>5, <1>6 DEF SecInv

\* The new secret is flushed.
LEMMA JwtFlushKeepsSecrets ==
  ASSUME TInv, Flushed, SecInv, NEW t \in Thread, at[t] = "jwt.flush", UNCHANGED <<adminVars, my>>,
         Writes(t, [db EXCEPT !.secret = my[t].sec], "jwt.commit")
  PROVE  SecInv'
<1>0. t \in Session /\ at \in [Session -> AnyStep] /\ db \in Tables
  BY TypesAreParts DEF Session, TInv, TablesTypeOK
<1>1. /\ \A q \in Session \ {t} : at'[q] = at[q]
      /\ at'[t] = "jwt.commit" /\ db'.secret = my[t].sec /\ dirty' = dirty \cup {t}
      /\ UNCHANGED <<cache, signed, revoked, disk, amiss, my>>
  BY <1>0 DEF Writes, Flush, Goto, adminVars, Tables
<1>2. Unseen(t) /\ t \notin dirty
  BY <1>0 DEF SecInv, SecretInv, Flushed, FlushedStep
<1>3. \A q \in Session : dirty' = {q} => q = t
  BY <1>1
<1>4. SecretInv'
  <2>1. ASSUME NEW q \in Session, at'[q] \in {"jwt.again", "jwt.flush"} PROVE Unseen(q)'
    <3>1. Unseen(q) /\ q # t
      BY <1>1, <2>1 DEF SecInv, SecretInv
    <3> QED BY <1>0, <1>1, <3>1 DEF Unseen
  <2>2. \A q \in Session :
          /\ at[q] \in {"jwt.commit", "jwt.fill"} => my[q].sec \in Secret
          /\ at[q] \in {"change.secret", "change.commit"} =>
               my[q].sec \in Secret /\ my[q].sec \notin my[q].olds /\ cache # None
    BY DEF SecInv, SecretInv
  <2> QED BY <1>1, <1>2, <1>3, <2>1, <2>2 DEF SecInv, SecretInv, Unseen, Without
<1>5. DeadInv'
  <2>1. my[t].sec \notin revoked
    BY <1>2 DEF SecInv, SecretInv, Unseen
  <2> QED BY <1>1, <2>1 DEF SecInv, DeadInv, Without
<1>6. KeepInv'
  <2>1. ASSUME NEW c, Backed(c) PROVE Backed(c)'
    BY <1>0, <1>1, <2>1 DEF Backed
  <2>2. \A c : InUse(c)' => InUse(c)
    BY <1>1 DEF InUse
  <2> QED BY <1>1, <1>3, <2>1, <2>2 DEF SecInv, KeepInv, Without
<1> QED BY <1>4, <1>5, <1>6 DEF SecInv

\* It is stored.
LEMMA JwtCommitKeepsSecrets ==
  ASSUME TInv, Flushed, SecInv, NEW t \in Thread, at[t] = "jwt.commit", UNCHANGED <<adminVars, my>>,
         Commits(t, "jwt.fill")
  PROVE  SecInv'
<1>0. t \in Session /\ at \in [Session -> AnyStep]
  BY TypesAreParts DEF Session, TInv
<1>1. /\ \A q \in Session \ {t} : at'[q] = at[q]
      /\ at'[t] = "jwt.fill" /\ db' = db /\ disk' = db /\ dirty' = {}
      /\ UNCHANGED <<cache, signed, revoked, my>>
      /\ \A kinds : Without(kinds)' => Without(kinds)
  BY <1>0 DEF Commits, CommitAll, Besides, Goto, adminVars, Without
<1>2. Without({"shared"})' => dirty = {t} /\ db.secret = my[t].sec
  <2> SUFFICES ASSUME Without({"shared"})' PROVE dirty = {t} /\ db.secret = my[t].sec
    OBVIOUS
  <2>1. dirty \subseteq {t} /\ Without({"shared"})
    BY AloneAtTheEnd DEF Commits
  <2> QED BY <1>0, <2>1 DEF Flushed, FlushedStep, SecInv, SecretInv
<1>3. SecretInv'
  <2>1. ASSUME NEW q \in Session, at'[q] \in {"jwt.again", "jwt.flush"} PROVE Unseen(q)'
    <3>1. Unseen(q)
      BY <1>1, <2>1 DEF SecInv, SecretInv
    <3> QED BY <1>1, <3>1 DEF Unseen
  <2>2. my[t].sec \in Secret
    BY <1>0 DEF SecInv, SecretInv
  <2> QED BY <1>1, <2>1, <2>2 DEF SecInv, SecretInv
<1>4. DeadInv'
  BY <1>0, <1>1 DEF SecInv, DeadInv
<1>5. KeepInv'
  <2> SUFFICES ASSUME Without({"shared", "overtaken", "unsaved"})' PROVE \A c : Backed(c)'
    BY <1>1 DEF KeepInv
  <2>1. my[t].sec = disk'.secret
    BY <1>1, <1>2 DEF Without
  <2> QED BY <1>0, <1>1, <2>1 DEF Backed
<1> QED BY <1>3, <1>4, <1>5 DEF SecInv

\* The cache is filled.
LEMMA JwtFillsKeepsSecrets ==
  ASSUME TInv, Flushed, SecInv, NEW t \in Thread, JwtFills(t)
  PROVE  SecInv'
<1>0. /\ t \in Session /\ at \in [Session -> AnyStep] /\ my \in [Session -> Memory]
      /\ at[t] = "jwt.fill" /\ my[t].sec \in Secret /\ my[t].back \in {"token", "auth"}
  BY TypesAreParts DEF Session, TInv, Control, Proper, JwtStep, SecInv, SecretInv, JwtFills
<1>1. /\ \A q \in Session \ {t} : at'[q] = at[q] /\ my'[q] = my[q]
      /\ at'[t] \in {"token", "auth"} /\ my'[t].sec = None /\ my'[t].olds = my[t].olds
      /\ cache' = my[t].sec
      /\ UNCHANGED <<signed, revoked, db, disk, dirty>>
      /\ \A kinds : Without(kinds)' => Without(kinds)
      /\ \A kinds : "overtaken" \in kinds /\ Without(kinds)' => cache \in {None, my[t].sec}
  BY <1>0 DEF JwtFills, Goto, connVars, Memory, Without
<1>2. t \notin dirty /\ dirty \subseteq Session
  BY <1>0, TypesAreParts DEF Flushed, FlushedStep, TInv, TablesTypeOK
<1>3. SecretInv'
  <2>1. \A q \in Session : my'[q].olds \subseteq signed
    BY <1>1 DEF SecInv, SecretInv
  <2>2. ASSUME NEW q \in Session, at'[q] \in {"jwt.again", "jwt.flush"} PROVE Unseen(q)'
    <3>1. Unseen(q) /\ q # t
      BY <1>1, <2>2 DEF SecInv, SecretInv
    <3> QED BY <1>0, <1>1, <3>1, ThreadAssumption DEF Unseen
  <2>3. \A q \in Session :
          /\ at'[q] \in {"jwt.commit", "jwt.fill"} => my'[q].sec \in Secret
          /\ at'[q] \in {"change.secret", "change.commit"} =>
               my'[q].sec \in Secret /\ my'[q].sec \notin my'[q].olds /\ cache' # None
    BY <1>0, <1>1, ThreadAssumption DEF SecInv, SecretInv
  <2>4. Without({"shared"})' => \A q \in Session : dirty = {q} =>
          /\ at'[q] \in {"jwt.commit", "change.commit"} => db.secret = my'[q].sec
          /\ at'[q] \in FlushedStep \ {"jwt.commit", "change.commit"} => db.secret = disk.secret
          /\ at'[q] \in {"change.rotate", "change.secret"} => my'[q].row = (db.secret # None)
    BY <1>1, <1>2 DEF SecInv, SecretInv
  <2> QED BY <1>1, <2>1, <2>2, <2>3, <2>4 DEF SecInv, SecretInv
<1>4. DeadInv'
  <2> SUFFICES ASSUME Without({"shared", "overtaken"})'
               PROVE  /\ revoked \cap {cache', db.secret, disk.secret} = {}
                      /\ \A q \in Session :
                           /\ at'[q] \in Pending => my'[q].sec \notin revoked
                           /\ at'[q] \in {"change.secret", "change.commit"} => cache' \notin my'[q].olds
    BY <1>0, <1>1, ThreadAssumption DEF DeadInv, Pending
  <2>1. Without({"shared", "overtaken"}) /\ cache \in {None, my[t].sec}
    BY <1>1
  <2>2. cache' \notin revoked
    BY <1>0, <1>1, <2>1 DEF SecInv, DeadInv
  <2>3. ASSUME NEW q \in Session, at'[q] \in {"change.secret", "change.commit"}
        PROVE  cache' \notin my'[q].olds
    <3>1. cache # None /\ q # t /\ cache \notin my[q].olds
      BY <1>1, <2>1, <2>3 DEF SecInv, SecretInv, DeadInv
    <3> QED BY <1>1, <2>1, <3>1
  <2> QED BY <1>1, <2>1, <2>2, <2>3 DEF SecInv, DeadInv, Pending
<1>5. KeepInv'
  <2> SUFFICES ASSUME Without({"shared", "overtaken", "unsaved"})'
               PROVE  /\ \A q \in Session : dirty = {q} =>
                           /\ at'[q] \in {"change.secret", "change.commit"} => cache' = my'[q].sec
                           /\ at'[q] = "failed" => db.secret = disk.secret
                      /\ \A c \in Secret : InUse(c)' => Backed(c)'
    BY <1>1 DEF KeepInv
  <2>1. Without({"shared", "overtaken", "unsaved"}) /\ cache \in {None, my[t].sec}
    BY <1>1
  <2>2. ASSUME NEW q \in Session, dirty = {q}
        PROVE  /\ at'[q] \in {"change.secret", "change.commit"} => cache' = my'[q].sec
               /\ at'[q] = "failed" => db.secret = disk.secret
    <3>1. q # t
      BY <1>2, <2>2
    <3>2. at[q] \in {"change.secret", "change.commit"} => cache # None
      BY DEF SecInv, SecretInv
    <3> QED BY <1>1, <2>1, <2>2, <3>1, <3>2 DEF SecInv, KeepInv
  <2>3. ASSUME NEW c \in Secret, InUse(c)' PROVE Backed(c)'
    <3>1. c = my[t].sec
      BY <1>0, <1>1, <2>3, ThreadAssumption DEF InUse
    <3>2. Backed(c)
      BY <1>0, <2>1, <3>1 DEF SecInv, KeepInv, InUse
    <3> QED BY <1>0, <1>1, <1>2, <3>1, <3>2 DEF Backed
  <2> QED BY <2>2, <2>3
<1> QED BY <1>3, <1>4, <1>5 DEF SecInv

\* A token is signed.
LEMMA SignsKeepsSecrets ==
  ASSUME TInv, Flushed, SecInv, NEW t \in Thread, at[t] = "token", cache # None,
         signed' = signed \cup {cache}, Runs(t, "close"), UNCHANGED <<my, cache, revoked>>
  PROVE  SecInv'
<1>0. t \in Session /\ at \in [Session -> AnyStep] /\ t \notin dirty
  BY TypesAreParts DEF Session, TInv, Flushed, FlushedStep
<1>1. /\ \A q \in Session \ {t} : at'[q] = at[q]
      /\ at'[t] = "close" /\ UNCHANGED <<my, cache, revoked, db, disk, dirty, amiss>>
  BY <1>0 DEF Runs, Goto, connVars
<1>2. SecretInv'
  <2>1. ASSUME NEW q \in Session, at'[q] \in {"jwt.again", "jwt.flush"} PROVE Unseen(q)'
    <3>1. Unseen(q)
      BY <1>1, <2>1 DEF SecInv, SecretInv
    <3> QED BY <1>1, <3>1 DEF Unseen
  <2> QED BY <1>0, <1>1, <2>1 DEF SecInv, SecretInv, Without, FlushedStep
<1>3. DeadInv'
  BY <1>1 DEF SecInv, DeadInv, Without
<1>4. KeepInv'
  <2>1. ASSUME NEW c, Backed(c) PROVE Backed(c)'
    BY <1>0, <1>1, <2>1, TypesAreParts DEF Backed, TInv, TablesTypeOK
  <2>2. \A c : InUse(c)' => InUse(c)
    BY <1>1 DEF InUse
  <2> QED BY <1>0, <1>1, <2>1, <2>2 DEF SecInv, KeepInv, Without
<1> QED BY <1>2, <1>3, <1>4 DEF SecInv

\* _rotate_jwt_secret replaces the cache.
LEMMA RotatesKeepsSecrets ==
  ASSUME TInv, Flushed, SecInv, NEW t \in Thread, ChangeRotates(t)
  PROVE  SecInv'
<1>0. /\ t \in Session /\ at \in [Session -> AnyStep] /\ my \in [Session -> Memory]
      /\ at[t] = "change.rotate" /\ dirty \subseteq Session
  BY TypesAreParts DEF Session, TInv, TablesTypeOK, ChangeRotates
<1>1. PICK s \in Secret : Fresh(s) /\ cache' = s /\ my' = [my EXCEPT ![t].sec = s, ![t].olds = signed]
  BY DEF ChangeRotates
<1>2. /\ \A q \in Session \ {t} : at'[q] = at[q] /\ my'[q] = my[q]
      /\ at'[t] = "change.secret" /\ my'[t].sec = s /\ my'[t].olds = signed /\ my'[t].row = my[t].row
      /\ UNCHANGED <<signed, revoked, db, disk, dirty, amiss>>
  BY <1>0, <1>1 DEF ChangeRotates, Runs, Goto, connVars, Memory
<1>3. s \notin signed /\ s # None /\ \A q \in Session : my[q].sec # s
  BY <1>1, ThreadAssumption DEF Fresh
<1>4. Without({"shared"}) => t \in dirty
  BY <1>0 DEF Flushed, FlushedStep
<1>5. SecretInv'
  <2>1. \A q \in Session : my'[q].olds \subseteq signed
    BY <1>2 DEF SecInv, SecretInv
  <2>2. ASSUME NEW q \in Session, at'[q] \in {"jwt.again", "jwt.flush"} PROVE Unseen(q)'
    <3>1. Unseen(q) /\ q # t
      BY <1>2, <2>2 DEF SecInv, SecretInv
    <3>2. my'[q].sec = my[q].sec /\ my[q].sec # s /\ \A u \in Session \ {q} : my'[u].sec # my[q].sec
      BY <1>2, <1>3, <3>1 DEF Unseen
    <3>3. my'[q].sec \in Secret /\ my'[q].sec \notin {cache', db'.secret, disk'.secret} \cup signed'
      BY <1>1, <1>2, <3>1, <3>2 DEF Unseen
    <3> QED BY <3>2, <3>3 DEF Unseen
  <2>3. \A q \in Session :
          /\ at'[q] \in {"jwt.commit", "jwt.fill"} => my'[q].sec \in Secret
          /\ at'[q] \in {"change.secret", "change.commit"} =>
               my'[q].sec \in Secret /\ my'[q].sec \notin my'[q].olds /\ cache' # None
    BY <1>1, <1>2, <1>3 DEF SecInv, SecretInv
  <2>4. Without({"shared"})' => \A q \in Session : dirty = {q} =>
          /\ at'[q] \in {"jwt.commit", "change.commit"} => db.secret = my'[q].sec
          /\ at'[q] \in FlushedStep \ {"jwt.commit", "change.commit"} => db.secret = disk.secret
          /\ at'[q] \in {"change.rotate", "change.secret"} => my'[q].row = (db.secret # None)
    BY <1>0, <1>2 DEF SecInv, SecretInv, FlushedStep, Without
  <2> QED BY <1>2, <2>1, <2>2, <2>3, <2>4 DEF SecInv, SecretInv
<1>6. DeadInv'
  <2> SUFFICES ASSUME Without({"shared", "overtaken"})
               PROVE  /\ revoked \cap {s, db.secret, disk.secret} = {}
                      /\ \A q \in Session :
                           /\ at'[q] \in Pending => my'[q].sec \notin revoked
                           /\ at'[q] \in {"change.secret", "change.commit"} => s \notin my'[q].olds
    BY <1>1, <1>2, <1>3 DEF DeadInv, Without, Pending
  <2>1. s \notin revoked /\ \A q \in Session : s \notin my'[q].olds
    BY <1>2, <1>3 DEF SecInv, SecretInv
  <2> QED BY <1>2, <2>1 DEF SecInv, DeadInv, Pending
<1>7. KeepInv'
  <2> SUFFICES ASSUME Without({"shared", "overtaken", "unsaved"})
               PROVE  /\ \A q \in Session : dirty = {q} =>
                           /\ at'[q] \in {"change.secret", "change.commit"} => s = my'[q].sec
                           /\ at'[q] = "failed" => db.secret = disk.secret
                      /\ \A c \in Secret : InUse(c)' => Backed(c)'
    BY <1>1, <1>2 DEF KeepInv, Without
  <2>1. t \in dirty
    BY <1>4 DEF Without
  <2>2. ASSUME NEW c \in Secret, InUse(c)' PROVE Backed(c)'
    <3>1. c = s
      BY <1>1, <1>3, <2>2 DEF InUse
    <3> QED BY <1>2, <2>1, <3>1 DEF Backed
  <2> QED BY <1>2, <2>1, <2>2
<1> QED BY <1>5, <1>6, <1>7 DEF SecInv

\* The new secret is flushed.
LEMMA ChangeFlushKeepsSecrets ==
  ASSUME TInv, Flushed, SecInv, NEW t \in Thread, at[t] = "change.secret", UNCHANGED <<adminVars, my>>,
         Writes(t, [db EXCEPT !.secret = my[t].sec], "change.commit")
  PROVE  SecInv'
<1>0. t \in Session /\ at \in [Session -> AnyStep] /\ db \in Tables /\ dirty \subseteq Session
  BY TypesAreParts DEF Session, TInv, TablesTypeOK
<1>1. /\ \A q \in Session \ {t} : at'[q] = at[q]
      /\ at'[t] = "change.commit" /\ db'.secret = my[t].sec /\ dirty' = dirty \cup {t}
      /\ UNCHANGED <<cache, signed, revoked, disk, amiss, my>>
  BY <1>0 DEF Writes, Flush, Goto, adminVars, Tables
<1>2. /\ my[t].sec \in Secret /\ my[t].sec \notin my[t].olds /\ cache # None
      /\ Without({"shared"}) => t \in dirty
  BY <1>0 DEF SecInv, SecretInv, Flushed, FlushedStep
<1>3. SecretInv'
  <2>1. ASSUME NEW q \in Session, at'[q] \in {"jwt.again", "jwt.flush"} PROVE Unseen(q)'
    <3>1. Unseen(q) /\ q # t
      BY <1>1, <2>1 DEF SecInv, SecretInv
    <3> QED BY <1>0, <1>1, <3>1 DEF Unseen
  <2>2. \A q \in Session : dirty' = {q} => q = t
    BY <1>1
  <2> QED BY <1>1, <1>2, <2>1, <2>2 DEF SecInv, SecretInv, Without
<1>4. DeadInv'
  <2>1. Without({"shared", "overtaken"}) => my[t].sec \notin revoked /\ cache \notin my[t].olds
    BY <1>0 DEF SecInv, DeadInv
  <2> QED BY <1>1, <2>1 DEF SecInv, DeadInv, Without
<1>5. KeepInv'
  <2> SUFFICES ASSUME Without({"shared", "overtaken", "unsaved"})
               PROVE  /\ \A q \in Session : dirty' = {q} =>
                           /\ at'[q] \in {"change.secret", "change.commit"} => cache = my[q].sec
                           /\ at'[q] = "failed" => db'.secret = disk.secret
                      /\ \A c \in Secret : InUse(c)' => Backed(c)'
    BY <1>1 DEF KeepInv, Without
  <2>1. dirty' = dirty
    BY <1>1, <1>2 DEF Without
  <2>2. ASSUME NEW c, Backed(c) PROVE Backed(c)'
    BY <1>0, <1>1, <2>1, <2>2 DEF Backed
  <2>3. \A c : InUse(c)' => InUse(c)
    BY <1>1 DEF InUse
  <2> QED BY <1>0, <1>1, <2>1, <2>2, <2>3 DEF SecInv, KeepInv
<1> QED BY <1>3, <1>4, <1>5 DEF SecInv

\* It does not fit any more: somebody else has flushed a secret since.
LEMMA ChangeFailsKeepsSecrets ==
  ASSUME TInv, Flushed, SecInv, NEW t \in Thread, at[t] = "change.secret", UNCHANGED adminVars,
         ~ Fits(t, db.secret), Fails(t)
  PROVE  SecInv'
<1>0. t \in Session /\ at \in [Session -> AnyStep] /\ dirty \subseteq Session
  BY TypesAreParts DEF Session, TInv, TablesTypeOK
<1>1. /\ \A q \in Session \ {t} : at'[q] = at[q]
      /\ at'[t] = "failed" /\ UNCHANGED <<cache, signed, revoked, db, disk, dirty, amiss, my>>
  BY <1>0 DEF Fails, Goto, adminVars, connVars
<1>2. Without({"shared"}) => t \in dirty /\ dirty # {t}
  BY <1>0 DEF SecInv, SecretInv, Flushed, FlushedStep, Fits
<1>3. SecretInv'
  <2>1. ASSUME NEW q \in Session, at'[q] \in {"jwt.again", "jwt.flush"} PROVE Unseen(q)'
    <3>1. Unseen(q)
      BY <1>1, <2>1 DEF SecInv, SecretInv
    <3> QED BY <1>1, <3>1 DEF Unseen
  <2> QED BY <1>1, <2>1 DEF SecInv, SecretInv, Without, FlushedStep
<1>4. DeadInv'
  BY <1>1 DEF SecInv, DeadInv, Without
<1>5. KeepInv'
  <2> SUFFICES ASSUME Without({"shared", "overtaken", "unsaved"})
               PROVE  (\A q \in Session : dirty # {q}) /\ \A c : Backed(c)'
    BY <1>1 DEF KeepInv, Without
  <2>1. t \in dirty /\ dirty # {t}
    BY <1>2 DEF Without
  <2> QED BY <1>1, <2>1 DEF Backed
<1> QED BY <1>3, <1>4, <1>5 DEF SecInv

\* The change is stored, and the tokens from before it are revoked.
LEMMA ChangeCommitKeepsSecrets ==
  ASSUME TInv, Flushed, SecInv, NEW t \in Thread, at[t] = "change.commit", UNCHANGED <<cache, signed>>,
         Commits(t, "token"), Forgets(t), revoked' = revoked \cup my[t].olds
  PROVE  SecInv'
<1>0. t \in Session /\ at \in [Session -> AnyStep] /\ my \in [Session -> Memory] /\ dirty \subseteq Session
  BY TypesAreParts DEF Session, TInv, TablesTypeOK
<1>1. /\ \A q \in Session \ {t} : at'[q] = at[q] /\ my'[q] = my[q]
      /\ at'[t] = "token" /\ my'[t].sec = None /\ my'[t].olds = {}
      /\ db' = db /\ disk' = db /\ dirty' = {}
      /\ \A kinds : Without(kinds)' => Without(kinds)
  BY <1>0 DEF Commits, CommitAll, Besides, Goto, Forgets, Blank, Without
<1>2. my[t].sec \in Secret /\ my[t].sec \notin my[t].olds /\ cache # None /\ my[t].olds \subseteq signed
  BY <1>0 DEF SecInv, SecretInv
<1>3. Without({"shared"})' => /\ Without({"shared"}) /\ dirty = {t} /\ db.secret = my[t].sec
                              /\ \A q \in Session \ {t} : at[q] \notin FlushedStep
  <2> SUFFICES ASSUME Without({"shared"})'
               PROVE  /\ Without({"shared"}) /\ dirty = {t} /\ db.secret = my[t].sec
                      /\ \A q \in Session \ {t} : at[q] \notin FlushedStep
    OBVIOUS
  <2>1. dirty \subseteq {t} /\ Without({"shared"})
    BY AloneAtTheEnd DEF Commits
  <2>2. dirty = {t}
    BY <1>0, <2>1 DEF Flushed, FlushedStep
  <2> QED BY <1>0, <2>1, <2>2 DEF Flushed, SecInv, SecretInv
<1>4. SecretInv'
  <2>1. ASSUME NEW q \in Session, at'[q] \in {"jwt.again", "jwt.flush"} PROVE Unseen(q)'
    <3>1. Unseen(q) /\ q # t
      BY <1>1, <2>1 DEF SecInv, SecretInv
    <3> QED BY <1>0, <1>1, <3>1, ThreadAssumption DEF Unseen
  <2>2. \A q \in Session : my'[q].olds \subseteq signed
    BY <1>1 DEF SecInv, SecretInv
  <2>3. \A q \in Session :
          /\ at'[q] \in {"jwt.commit", "jwt.fill"} => my'[q].sec \in Secret
          /\ at'[q] \in {"change.secret", "change.commit"} =>
               my'[q].sec \in Secret /\ my'[q].sec \notin my'[q].olds /\ cache # None
    BY <1>1 DEF SecInv, SecretInv
  <2> QED BY <1>1, <1>2, <2>1, <2>2, <2>3 DEF SecInv, SecretInv
<1>5. DeadInv'
  <2> SUFFICES ASSUME Without({"shared", "overtaken"})'
               PROVE  /\ revoked' \cap {cache, db.secret} = {}
                      /\ \A q \in Session : at'[q] \notin Pending
    BY <1>1, <1>2 DEF DeadInv, Pending
  <2>1. Without({"shared", "overtaken"}) /\ Without({"shared"})'
    BY <1>1 DEF Without
  <2>2. cache \notin my[t].olds /\ my[t].sec \notin revoked /\ cache \notin revoked
    BY <1>0, <2>1 DEF SecInv, DeadInv
  <2> QED BY <1>1, <1>2, <1>3, <2>1, <2>2 DEF Pending, FlushedStep
<1>6. KeepInv'
  <2> SUFFICES ASSUME Without({"shared", "overtaken", "unsaved"})', NEW c \in Secret, InUse(c)'
               PROVE  Backed(c)'
    BY <1>1 DEF KeepInv
  <2>1. Without({"shared", "overtaken", "unsaved"}) /\ Without({"shared"})'
    BY <1>1 DEF Without
  <2>2. c = cache /\ cache = my[t].sec
    BY <1>0, <1>2, <1>3, <2>1 DEF InUse, SecInv, KeepInv
  <2> QED BY <1>1, <1>3, <2>1, <2>2 DEF Backed
<1> QED BY <1>4, <1>5, <1>6 DEF SecInv

LEMMA ElsewhereKeepsSecrets ==
  ASSUME TInv, Flushed, SecInv, NEW p \in Session, NEW s, Elsewhere(p, s)
  PROVE  SecInv'
<1>0. /\ db \in Tables /\ at[p] \notin SecretStep /\ s \notin SecretStep
      /\ at[p] \notin {"setup.pwd", "setup.commit", "change.must"} /\ at[p] \notin Pending
  BY TypesAreParts
  DEF TInv, TablesTypeOK, Elsewhere, OtherStep, SecretStep, Pending, KeyStep, FindStep, SaveStep, MainStep
<1>1. amiss \subseteq amiss' => Remembers(p, s)
  BY DEF Elsewhere, Remembers, Alone, adminVars
<1>2. CASE UNCHANGED <<db, disk, dirty>> /\ amiss \subseteq amiss' /\ s \notin FlushedStep
  BY <1>0, <1>1, <1>2, StillKeepsSecrets DEF SecretStep
<1>3. ASSUME NEW cred, Writes(p, [db EXCEPT !.cred = cred], s), s \in FlushedStep, at[p] # "failed"
      PROVE  SecInv'
  <2>1. [db EXCEPT !.cred = cred].secret = db.secret
    BY <1>0 DEF Tables
  <2>2. Remembers(p, s)
    BY <1>1, <1>3 DEF Writes
  <2>3. s \in FlushedStep \ {"jwt.commit", "change.commit", "change.secret"} /\ s # "change.rotate"
    BY <1>0, <1>3 DEF SecretStep
  <2> QED BY <1>0, <1>3, <2>1, <2>2, <2>3, OtherWritesKeepSecrets
<1>4. CASE (Commits(p, s) /\ at[p] \in FlushedStep) \/ (Reads(p, s) /\ at[p] \notin FlushedStep)
  <2>1. Remembers(p, s)
    BY <1>1, <1>4 DEF Commits, Reads, Besides
  <2>2. at[p] \in FlushedStep => at[p] \in {"setup.commit", "save.commit", "migrate.commit"}
    BY <1>0 DEF FlushedStep, SecretStep
  <2> QED BY <1>0, <1>4, <2>1, <2>2, OtherEndsKeepSecrets
<1> QED BY <1>2, <1>3, <1>4 DEF Elsewhere

\* A failure; after a failed commit of a secret nothing is said of restarts any more.
LEMMA FailsKeepsSecrets ==
  ASSUME TInv, Flushed, SecInv, NEW t \in Thread, UNCHANGED <<cache, signed, revoked>>,
         \/ Fails(t) /\ at[t] \notin Pending
         \/ CommitFails(t),
         at[t] # "jwt.fill"
  PROVE  SecInv'
<1>0. t \in Session
  BY DEF Session
<1>1. Remembers(t, "failed") /\ UNCHANGED <<db, disk, dirty>> /\ (at[t] \in Pending => "unsaved" \in amiss')
  BY DEF Fails, CommitFails, Remembers, Alone, connVars
<1> QED BY <1>0, <1>1, StillKeepsSecrets DEF SecretStep, FlushedStep

LEMMA RequestsKeepSecrets ==
  ASSUME TInv, Flushed, SecInv, NEW t \in Thread,
         Signs(t) \/ Authenticates(t) \/ BeginLogin(t) \/ BeginSetup(t) \/ ChangeVerifies(t)
  PROVE  SecInv'
<1>0. t \in Session /\ my \in [Session -> Memory] /\ Proper(t, at[t], my[t])
  BY TypesAreParts DEF Session, TInv, Control
<1>1. CASE Signs(t) /\ cache # None /\ signed' = signed \cup {cache}
           /\ Runs(t, "close") /\ UNCHANGED <<my, cache, revoked>>
  BY <1>1, SignsKeepsSecrets DEF Signs
<1>2. CASE /\ UNCHANGED adminVars
           /\ \E s : s \notin SecretStep \cup FlushedStep /\ Runs(t, s)
           /\ at[t] \in {"token", "auth", "idle", "change.verify"}
           /\ \A q \in Session \ {t} : my'[q] = my[q]
           /\ my'[t].sec \in {None, my[t].sec} /\ my'[t].olds \in {{}, my[t].olds}
  <2>1. PICK s : s \notin SecretStep \cup FlushedStep /\ Runs(t, s)
    BY <1>2
  <2>2. Remembers(t, s) /\ UNCHANGED <<db, disk, dirty>> /\ at[t] # "jwt.fill" /\ at[t] \notin Pending
    BY <1>2, <2>1 DEF Remembers, Alone, Runs, adminVars, connVars, Pending
  <2> QED BY <1>0, <2>1, <2>2, StillKeepsSecrets
<1>3. ASSUME Signs(t) \/ Authenticates(t) \/ BeginLogin(t) \/ BeginSetup(t) \/ ChangeVerifies(t)
      PROVE  /\ \A q \in Session \ {t} : my'[q] = my[q]
             /\ my'[t].sec \in {None, my[t].sec} /\ my'[t].olds \in {{}, my[t].olds}
  <2>1. CASE Signs(t) \/ Authenticates(t) \/ ChangeVerifies(t)
    BY <1>0, <2>1 DEF Signs, Authenticates, NeedsSecret, ChangeVerifies, Memory
  <2>2. CASE BeginLogin(t) \/ BeginSetup(t)
    BY <1>0, <2>2 DEF BeginLogin, BeginSetup, Begins, Blank
  <2> QED BY <1>3, <2>1, <2>2
<1>4. CASE NeedsSecret(t, "token") \/ NeedsSecret(t, "auth")
  BY <1>2, <1>3, <1>4
  DEF Signs, Authenticates, NeedsSecret, BeginLogin, BeginSetup, Begins, ChangeVerifies, Runs, SecretStep, FlushedStep
<1>5. CASE Authenticates(t) /\ cache # None
  <2>1. my[t].kind \in {"change", "save", "use"}
    BY <1>0, <1>5 DEF Authenticates, Proper
  <2>2. \E s \in {"close", "change.verify", "save.encrypt", "use"} : Runs(t, s)
    BY <1>5, <2>1 DEF Authenticates, NeedsSecret
  <2> QED BY <1>2, <1>3, <1>5, <2>2 DEF Authenticates, NeedsSecret, SecretStep, FlushedStep
<1>6. CASE BeginLogin(t) \/ BeginSetup(t) \/ ChangeVerifies(t)
  <2>1. \E s \in {"token", "setup.user", "change.pwd", "close"} : Runs(t, s)
    BY <1>6 DEF BeginLogin, BeginSetup, Begins, ChangeVerifies
  <2> QED BY <1>2, <1>3, <1>6, <2>1 DEF BeginLogin, BeginSetup, Begins, ChangeVerifies, SecretStep, FlushedStep
<1> QED BY <1>1, <1>4, <1>5, <1>6 DEF Signs, Authenticates

LEMMA JwtStoresKeepsSecrets ==
  ASSUME TInv, Flushed, SecInv, NEW t \in Thread, JwtStores(t)
  PROVE  SecInv'
<1>0. t \in Session /\ my \in [Session -> Memory] /\ UNCHANGED <<cache, signed, revoked>>
  BY TypesAreParts DEF Session, TInv, JwtStores, adminVars
<1>1. CASE at[t] = "jwt.again" /\ my' = [my EXCEPT ![t].row = db.secret # None] /\ Runs(t, "jwt.flush")
  <2>1. my'[t].sec = my[t].sec /\ my'[t].olds = my[t].olds /\ \A q \in Session \ {t} : my'[q] = my[q]
    BY <1>0, <1>1 DEF Memory
  <2>2. Remembers(t, "jwt.flush") /\ UNCHANGED <<db, disk, dirty>>
    BY <1>0, <1>1, <2>1 DEF Remembers, Alone, Runs, connVars
  <2> QED BY <1>0, <1>1, <2>1, <2>2, StillKeepsSecrets DEF Pending
<1>2. CASE (Fails(t) /\ at[t] = "jwt.flush") \/ (CommitFails(t) /\ at[t] = "jwt.commit")
  BY <1>0, <1>2, FailsKeepsSecrets DEF Pending
<1> QED BY <1>1, <1>2, JwtFlushKeepsSecrets, JwtCommitKeepsSecrets DEF JwtStores

LEMMA SetupKeepsSecrets ==
  ASSUME TInv, Flushed, SecInv, NEW t \in Thread, SetupRuns(t)
  PROVE  SecInv'
<1>0. /\ t \in Session /\ my \in [Session -> Memory] /\ db \in Tables /\ UNCHANGED <<cache, signed, revoked>>
      /\ at[t] \in SetupStep
  BY TypesAreParts DEF Session, TInv, TablesTypeOK, SetupRuns, adminVars, SetupStep
<1>1. /\ \A q \in Session \ {t} : my'[q] = my[q]
      /\ my'[t].sec \in {None, my[t].sec} /\ my'[t].olds \in {{}, my[t].olds}
  BY <1>0 DEF SetupRuns, Fails, CommitFails, Forgets, Memory, Blank
<1>2. CASE Fails(t) \/ CommitFails(t)
  BY <1>0, <1>2, FailsKeepsSecrets DEF SetupStep, Pending
<1>3. CASE at[t] = "setup.commit" /\ Commits(t, "token")
  <2>1. Remembers(t, "token")
    BY <1>0, <1>1, <1>3 DEF Remembers, Alone, Commits, Besides
  <2> QED BY <1>0, <1>3, <2>1, OtherEndsKeepSecrets DEF SecretStep
<1>4. ASSUME NEW s \in {"setup.pwd", "setup.commit"}, NEW tables, Writes(t, tables, s), tables.secret = db.secret
      PROVE  SecInv'
  <2>1. Remembers(t, s)
    BY <1>0, <1>1, <1>4 DEF Remembers, Alone, Writes
  <2>2. s \in FlushedStep \ {"jwt.commit", "change.commit", "change.secret"} /\ s # "change.rotate"
    BY DEF FlushedStep
  <2> QED BY <1>0, <1>4, <2>1, <2>2, OtherWritesKeepSecrets DEF SecretStep, SetupStep
<1>5. [db EXCEPT !.admin = TRUE].secret = db.secret /\ [db EXCEPT !.pwd = my[t].pwd].secret = db.secret
  BY <1>0 DEF Tables
<1> QED BY <1>2, <1>3, <1>4, <1>5 DEF SetupRuns

LEMMA ChangeKeepsSecrets ==
  ASSUME TInv, Flushed, SecInv, NEW t \in Thread,
         ChangeSetsPassword(t) \/ ChangeClearsMust(t) \/ ChangeStores(t) \/ ChangeCommits(t)
  PROVE  SecInv'
<1>0. t \in Session /\ my \in [Session -> Memory] /\ db \in Tables /\ db.must \in {None, "0", "1"}
  BY TypesAreParts DEF Session, TInv, TablesTypeOK, Tables
<1>1. CASE ChangeCommits(t)
  BY <1>1, ChangeCommitKeepsSecrets, FailsKeepsSecrets DEF ChangeCommits
<1>2. CASE ChangeStores(t)
  BY <1>2, ChangeFlushKeepsSecrets, ChangeFailsKeepsSecrets DEF ChangeStores
<1>3. CASE (ChangeSetsPassword(t) \/ ChangeClearsMust(t)) /\ Fails(t)
  BY <1>3, FailsKeepsSecrets DEF ChangeSetsPassword, ChangeClearsMust, adminVars, Pending
<1>4. CASE /\ at[t] = "change.pwd" /\ UNCHANGED adminVars
           /\ Writes(t, [db EXCEPT !.pwd = my[t].pwd], "change.must")
           /\ my' = [my EXCEPT ![t].row = db.must # None]
  <2>1. my'[t].sec = my[t].sec /\ my'[t].olds = my[t].olds /\ \A q \in Session \ {t} : my'[q] = my[q]
    BY <1>0, <1>4 DEF Memory
  <2>2. Remembers(t, "change.must")
    BY <1>4, <2>1 DEF Remembers, Alone, Writes, adminVars
  <2>3. [db EXCEPT !.pwd = my[t].pwd].secret = db.secret
    BY <1>0 DEF Tables
  <2> QED BY <1>0, <1>4, <2>2, <2>3, OtherWritesKeepSecrets DEF SecretStep, FlushedStep
<1>5. CASE /\ at[t] = "change.must" /\ UNCHANGED adminVars
           /\ Writes(t, [db EXCEPT !.must = "0"], "change.rotate")
           /\ my' = [my EXCEPT ![t].row = db.secret # None]
  <2> DEFINE r == (db.secret # None)
  <2>0. r \in BOOLEAN
    OBVIOUS
  <2>1. my'[t].row = r
    <3>1. my' = [my EXCEPT ![t].row = r]
      BY <1>5
    <3> HIDE DEF r
    <3> QED BY <1>0, <3>1 DEF Memory
  <2>2. my'[t].sec = my[t].sec /\ my'[t].olds = my[t].olds /\ \A q \in Session \ {t} : my'[q] = my[q]
    BY <1>0, <1>5 DEF Memory
  <2>3. Remembers(t, "change.rotate")
    BY <1>5, <2>2 DEF Remembers, Alone, Writes, adminVars
  <2>4. [db EXCEPT !.must = "0"].secret = db.secret
    BY <1>0 DEF Tables
  <2> QED BY <1>0, <1>5, <2>1, <2>3, <2>4, OtherWritesKeepSecrets DEF SecretStep, FlushedStep
<1> QED BY <1>1, <1>2, <1>3, <1>4, <1>5 DEF ChangeSetsPassword, ChangeClearsMust

\* A session of no thread ends: what others have flushed is shared from now on.
LEMMA OtherSessionKeepsSecrets ==
  ASSUME TInv, Flushed, SecInv, OtherSessionEnds, UNCHANGED adminVars
  PROVE  SecInv'
<1>1. /\ "shared" \in amiss' /\ dirty' = {} /\ db' = disk' /\ disk' \in {db, disk}
      /\ UNCHANGED <<at, my, cache, signed, revoked>>
  BY ThreadAssumption, TypesAreParts
  DEF OtherSessionEnds, RollbackAll, CommitAll, Besides, adminVars, TInv, TablesTypeOK, Session
<1>2. ASSUME NEW q \in Session, at[q] \in {"jwt.again", "jwt.flush"} PROVE Unseen(q)'
  <2>1. Unseen(q)
    BY <1>2 DEF SecInv, SecretInv
  <2> QED BY <1>1, <2>1 DEF Unseen
<1>3. SecretInv'
  BY <1>1, <1>2 DEF SecInv, SecretInv, Without
<1>4. DeadInv' /\ KeepInv'
  BY <1>1 DEF DeadInv, KeepInv, Without
<1> QED BY <1>3, <1>4 DEF SecInv

\* Steps that touch neither the secret nor what anybody knows of it.
LEMMA NothingKeepsSecrets ==
  ASSUME SecInv, UNCHANGED <<my, cache, signed, revoked, dirty>>, amiss \subseteq amiss',
         db'.secret = db.secret, disk'.secret = disk.secret,
         \/ at' = at
         \/ dirty = {} /\ \E s \in {"tell", "migrate"} : Goto(Main, s) /\ at[Main] \in {"admin", "tell"}
                       /\ at \in [Session -> AnyStep]
  PROVE  SecInv'
<1>1. \A q \in Session : at'[q] = at[q] \/ (at[q] \in {"admin", "tell"} /\ at'[q] \in {"tell", "migrate"} /\ dirty = {})
  BY DEF Goto
<1>2. \A kinds : Without(kinds)' => Without(kinds)
  BY DEF Without
<1>3. ASSUME NEW q \in Session, at'[q] \in {"jwt.again", "jwt.flush"} PROVE Unseen(q)'
  <2>1. Unseen(q)
    BY <1>1, <1>3 DEF SecInv, SecretInv
  <2> QED BY <2>1 DEF Unseen
<1>4. SecretInv'
  BY <1>1, <1>2, <1>3 DEF SecInv, SecretInv
<1>5. DeadInv'
  BY <1>1, <1>2 DEF SecInv, DeadInv
<1>6. KeepInv'
  <2>1. ASSUME NEW c, Backed(c) PROVE Backed(c)'
    BY <1>1, <2>1 DEF Backed
  <2>2. \A c : InUse(c)' => InUse(c)
    BY <1>1 DEF InUse
  <2> QED BY <1>1, <1>2, <2>1, <2>2 DEF SecInv, KeepInv
<1> QED BY <1>4, <1>5, <1>6 DEF SecInv

LEMMA RestKeepsSecrets ==
  ASSUME TInv, Flushed, SecInv,
         FirstAdmin(Main) \/ TellsPassword(Main) \/ (OtherSessionEnds /\ UNCHANGED adminVars)
         \/ (KeyIsLost /\ UNCHANGED adminVars) \/ Stops \/ Crashes
  PROVE  SecInv'
<1>0. Main \in Session /\ at \in [Session -> AnyStep] /\ db \in Tables
  BY TypesAreParts DEF TInv, Session, TablesTypeOK
<1>1. CASE FirstAdmin(Main) \/ TellsPassword(Main)
  <2>1. dirty = {}
    BY <1>0, <1>1, TypesAreParts
    DEF FirstAdmin, TellsPassword, TInv, Control, Flushed, FlushedStep, Serving, Session, TablesTypeOK
  <2>2. UNCHANGED <<my, cache, signed, revoked, dirty, amiss>>
    BY <1>1 DEF FirstAdmin, TellsPassword, Runs, adminVars, connVars
  <2>3. /\ \E s \in {"tell", "migrate"} : Goto(Main, s)
        /\ at[Main] \in {"admin", "tell"}
    BY <1>1 DEF FirstAdmin, TellsPassword, Runs
  <2>4. db'.secret = db.secret /\ disk'.secret = disk.secret
    <3>1. CASE UNCHANGED <<db, disk>>
      BY <3>1
    <3>2. CASE db' = [db EXCEPT !.admin = TRUE, !.pwd = First, !.must = "1"] /\ disk' = db'
      BY <1>0, <2>1, <3>2 DEF Tables, Flushed
    <3> QED BY <1>1, <3>1, <3>2 DEF FirstAdmin, TellsPassword, Runs, connVars
  <2> QED BY <1>0, <2>1, <2>2, <2>3, <2>4, NothingKeepsSecrets
<1>2. CASE OtherSessionEnds /\ UNCHANGED adminVars
  BY <1>2, OtherSessionKeepsSecrets
<1>3. CASE KeyIsLost /\ UNCHANGED adminVars
  BY <1>3, NothingKeepsSecrets DEF KeyIsLost, connVars, adminVars
<1>4. CASE Stops \/ Crashes
  <2>1. /\ db' = disk /\ disk' = disk /\ dirty' = {} /\ cache' = None /\ UNCHANGED <<signed, revoked>>
        /\ amiss \subseteq amiss'
        /\ \A p \in Session : at'[p] \in {"idle", "down"} /\ my'[p].olds = {}
    BY <1>4 DEF Stops, Crashes, Exits, Reopen, Blank
  <2>2. SecretInv'
    BY <2>1 DEF SecInv, SecretInv
  <2>3. DeadInv'
    <3>1. None \notin revoked
      BY ThreadAssumption DEF TInv, TypeOK, AdminTypeOK
    <3>2. \A kinds : Without(kinds)' => Without(kinds)
      BY <2>1 DEF Without
    <3> QED BY <2>1, <3>1, <3>2 DEF SecInv, DeadInv
  <2>4. KeepInv'
    BY <2>1, ThreadAssumption DEF KeepInv, InUse
  <2> QED BY <2>2, <2>3, <2>4 DEF SecInv
<1> QED BY <1>1, <1>2, <1>3, <1>4

LEMMA InitSecInv == Init => SecInv
<1> SUFFICES ASSUME Init PROVE SecInv
  OBVIOUS
<1>1. cache = None /\ signed = {} /\ revoked = {} /\ dirty = {}
  BY DEF Init, DatabaseInit, AdminInit
<1>2. \A p \in Session : at[p] \in {"idle", "down"} /\ my[p].olds = {}
  BY DEF Init, ThreadInit, Blank
<1> QED BY <1>1, <1>2, ThreadAssumption DEF SecInv, SecretInv, DeadInv, KeepInv, InUse

LEMMA StepKeepsSecInv ==
  TInv /\ Flushed /\ SecInv /\ [Next]_vars => SecInv'
<1> SUFFICES ASSUME TInv, Flushed, SecInv, [Next]_vars PROVE SecInv'
  OBVIOUS
<1>1. CASE UNCHANGED vars
  BY <1>1, NothingKeepsSecrets DEF vars, connVars, threadVars, adminVars
<1>2. ASSUME NEW t \in Thread, AdminStep(t) PROVE SecInv'
  <2>1. CASE GetsSecret(t)
    BY <2>1, JwtReadsKeepsSecrets, JwtStoresKeepsSecrets, JwtFillsKeepsSecrets DEF GetsSecret
  <2>2. CASE Change(t)
    BY <2>2, RequestsKeepSecrets, RotatesKeepsSecrets, ChangeKeepsSecrets DEF Change
  <2> QED BY <1>2, <2>1, <2>2, RequestsKeepSecrets, SetupKeepsSecrets DEF AdminStep
<1>3. ASSUME NEW p \in Session, NEW s \in AnyStep, Elsewhere(p, s) PROVE SecInv'
  BY <1>3, ElsewhereKeepsSecrets
<1>4. CASE \/ FirstAdmin(Main) \/ TellsPassword(Main) \/ (OtherSessionEnds /\ UNCHANGED adminVars)
           \/ (KeyIsLost /\ UNCHANGED adminVars) \/ Stops \/ Crashes
  BY <1>4, RestKeepsSecrets
<1> QED BY <1>1, <1>2, <1>3, <1>4, AdminSplits

(***************************************************************************)
(* change-password: whatever was signed before a change that was confirmed *)
(* stays dead, for any number of threads and changes: neither this process *)
(* nor one started from the disk ever accepts it again.                    *)
(***************************************************************************)
THEOREM OldTokensAreDead == Spec => []OldTokensStayDead
<1>1. SecInv => OldTokensStayDead
  BY DEF SecInv, DeadInv, OldTokensStayDead
<1> QED BY <1>1, InitTInv, StepKeepsTInv, InitAccountInv, StepKeepsAccountInv, InitSecInv, StepKeepsSecInv,
           PTL DEF Spec

(***************************************************************************)
(* get_jwt_secret: at rest the cached secret is the stored one, so a       *)
(* restart of the panel throws nobody out.                                 *)
(***************************************************************************)
THEOREM RestartThrowsNobodyOut == Spec => []RestartKeepsSessions
<1>1. TInv /\ Flushed /\ SecInv => RestartKeepsSessions
  <2> SUFFICES ASSUME TInv, Flushed, SecInv, Quiet, Without({"shared", "overtaken", "unsaved"}), cache # None
               PROVE  cache = disk.secret
    BY DEF RestartKeepsSessions
  <2>1. \A p \in Session : at[p] \in {"serving", "idle"}
    BY DEF Quiet, Serving, Session
  <2>2. dirty = {}
    BY <2>1, TypesAreParts DEF Flushed, FlushedStep, TInv, TablesTypeOK
  <2>3. cache \in Secret
    BY DEF TInv, TypeOK, AdminTypeOK
  <2>4. Backed(cache)
    BY <2>3 DEF SecInv, KeepInv, InUse
  <2> QED BY <2>1, <2>2, <2>4 DEF Backed
<1> QED BY <1>1, InitTInv, StepKeepsTInv, InitAccountInv, StepKeepsAccountInv, InitSecInv, StepKeepsSecInv,
           PTL DEF Spec

=============================================================================
