------------------------ MODULE CredentialKeyProofs -------------------------
(***************************************************************************)
(* What is proved of the Fernet key in PanelProcess: stored credentials    *)
(* can be read with the key on the disk, and a new key never replaces one  *)
(* that is still needed.                                                   *)
(***************************************************************************)
EXTENDS PanelProcessProofs

-----------------------------------------------------------------------------
(* The invariant.                                                          *)

Making == {"key.check", "key.open", "key.write"}

(***************************************************************************)
(* A key in hand is a key, only a process that has a Fernet encrypts, and  *)
(* a ciphertext is only ever replaced by another one.                      *)
(***************************************************************************)
KeysInHand ==
  /\ \A p \in Session :
       /\ at[p] = "key.set"    => my[p].key \in Key
       /\ at[p] = "save.flush" => my[p].key \in Key /\ fernet # None
  /\ Ciphers(disk) \subseteq Ciphers(db)

\* A thread that makes a key is alone with it, and no Fernet is in use.
OneMaker ==
  Without({"raced"}) =>
    \A p \in Session : at[p] \in Making =>
      /\ fernet = None
      /\ keyFile = IF at[p] = "key.write" THEN "torn" ELSE None
      /\ \A u \in Session \ {p} : at[u] \notin FindStep

\* It has found no ciphertext, and none is stored before the key is there.
NothingStored ==
  Without({"raced", "unread"}) =>
    \A p \in Session : at[p] \in {"key.open", "key.write"} => Ciphers(db) = {}

\* As long as the file is not lost, all keys are the key in it.
OneKey ==
  Without({"raced", "lost"}) =>
    /\ fernet \in {None, keyFile}
    /\ \A p \in Session : at[p] \in {"key.set", "save.flush"} => my[p].key = keyFile
    /\ \A n \in Ciphers(db) : db.cred[n] = keyFile
    /\ \A n \in Ciphers(disk) : disk.cred[n] = keyFile

KeyInv == KeysInHand /\ OneMaker /\ NothingStored /\ OneKey

KeyStepsToo == FindStep \cup {"save.flush"}

(***************************************************************************)
(* A step that neither makes, uses nor loses a key: at most it commits or  *)
(* discards what is flushed.                                               *)
(***************************************************************************)
Aloof ==
  /\ UNCHANGED keyVars
  /\ amiss \subseteq amiss'
  /\ \/ db'.cred = db.cred /\ disk'.cred = disk.cred
     \/ db'.cred = disk.cred /\ disk'.cred = disk.cred
     \/ db'.cred = db.cred /\ disk'.cred = db.cred
  /\ \A p \in Session :
       at'[p] \in KeyStepsToo => at'[p] = at[p] /\ my'[p].key = my[p].key

LEMMA AloofKeepsKeyInv ==
  ASSUME TInv, KeyInv, Aloof
  PROVE  KeyInv'
<1>1. Ciphers(disk') \subseteq Ciphers(db') /\ Ciphers(db') \subseteq Ciphers(db)
  BY DEF KeyInv, KeysInHand, Aloof, Ciphers
<1>2. KeysInHand'
  BY <1>1 DEF KeyInv, KeysInHand, Aloof, keyVars, KeyStepsToo, FindStep
<1>3. OneMaker'
  BY DEF KeyInv, OneMaker, Without, Aloof, keyVars, KeyStepsToo, FindStep, Making
<1>4. NothingStored'
  BY <1>1 DEF KeyInv, NothingStored, Without, Aloof, KeyStepsToo, FindStep
<1>5. OneKey'
  <2> SUFFICES ASSUME Without({"raced", "lost"})'
               PROVE  /\ fernet' \in {None, keyFile'}
                      /\ \A p \in Session : at'[p] \in {"key.set", "save.flush"} => my'[p].key = keyFile'
                      /\ \A n \in Ciphers(db') : db'.cred[n] = keyFile'
                      /\ \A n \in Ciphers(disk') : disk'.cred[n] = keyFile'
    BY DEF OneKey
  <2>1. Without({"raced", "lost"})
    BY DEF Without, Aloof
  <2>2. \A n \in Ciphers(db') : db'.cred[n] = keyFile
    BY <2>1 DEF KeyInv, OneKey, Aloof, Ciphers
  <2>3. \A n \in Ciphers(disk') : disk'.cred[n] = keyFile
    BY <2>1 DEF KeyInv, OneKey, Aloof, Ciphers
  <2> QED BY <2>1, <2>2, <2>3 DEF KeyInv, OneKey, Aloof, keyVars, KeyStepsToo, FindStep
<1> QED BY <1>2, <1>3, <1>4, <1>5 DEF KeyInv

\* The tables as a step leaves them, and what has gone amiss.
LEMMA EndsAreAloof ==
  ASSUME NEW p, NEW s, Reads(p, s) \/ Commits(p, s) \/ OtherSessionEnds
  PROVE  /\ amiss \subseteq amiss'
         /\ \/ db' = disk /\ disk' = disk
            \/ db' = db /\ disk' = db
BY DEF Reads, Commits, OtherSessionEnds, RollbackAll, CommitAll, Besides

LEMMA JwtIsAloof ==
  ASSUME TInv, NEW t \in Thread, Signs(t) \/ Authenticates(t) \/ GetsSecret(t), UNCHANGED keyVars
  PROVE  Aloof
<1>0. /\ t \in Session /\ db \in Tables /\ at \in [Session -> AnyStep] /\ my \in [Session -> Memory]
      /\ Proper(t, at[t], my[t])
  BY TypesAreParts DEF TInv, Session, TablesTypeOK, Control
<1>1. \A q \in Session \ {t} : my'[q] = my[q] /\ at'[q] = at[q]
  BY <1>0 DEF Signs, Authenticates, NeedsSecret, GetsSecret, JwtReads, JwtStores, JwtFills, Fails, CommitFails,
     Runs, Goto, Writes, Commits
<1>2. at'[t] \notin KeyStepsToo
  <2>1. CASE Signs(t) \/ Authenticates(t)
    BY <1>0, <2>1 DEF Signs, Authenticates, NeedsSecret, Runs, Goto, Proper, KeyStepsToo, FindStep
  <2>2. CASE JwtFills(t)
    BY <1>0, <2>2 DEF JwtFills, Goto, Proper, JwtStep, KeyStepsToo, FindStep
  <2>3. CASE JwtReads(t) \/ JwtStores(t)
    BY <1>0, <2>3 DEF JwtReads, JwtStores, Runs, Goto, Writes, Commits, Fails, CommitFails, KeyStepsToo, FindStep
  <2> QED BY <2>1, <2>2, <2>3 DEF GetsSecret
<1>3. /\ amiss \subseteq amiss'
      /\ \/ db'.cred = db.cred /\ disk' = disk
         \/ db' = db /\ disk' = db
  <2>1. CASE Signs(t) \/ Authenticates(t) \/ JwtReads(t) \/ JwtFills(t)
    BY <2>1 DEF Signs, Authenticates, NeedsSecret, Runs, JwtReads, JwtFills, connVars
  <2>2. CASE JwtStores(t)
    BY <1>0, <2>2 DEF JwtStores, Runs, Writes, Flush, Commits, CommitAll, Besides, Fails, CommitFails, connVars, Tables
  <2> QED BY <2>1, <2>2 DEF GetsSecret
<1> QED BY <1>1, <1>2, <1>3 DEF Aloof

LEMMA AccountIsAloof ==
  ASSUME TInv, NEW t \in Thread, BeginLogin(t) \/ BeginSetup(t) \/ SetupRuns(t) \/ Change(t), UNCHANGED keyVars
  PROVE  Aloof
<1>0. t \in Session /\ db \in Tables /\ at \in [Session -> AnyStep] /\ my \in [Session -> Memory]
  BY TypesAreParts DEF TInv, Session, TablesTypeOK
<1>1. \A q \in Session \ {t} : my'[q] = my[q] /\ at'[q] = at[q]
  BY <1>0 DEF BeginLogin, BeginSetup, Begins, SetupRuns, Fails, CommitFails, Forgets, Change, ChangeVerifies,
     ChangeSetsPassword, ChangeClearsMust, ChangeRotates, ChangeStores, ChangeCommits, Runs, Goto, Writes, Commits
<1>2. at'[t] \notin KeyStepsToo
  BY <1>0 DEF BeginLogin, BeginSetup, Begins, SetupRuns, Fails, CommitFails, Change, ChangeVerifies,
     ChangeSetsPassword, ChangeClearsMust, ChangeRotates, ChangeStores, ChangeCommits, Runs, Goto, Writes, Commits,
     KeyStepsToo, FindStep
<1>3. /\ amiss \subseteq amiss'
      /\ \/ db'.cred = db.cred /\ disk' = disk
         \/ db' = db /\ disk' = db
  <2>1. CASE BeginLogin(t) \/ BeginSetup(t) \/ ChangeVerifies(t) \/ ChangeRotates(t)
    BY <2>1 DEF BeginLogin, BeginSetup, Begins, ChangeVerifies, ChangeRotates, Runs, connVars
  <2>2. CASE SetupRuns(t)
    BY <1>0, <2>2 DEF SetupRuns, Runs, Writes, Flush, Commits, CommitAll, Besides, Fails, CommitFails, connVars, Tables
  <2>3. CASE ChangeSetsPassword(t) \/ ChangeClearsMust(t) \/ ChangeStores(t) \/ ChangeCommits(t)
    BY <1>0, <2>3 DEF ChangeSetsPassword, ChangeClearsMust, ChangeStores, ChangeCommits, Writes, Flush, Commits,
       CommitAll, Besides, Fails, CommitFails, connVars, Tables
  <2> QED BY <2>1, <2>2, <2>3 DEF Change
<1> QED BY <1>1, <1>2, <1>3 DEF Aloof

LEMMA RestIsAloof ==
  ASSUME TInv,
         \/ \E t \in Thread : BeginRequest(t) \/ Uses(t)
                              \/ (SaveEncrypts(t) /\ UNCHANGED keyVars /\ fernet = None)
                              \/ (SaveCommits(t) /\ at[t] = "save.commit")
                              \/ (Close(t) /\ UNCHANGED keyVars)
         \/ StartStepOf /\ UNCHANGED keyVars
         \/ (Migrates(Main) /\ at[Main] = "migrate.commit") \/ (Migrates(Main) /\ Plain = {})
         \/ MigrateLoads(Main)
         \/ OtherSessionEnds /\ UNCHANGED keyVars
  PROVE  Aloof
<1>0. /\ db \in Tables /\ at \in [Session -> AnyStep] /\ my \in [Session -> Memory]
      /\ Main \in Session /\ Thread \subseteq Session
  BY TypesAreParts DEF TInv, Session, TablesTypeOK
<1>1. ASSUME NEW t \in Thread, BeginRequest(t) \/ Uses(t) \/ (SaveEncrypts(t) /\ fernet = None)
      PROVE  Aloof
  <2>1. \A q \in Session \ {t} : my'[q] = my[q] /\ at'[q] = at[q]
    BY <1>0, <1>1 DEF BeginRequest, Begins, Uses, SaveEncrypts, NeedsFernet, Runs, Goto
  <2>2. at'[t] \notin KeyStepsToo
    BY <1>0, <1>1 DEF BeginRequest, Begins, Uses, SaveEncrypts, NeedsFernet, Runs, Goto, KeyStepsToo, FindStep
  <2>3. UNCHANGED <<connVars, amiss, keyVars>>
    BY <1>1 DEF BeginRequest, Begins, Uses, SaveEncrypts, NeedsFernet, Runs
  <2> QED BY <2>1, <2>2, <2>3 DEF Aloof, connVars
<1>2. ASSUME NEW t \in Thread, (SaveCommits(t) /\ at[t] = "save.commit") \/ (Close(t) /\ UNCHANGED keyVars)
      PROVE  Aloof
  <2>1. \A q \in Session \ {t} : my'[q] = my[q] /\ at'[q] = at[q]
    BY <1>0, <1>2 DEF SaveCommits, Close, Ends, Reads, Commits, CommitFails, Forgets, Goto
  <2>2. at'[t] \notin KeyStepsToo
    BY <1>0, <1>2 DEF SaveCommits, Close, Ends, Reads, Commits, CommitFails, Goto, KeyStepsToo, FindStep
  <2>3. CASE CommitFails(t)
    BY <1>2, <2>1, <2>2, <2>3 DEF Aloof, CommitFails, SaveCommits, connVars
  <2>4. CASE ~ CommitFails(t)
    BY <1>2, <2>1, <2>2, <2>4, EndsAreAloof DEF Aloof, SaveCommits, Close, Ends
  <2> QED BY <2>3, <2>4
<1>3. CASE (StartStepOf /\ UNCHANGED keyVars) \/ MigrateLoads(Main) \/ (Migrates(Main) /\ Plain = {} /\ at[Main] = "migrate")
  <2>1. \A q \in Session \ {Main} : my'[q] = my[q] /\ at'[q] = at[q]
    BY <1>0, <1>3 DEF StartStepOf, FirstAdmin, TellsPassword, Start, Migrates, MigrateLoads, NeedsFernet, Runs, Goto
  <2>2. at'[Main] \notin KeyStepsToo
    BY <1>0, <1>3 DEF StartStepOf, FirstAdmin, TellsPassword, Start, Migrates, MigrateLoads, NeedsFernet, Runs,
       Goto, KeyStepsToo, FindStep
  <2>3. /\ UNCHANGED keyVars /\ amiss' = amiss
        /\ \/ UNCHANGED <<db, disk>>
           \/ db'.cred = db.cred /\ disk' = db'
    BY <1>0, <1>3 DEF StartStepOf, FirstAdmin, TellsPassword, Start, Migrates, MigrateLoads, NeedsFernet, Runs,
       connVars, Tables
  <2> QED BY <2>1, <2>2, <2>3 DEF Aloof
<1>4. CASE Migrates(Main) /\ at[Main] = "migrate.commit"
  <2>1. \A q \in Session \ {Main} : my'[q] = my[q] /\ at'[q] = at[q]
    BY <1>0, <1>4 DEF Migrates, Commits, CommitFails, Forgets, Goto
  <2>2. at'[Main] \notin KeyStepsToo
    BY <1>0, <1>4 DEF Migrates, Commits, CommitFails, Goto, KeyStepsToo, FindStep
  <2>3. CASE CommitFails(Main)
    BY <1>4, <2>1, <2>2, <2>3 DEF Aloof, CommitFails, Migrates, connVars
  <2>4. CASE ~ CommitFails(Main)
    BY <1>4, <2>1, <2>2, <2>4, EndsAreAloof DEF Aloof, Migrates
  <2> QED BY <2>3, <2>4
<1>5. CASE OtherSessionEnds /\ UNCHANGED keyVars
  BY <1>5, EndsAreAloof DEF Aloof, OtherSessionEnds
<1> QED BY <1>1, <1>2, <1>3, <1>4, <1>5 DEF Migrates

LEMMA FindsKeepsKeyInv ==
  ASSUME TInv, KeyInv, NEW p \in Session, KeyFinds(p)
  PROVE  KeyInv'
<1>0. at \in [Session -> AnyStep] /\ my \in [Session -> Memory] /\ KeyTypeOK /\ at[p] = "key.find"
  BY TypesAreParts DEF TInv, KeyFinds
<1>1. \A q \in Session \ {p} : my'[q] = my[q] /\ at'[q] = at[q]
  BY <1>0 DEF KeyFinds, Goto
<1>2. CASE keyFile = None
  <2>1. at'[p] = "key.check" /\ UNCHANGED <<db, disk, keyFile, fernet, my>> /\ amiss \subseteq amiss'
    BY <1>0, <1>2, ThreadAssumption DEF KeyFinds, Goto, connVars, keyVars
  <2>2. OneMaker'
    <3> SUFFICES ASSUME Without({"raced"})', NEW q \in Session, at'[q] \in Making
                 PROVE  /\ fernet = None
                        /\ keyFile = IF at'[q] = "key.write" THEN "torn" ELSE None
                        /\ \A u \in Session \ {q} : at'[u] \notin FindStep
      BY <2>1 DEF OneMaker
    <3>1. fernet = None /\ \A u \in Session \ {p} : at[u] \notin FindStep
      BY <1>0, <1>2, ThreadAssumption DEF KeyFinds, Without
    <3>2. q = p
      BY <1>1, <3>1 DEF Making, FindStep
    <3> QED BY <1>1, <1>2, <2>1, <3>1, <3>2
  <2>3. NothingStored'
    BY <1>1, <2>1 DEF KeyInv, NothingStored, Without, Ciphers
  <2>4. KeysInHand'
    BY <1>1, <2>1 DEF KeyInv, KeysInHand, Ciphers
  <2>5. OneKey'
    BY <1>1, <2>1 DEF KeyInv, OneKey, Without, Ciphers
  <2> QED BY <2>2, <2>3, <2>4, <2>5 DEF KeyInv
<1>3. CASE keyFile = "torn"
  <2>1. Aloof
    BY <1>0, <1>1, <1>3, ThreadAssumption DEF KeyFinds, Goto, Aloof, KeyStepsToo, FindStep, connVars
  <2> QED BY <2>1, AloofKeepsKeyInv
<1>4. CASE keyFile \in Key
  <2>1. /\ at'[p] = "key.set" /\ my'[p].key = keyFile
        /\ UNCHANGED <<db, disk, keyFile, fernet, amiss>>
    BY <1>0, <1>4, ThreadAssumption DEF KeyFinds, Goto, connVars, keyVars, Memory
  <2>2. OneMaker'
    <3>1. Without({"raced"}) => \A q \in Session : at[q] \notin Making
      BY <1>4, ThreadAssumption DEF KeyInv, OneMaker, Making
    <3> QED BY <1>1, <2>1, <3>1 DEF OneMaker, Making, Without
  <2>3. NothingStored'
    BY <1>1, <2>1 DEF KeyInv, NothingStored, Without, Ciphers
  <2>4. KeysInHand'
    BY <1>1, <1>4, <2>1 DEF KeyInv, KeysInHand, Ciphers
  <2>5. OneKey'
    BY <1>1, <2>1 DEF KeyInv, OneKey, Without, Ciphers
  <2> QED BY <2>2, <2>3, <2>4, <2>5 DEF KeyInv
<1> QED BY <1>0, <1>2, <1>3, <1>4 DEF KeyTypeOK

LEMMA ChecksKeepsKeyInv ==
  ASSUME TInv, KeyInv, NEW p \in Session, KeyChecks(p)
  PROVE  KeyInv'
<1>0. at \in [Session -> AnyStep] /\ my \in [Session -> Memory] /\ at[p] = "key.check"
  BY TypesAreParts DEF TInv, KeyChecks
<1>1. \A q \in Session : my'[q] = my[q] /\ (q # p => at'[q] = at[q])
  BY <1>0 DEF KeyChecks, Reads, Goto
<1>2. /\ UNCHANGED <<disk, keyFile, fernet>> /\ amiss \subseteq amiss'
      /\ db' = db \/ db' = disk
  BY DEF KeyChecks, Reads, RollbackAll, Besides, connVars, keyVars
<1>3. at'[p] \in {"key.open", "failed"}
  BY <1>0 DEF KeyChecks, Reads, Goto
<1>4. KeysInHand'
  BY <1>1, <1>2, <1>3 DEF KeyInv, KeysInHand, Ciphers
<1>5. OneMaker'
  BY <1>0, <1>1, <1>2, <1>3 DEF KeyInv, OneMaker, Making, Without, FindStep
<1>6. NothingStored'
  <2> SUFFICES ASSUME Without({"raced", "unread"})', NEW q \in Session, at'[q] \in {"key.open", "key.write"}
               PROVE  Ciphers(db') = {}
    BY DEF NothingStored, Ciphers
  <2>1. Ciphers(disk) \subseteq Ciphers(db)
    BY DEF KeyInv, KeysInHand
  <2>2. CASE q = p
    BY <1>0, <1>3, <2>1, <2>2 DEF KeyChecks, Reads, Goto, RollbackAll, Ciphers, Without
  <2>3. CASE q # p
    BY <1>1, <1>2, <2>1, <2>3 DEF KeyInv, NothingStored, Without, Ciphers
  <2> QED BY <2>2, <2>3
<1>7. OneKey'
  BY <1>1, <1>2, <1>3 DEF KeyInv, OneKey, Without, Ciphers
<1> QED BY <1>4, <1>5, <1>6, <1>7 DEF KeyInv

LEMMA WritesKeepsKeyInv ==
  ASSUME TInv, KeyInv, NEW p \in Session, KeyWrites(p)
  PROVE  KeyInv'
<1>0. at \in [Session -> AnyStep] /\ my \in [Session -> Memory]
  BY TypesAreParts DEF TInv
<1>1. \A q \in Session \ {p} : my'[q] = my[q] /\ at'[q] = at[q]
  BY <1>0 DEF KeyWrites, Runs, Goto
<1>2. UNCHANGED <<db, disk, fernet, amiss>>
  BY DEF KeyWrites, Runs, connVars
<1>3. CASE at[p] = "key.open"
  <2>1. at'[p] = "key.write" /\ keyFile' = "torn"
    BY <1>0, <1>3 DEF KeyWrites, Runs, Goto
  <2>2. KeysInHand'
    BY <1>1, <1>2, <2>1 DEF KeyInv, KeysInHand, Ciphers
  <2>3. OneMaker'
    BY <1>1, <1>2, <1>3, <2>1 DEF KeyInv, OneMaker, Making, Without, FindStep
  <2>4. NothingStored'
    BY <1>1, <1>2, <1>3, <2>1 DEF KeyInv, NothingStored, Without, Ciphers
  <2>5. OneKey'
    <3> SUFFICES ASSUME Without({"raced", "lost"})
                 PROVE  /\ fernet' \in {None, keyFile'}
                        /\ \A q \in Session : at'[q] \in {"key.set", "save.flush"} => my'[q].key = keyFile'
                        /\ \A n \in Ciphers(db') : db'.cred[n] = keyFile'
                        /\ \A n \in Ciphers(disk') : disk'.cred[n] = keyFile'
      BY <1>2 DEF OneKey, Without
    <3>1. /\ keyFile = None /\ fernet = None
          /\ \A u \in Session \ {p} : at[u] \notin FindStep /\ at[u] # "save.flush"
      BY <1>3 DEF KeyInv, OneMaker, KeysInHand, Making, Without
    <3>2. Ciphers(db) = {} /\ Ciphers(disk) = {}
      BY <3>1, ThreadAssumption DEF KeyInv, OneKey, KeysInHand, Ciphers
    <3> QED BY <1>1, <1>2, <2>1, <3>1, <3>2 DEF Ciphers, FindStep
  <2> QED BY <2>2, <2>3, <2>4, <2>5 DEF KeyInv
<1>4. CASE at[p] = "key.write"
  <2>1. at'[p] = "key.set" /\ keyFile' \in Key /\ my'[p].key = keyFile'
    BY <1>0, <1>4 DEF KeyWrites, Runs, Goto, Memory
  <2>2. KeysInHand'
    BY <1>1, <1>2, <2>1 DEF KeyInv, KeysInHand, Ciphers
  <2>3. OneMaker'
    <3>1. Without({"raced"}) => \A u \in Session \ {p} : at[u] \notin FindStep
      BY <1>4 DEF KeyInv, OneMaker, Making
    <3> QED BY <1>1, <1>2, <2>1, <3>1 DEF OneMaker, Making, Without, FindStep
  <2>4. NothingStored'
    BY <1>1, <1>2, <2>1 DEF KeyInv, NothingStored, Without, Ciphers
  <2>5. OneKey'
    <3> SUFFICES ASSUME Without({"raced", "lost"})
                 PROVE  /\ fernet' \in {None, keyFile'}
                        /\ \A q \in Session : at'[q] \in {"key.set", "save.flush"} => my'[q].key = keyFile'
                        /\ \A n \in Ciphers(db') : db'.cred[n] = keyFile'
                        /\ \A n \in Ciphers(disk') : disk'.cred[n] = keyFile'
      BY <1>2 DEF OneKey, Without
    <3>1. /\ keyFile = "torn" /\ fernet = None
          /\ \A u \in Session \ {p} : at[u] \notin FindStep /\ at[u] # "save.flush"
      BY <1>4 DEF KeyInv, OneMaker, KeysInHand, Making, Without
    <3>2. Ciphers(db) = {} /\ Ciphers(disk) = {}
      BY <3>1, ThreadAssumption DEF KeyInv, OneKey, KeysInHand, Ciphers
    <3> QED BY <1>1, <1>2, <2>1, <3>1, <3>2 DEF Ciphers, FindStep
  <2> QED BY <2>2, <2>3, <2>4, <2>5 DEF KeyInv
<1> QED BY <1>3, <1>4 DEF KeyWrites

LEMMA SetsKeepsKeyInv ==
  ASSUME TInv, KeyInv, NEW p \in Session, KeySets(p)
  PROVE  KeyInv'
<1>0. /\ at \in [Session -> AnyStep] /\ my \in [Session -> Memory] /\ at[p] = "key.set"
      /\ my[p].back \in {"save.encrypt", "use", "migrate"} /\ my[p].key \in Key
  BY TypesAreParts DEF TInv, Control, Proper, KeySets, KeyStep, FindStep, KeyInv, KeysInHand
<1>1. \A q \in Session \ {p} : my'[q] = my[q] /\ at'[q] = at[q]
  BY <1>0 DEF KeySets, Runs, Goto
<1>2. UNCHANGED <<db, disk, keyFile, amiss>> /\ fernet' = my[p].key /\ fernet' \in Key
  BY <1>0 DEF KeySets, Runs, connVars
<1>3. at'[p] \in {"save.encrypt", "use", "migrate"}
  BY <1>0 DEF KeySets, Runs, Goto
<1>4. KeysInHand'
  BY <1>1, <1>2, <1>3, ThreadAssumption DEF KeyInv, KeysInHand, Ciphers
<1>5. OneMaker'
  BY <1>0, <1>1, <1>2, <1>3 DEF KeyInv, OneMaker, Making, Without, FindStep
<1>6. NothingStored'
  BY <1>1, <1>2, <1>3 DEF KeyInv, NothingStored, Without, Ciphers
<1>7. OneKey'
  BY <1>0, <1>1, <1>2, <1>3 DEF KeyInv, OneKey, Without, Ciphers
<1> QED BY <1>4, <1>5, <1>6, <1>7 DEF KeyInv

\* Whoever encrypts has a Fernet, so nobody is making a key.
LEMMA NobodyMakes ==
  ASSUME KeyInv, fernet # None, Without({"raced"})
  PROVE  \A p \in Session : at[p] \notin Making
BY DEF KeyInv, OneMaker

LEMMA SaveKeepsKeyInv ==
  ASSUME TInv, KeyInv, NEW t \in Thread, SaveEncrypts(t) \/ SaveCommits(t)
  PROVE  KeyInv'
<1>0. /\ at \in [Session -> AnyStep] /\ my \in [Session -> Memory] /\ t \in Session
      /\ db \in Tables /\ KeyTypeOK
  BY TypesAreParts DEF TInv, Session, TablesTypeOK
<1>1. CASE SaveEncrypts(t) /\ fernet = None
  BY <1>1, RestIsAloof, AloofKeepsKeyInv DEF SaveEncrypts, NeedsFernet
<1>2. CASE SaveEncrypts(t) /\ fernet # None
  <2>1. \A q \in Session \ {t} : my'[q] = my[q] /\ at'[q] = at[q]
    BY <1>0, <1>2 DEF SaveEncrypts, NeedsFernet, Runs, Goto
  <2>2. /\ UNCHANGED <<db, disk, keyFile, fernet, amiss>>
        /\ at'[t] = "save.flush" /\ my'[t].key = fernet
    BY <1>0, <1>2 DEF SaveEncrypts, NeedsFernet, Runs, Goto, connVars, keyVars, Memory
  <2>3. KeysInHand'
    BY <1>0, <1>2, <2>1, <2>2 DEF KeyInv, KeysInHand, Ciphers, KeyTypeOK
  <2>4. OneMaker'
    BY <1>2, <2>1, <2>2, NobodyMakes DEF OneMaker, Without, Making
  <2>5. NothingStored'
    BY <2>1, <2>2 DEF KeyInv, NothingStored, Without, Ciphers
  <2>6. OneKey'
    BY <1>2, <2>1, <2>2 DEF KeyInv, OneKey, Without, Ciphers
  <2> QED BY <2>3, <2>4, <2>5, <2>6 DEF KeyInv
<1>3. CASE SaveCommits(t) /\ at[t] = "save.flush"
  <2>0. my[t].key \in Key /\ fernet # None
    BY <1>0, <1>3 DEF KeyInv, KeysInHand
  <2>1. \A q \in Session : my'[q] = my[q] /\ (q # t => at'[q] = at[q])
    BY <1>0, <1>3 DEF SaveCommits, Writes, Goto
  <2>2. UNCHANGED <<disk, keyFile, fernet, amiss>> /\ at'[t] = "save.commit"
    BY <1>0, <1>3 DEF SaveCommits, Writes, Flush, Goto, keyVars
  <2>3. db'.cred = [db.cred EXCEPT ![my[t].node] = my[t].key]
    BY <1>0, <1>3 DEF SaveCommits, Writes, Flush, Tables
  <2>4. \A n \in Node : db'.cred[n] = db.cred[n] \/ db'.cred[n] = my[t].key
    BY <1>0, <2>3 DEF Tables
  <2>5. Ciphers(db) \subseteq Ciphers(db')
    BY <2>0, <2>4 DEF Ciphers
  <2>6. KeysInHand'
    BY <2>1, <2>2, <2>5 DEF KeyInv, KeysInHand, Ciphers
  <2>7. OneMaker'
    BY <2>0, <2>1, <2>2, NobodyMakes DEF OneMaker, Without, Making
  <2>8. NothingStored'
    BY <2>0, <2>1, <2>2, NobodyMakes DEF NothingStored, Without, Making
  <2>9. OneKey'
    BY <1>0, <1>3, <2>1, <2>2, <2>4 DEF KeyInv, OneKey, Without, Ciphers
  <2> QED BY <2>6, <2>7, <2>8, <2>9 DEF KeyInv
<1>4. CASE SaveCommits(t) /\ at[t] = "save.commit"
  BY <1>4, RestIsAloof, AloofKeepsKeyInv
<1> QED BY <1>1, <1>2, <1>3, <1>4 DEF SaveCommits

LEMMA MigrateKeepsKeyInv ==
  ASSUME TInv, KeyInv, Migrates(Main) \/ MigrateLoads(Main)
  PROVE  KeyInv'
<1>0. /\ at \in [Session -> AnyStep] /\ my \in [Session -> Memory] /\ Main \in Session
      /\ db \in Tables /\ KeyTypeOK
  BY TypesAreParts DEF TInv, Session, TablesTypeOK
<1>1. CASE MigrateLoads(Main) \/ (Migrates(Main) /\ (at[Main] = "migrate.commit" \/ Plain = {}))
  BY <1>1, RestIsAloof, AloofKeepsKeyInv
<1>2. CASE Migrates(Main) /\ at[Main] = "migrate" /\ Plain # {}
  <2>1. \A q \in Session : my'[q] = my[q] /\ (q # Main => at'[q] = at[q])
    BY <1>0, <1>2 DEF Migrates, Writes, Goto
  <2>2. UNCHANGED <<disk, keyFile, fernet, amiss>> /\ at'[Main] = "migrate.commit" /\ fernet \in Key
    BY <1>0, <1>2 DEF Migrates, Writes, Flush, Goto, keyVars, KeyTypeOK
  <2>3. db'.cred = [n \in Node |-> IF n \in Plain THEN fernet ELSE db.cred[n]]
    BY <1>0, <1>2 DEF Migrates, Writes, Flush, Tables
  <2>4. \A n \in Node : db'.cred[n] = db.cred[n] \/ db'.cred[n] = fernet
    BY <2>3
  <2>5. Ciphers(db) \subseteq Ciphers(db')
    BY <2>2, <2>4 DEF Ciphers
  <2>6. KeysInHand'
    BY <2>1, <2>2, <2>5 DEF KeyInv, KeysInHand, Ciphers
  <2>7. OneMaker'
    BY <2>1, <2>2, NobodyMakes, ThreadAssumption DEF OneMaker, Without, Making
  <2>8. NothingStored'
    BY <2>1, <2>2, NobodyMakes, ThreadAssumption DEF NothingStored, Without, Making
  <2>9. OneKey'
    BY <1>2, <2>1, <2>2, <2>4, ThreadAssumption DEF KeyInv, OneKey, Without, Ciphers
  <2> QED BY <2>6, <2>7, <2>8, <2>9 DEF KeyInv
<1> QED BY <1>1, <1>2 DEF Migrates

LEMMA OutsideKeepsKeyInv ==
  ASSUME TInv, KeyInv, KeyIsLost \/ Stops \/ Crashes
  PROVE  KeyInv'
<1>1. CASE KeyIsLost
  <2>1. Without({"raced"}) => \A p \in Session : at[p] \notin Making
    BY <1>1, ThreadAssumption DEF KeyIsLost, KeyInv, OneMaker
  <2>2. "lost" \in amiss' /\ amiss \subseteq amiss' /\ UNCHANGED <<db, disk, at, my, fernet>>
    BY <1>1 DEF KeyIsLost, connVars
  <2> QED BY <2>1, <2>2 DEF KeyInv, KeysInHand, OneMaker, NothingStored, OneKey, Without, Ciphers, Making
<1>2. CASE Stops \/ Crashes
  <2>1. /\ \A p \in Session : at'[p] \notin KeyStepsToo
        /\ db' = disk /\ disk' = disk /\ fernet' = None /\ keyFile' = keyFile /\ amiss \subseteq amiss'
    BY <1>2, ThreadAssumption DEF Stops, Crashes, Exits, Reopen, KeyStepsToo, FindStep
  <2> QED BY <2>1 DEF KeyInv, KeysInHand, OneMaker, NothingStored, OneKey, Without, Ciphers, Making,
                 KeyStepsToo, FindStep
<1> QED BY <1>1, <1>2

LEMMA InitKeyInv == Init => KeyInv
<1> SUFFICES ASSUME Init PROVE KeyInv
  OBVIOUS
<1>1. Ciphers(db) = {} /\ Ciphers(disk) = {}
  BY ThreadAssumption DEF Init, DatabaseInit, Ciphers
<1>2. (\A p \in Session : at[p] \notin KeyStepsToo) /\ fernet = None /\ keyFile = None
  BY DEF Init, ThreadInit, KeyInit, KeyStepsToo, FindStep
<1> QED BY <1>1, <1>2 DEF KeyInv, KeysInHand, OneMaker, NothingStored, OneKey, Making, KeyStepsToo, FindStep

LEMMA StepKeepsKeyInv == TInv /\ KeyInv /\ [Next]_vars => KeyInv'
<1> SUFFICES ASSUME TInv, KeyInv, [Next]_vars PROVE KeyInv'
  OBVIOUS
<1>1. CASE UNCHANGED vars
  BY <1>1 DEF vars, connVars, threadVars, keyVars, KeyInv, KeysInHand, OneMaker, NothingStored, OneKey,
     Without, Ciphers
<1>2. ASSUME NEW t \in Thread, AdminStep(t) PROVE KeyInv'
  BY <1>2, JwtIsAloof, AccountIsAloof, AloofKeepsKeyInv DEF AdminStep
<1>3. ASSUME NEW t \in Thread,
             BeginRequest(t) \/ Uses(t) \/ (Close(t) /\ UNCHANGED <<adminVars, keyVars>>)
      PROVE  KeyInv'
  BY <1>3, RestIsAloof, AloofKeepsKeyInv DEF keyVars
<1>4. ASSUME NEW t \in Thread, SaveEncrypts(t) \/ SaveCommits(t) PROVE KeyInv'
  BY <1>4, SaveKeepsKeyInv
<1>5. ASSUME NEW p \in Session, GetsFernet(p) PROVE KeyInv'
  BY <1>5, FindsKeepsKeyInv, ChecksKeepsKeyInv, WritesKeepsKeyInv, SetsKeepsKeyInv DEF GetsFernet
<1>6. CASE (StartStepOf /\ UNCHANGED keyVars) \/ (OtherSessionEnds /\ UNCHANGED <<adminVars, keyVars>>)
  BY <1>6, RestIsAloof, AloofKeepsKeyInv DEF keyVars
<1>7. CASE Migrates(Main) \/ MigrateLoads(Main) \/ KeyIsLost \/ Stops \/ Crashes
  BY <1>7, MigrateKeepsKeyInv, OutsideKeepsKeyInv
<1> QED BY <1>1, <1>2, <1>3, <1>4, <1>5, <1>6, <1>7, NextSplits

(***************************************************************************)
(* Whatever the threads do and wherever the process dies, a stored         *)
(* credential can be read with the key on the disk, unless the file was    *)
(* lost or two threads made a key at once.                                 *)
(***************************************************************************)
THEOREM CredentialsStayReadable == Spec => []CredentialsAreReadable
<1>1. TInv /\ KeyInv => CredentialsAreReadable
  BY DEF KeyInv, OneKey, CredentialsAreReadable, Without
<1> QED BY <1>1, InitTInv, StepKeepsTInv, InitKeyInv, StepKeepsKeyInv, PTL DEF Spec

LEMMA OnlyAMakerWritesAKey ==
  ASSUME TInv, KeyInv, [Next]_vars
  PROVE  Without({"unread", "raced"}) /\ keyFile' \in Key \ {keyFile} => Ciphers(disk) = {}
<1> SUFFICES ASSUME Without({"unread", "raced"}), keyFile' \in Key, keyFile' # keyFile
             PROVE  Ciphers(disk) = {}
  OBVIOUS
<1>1. PICK p \in Session : KeyWrites(p) /\ at[p] = "key.write"
  <2>1. \A p \in Session : GetsFernet(p) => (KeyWrites(p) /\ at[p] = "key.write")
    BY ThreadAssumption DEF GetsFernet, KeyFinds, KeyChecks, KeySets, KeyWrites, keyVars
  <2>2. ~ KeyIsLost /\ ~ UNCHANGED keyVars /\ ~ UNCHANGED vars /\ keyFile' # keyFile
    BY ThreadAssumption DEF KeyIsLost, keyVars, vars
  <2> QED BY <2>1, <2>2, NextSplits
          DEF AdminStep, BeginRequest, SaveEncrypts, SaveCommits, Uses, NeedsFernet, Migrates, MigrateLoads,
              Stops, Crashes, Exits, keyVars
<1> QED BY <1>1 DEF KeyInv, KeysInHand, NothingStored, Without

(***************************************************************************)
(* crypto.py: a key is only ever written over an absent or torn file when  *)
(* no stored credential needs another one, also after the file was lost.   *)
(***************************************************************************)
THEOREM LostKeyIsNeverReplaced == Spec => LostKeyIsNotReplaced
<1>1. TInv /\ KeyInv /\ [Next]_vars =>
        [Without({"unread", "raced"}) /\ keyFile' \in Key \ {keyFile} => Ciphers(disk) = {}]_vars
  BY OnlyAMakerWritesAKey
<1> QED
  BY <1>1, InitTInv, StepKeepsTInv, InitKeyInv, StepKeepsKeyInv, PTL DEF Spec, LostKeyIsNotReplaced

=============================================================================
