-------------------------- MODULE SogaStoreProofs --------------------------
(***************************************************************************)
(* What is proved of SogaStore for any number of requests, folders and     *)
(* landing nodes: the scan lock, that no table ever refers to a row that   *)
(* does not exist, one instance per folder, one fallback route per         *)
(* instance, and that a request which has the database to itself never     *)
(* fails and stores what was asked for.                                    *)
(***************************************************************************)
EXTENDS SogaStore, FiniteSetTheorems, WellFoundedInduction, TLAPS

-----------------------------------------------------------------------------
(* The scan lock.                                                          *)

LockInv ==
  /\ at \in [Request -> Step \cup {"idle", "done"}]
  /\ lock \in Request \cup {None}
  /\ LockFollowsScan

LEMMA StepsAreDisjoint ==
  /\ \A s \in ScanStep : s \notin SaveStep \cup PurgeStep \cup RemoveStep \cup {"failed", "close"}
  /\ \A s \in SaveStep \cup PurgeStep \cup RemoveStep : s # "failed"
  /\ {"idle", "done", "close", "failed"} \cap ScanStep = {}
BY DEF ScanStep, SaveStep, PurgeStep, RemoveStep

\* A step of r that leaves the lock alone and neither enters nor leaves a scan.
LEMMA OtherSteps ==
  ASSUME LockInv, NEW r \in Request, NEW s \in (Step \ ScanStep) \cup {"idle", "done"},
         at' = [at EXCEPT ![r] = s], UNCHANGED lock, lock # r
  PROVE  LockInv'
BY StoreAssumption, StepsAreDisjoint DEF LockInv, LockFollowsScan

\* A step of the scan that holds the lock, which it keeps.
LEMMA ScanSteps ==
  ASSUME LockInv, NEW r \in Request, NEW s \in ScanStep \cup {"failed"},
         at' = [at EXCEPT ![r] = s], UNCHANGED lock, at[r] \in ScanStep
  PROVE  LockInv'
BY StoreAssumption DEF LockInv, LockFollowsScan, Step

\* A step of the scan that gives the lock back.
LEMMA LastSteps ==
  ASSUME LockInv, NEW r \in Request, lock = r,
         at' = [at EXCEPT ![r] = "close"], lock' = None
  PROVE  LockInv'
BY StoreAssumption, StepsAreDisjoint DEF LockInv, LockFollowsScan, Step

\* Whoever is not at a step of a scan, and has not failed in one, has no lock.
LEMMA NotScanning ==
  ASSUME LockInv, NEW r \in Request, at[r] \notin ScanStep \cup {"failed"}
  PROVE  lock # r
BY StoreAssumption DEF LockInv, LockFollowsScan

LEMMA SaveKeepsLock ==
  ASSUME LockInv, NEW r \in Request, Save(r)
  PROVE  LockInv'
<1>1. /\ UNCHANGED lock
      /\ at[r] \in SaveStep \cup {"idle"}
      /\ \E s \in SaveStep \cup {"failed", "close"} : at' = [at EXCEPT ![r] = s]
  BY DEF Save, BeginSave, SaveDeletesOuts, SaveDeletesRoutes, SaveInserts, SaveInsertsLastOuts,
         SaveCommits, Begins, Statement, Fails, Commits, Go, SaveStep
<1>2. lock # r
  BY <1>1, NotScanning, StepsAreDisjoint
<1> QED BY <1>1, <1>2, OtherSteps, StepsAreDisjoint DEF Step

LEMMA PurgeKeepsLock ==
  ASSUME LockInv, NEW r \in Request, Purge(r)
  PROVE  LockInv'
<1>1. /\ UNCHANGED lock
      /\ at[r] \in PurgeStep \cup {"idle"}
      /\ \E s \in PurgeStep \cup {"failed", "close"} : at' = [at EXCEPT ![r] = s]
  BY DEF Purge, BeginPurge, PurgeDeletes, PurgeCommits, Begins, Statement, Fails, Commits, Go,
         PurgeStep
<1>2. lock # r
  BY <1>1, NotScanning, StepsAreDisjoint
<1> QED BY <1>1, <1>2, OtherSteps, StepsAreDisjoint DEF Step

LEMMA RemoveKeepsLock ==
  ASSUME LockInv, NEW r \in Request, Remove(r)
  PROVE  LockInv'
<1>1. /\ UNCHANGED lock
      /\ at[r] \in RemoveStep \cup {"idle"}
      /\ \E s \in RemoveStep \cup {"failed", "close"} : at' = [at EXCEPT ![r] = s]
  BY DEF Remove, BeginRemove, RemoveReads, RemoveDeletes, RemoveCommits, Begins, Statement,
         Fails, Commits, Go, RemoveStep
<1>2. lock # r
  BY <1>1, NotScanning, StepsAreDisjoint
<1> QED BY <1>1, <1>2, OtherSteps, StepsAreDisjoint DEF Step

LEMMA ScanKeepsLock ==
  ASSUME LockInv, NEW r \in Request, Scan(r)
  PROVE  LockInv'
<1>1. CASE BeginScan(r)
  BY <1>1, StoreAssumption, StepsAreDisjoint
     DEF BeginScan, Begins, Go, LockInv, LockFollowsScan, Step, ScanStep
<1>2. CASE ScanReturns(r)
  <2>1. lock = r
    BY <1>2 DEF ScanReturns, LockInv, LockFollowsScan, ScanStep
  <2> QED BY <1>2, <2>1, LastSteps DEF ScanReturns, Go
<1>3. CASE ScanUnwinds(r)
  <2>1. lock = r
    BY <1>3 DEF ScanUnwinds, LockInv, LockFollowsScan, ScanStep
  <2> QED BY <1>3, <2>1, LastSteps DEF ScanUnwinds, Go
<1>4. CASE ~ (BeginScan(r) \/ ScanReturns(r) \/ ScanUnwinds(r))
  <2>1. /\ UNCHANGED lock
        /\ at[r] \in ScanStep
        /\ \E s \in ScanStep \cup {"failed"} : at' = [at EXCEPT ![r] = s]
    BY <1>4 DEF Scan, ScanError, ScanReads, ScanInserts, ScanUpdates, ScanCommits, ScanRefreshes,
         ScanFindsGone, ScanDisables, ScanEnds, Takes, AfterFolder, Statement, Fails, Commits,
         Go, ScanStep
  <2> QED BY <2>1, ScanSteps
<1> QED BY <1>1, <1>2, <1>3, <1>4

LEMMA LockStep ==
  ASSUME LockInv, [Next]_vars
  PROVE  LockInv'
<1>1. ASSUME NEW r \in Request, Close(r) PROVE LockInv'
  <2>1. lock # r
    BY <1>1, NotScanning, StepsAreDisjoint DEF Close
  <2> QED BY <1>1, <2>1, OtherSteps DEF Close, Go
<1>2. CASE OtherSessionEnds
  BY <1>2 DEF OtherSessionEnds, LockInv, LockFollowsScan
<1>3. CASE PanelCrash
  BY <1>3, StoreAssumption, StepsAreDisjoint
     DEF PanelCrash, LockInv, LockFollowsScan, Active, Step
<1>4. CASE UNCHANGED vars
  BY <1>4 DEF vars, LockInv, LockFollowsScan
<1> QED
  BY <1>1, <1>2, <1>3, <1>4, SaveKeepsLock, ScanKeepsLock, PurgeKeepsLock, RemoveKeepsLock
     DEF Next

(***************************************************************************)
(* The scan lock is held by the request that scans and by no other.        *)
(***************************************************************************)
THEOREM LockHeldByScan == Spec => []LockFollowsScan
<1>1. Init => LockInv
  BY StoreAssumption, StepsAreDisjoint DEF Init, LockInv, LockFollowsScan
<1>2. LockInv /\ [Next]_vars => LockInv'
  BY LockStep
<1>3. LockInv => LockFollowsScan
  BY DEF LockInv
<1> QED BY <1>1, <1>2, <1>3, PTL DEF Spec

-----------------------------------------------------------------------------
(* One instance per folder.                                                *)

\* What a statement changes of the tables.
LEMMA Tables4 ==
  ASSUME NEW t, Shaped(t), NEW X
  PROVE  /\ [t EXCEPT !.nodes = X]  = [nodes |-> X, insts |-> t.insts, routes |-> t.routes, outs |-> t.outs]
         /\ [t EXCEPT !.insts = X]  = [nodes |-> t.nodes, insts |-> X, routes |-> t.routes, outs |-> t.outs]
         /\ [t EXCEPT !.routes = X] = [nodes |-> t.nodes, insts |-> t.insts, routes |-> X, outs |-> t.outs]
         /\ [t EXCEPT !.outs = X]   = [nodes |-> t.nodes, insts |-> t.insts, routes |-> t.routes, outs |-> X]
BY DEF Shaped

\* What a step of r leaves alone, at least for the other requests.
Others(r) == \A q \in Request \ {r} :
  id'[q] = id[q] /\ left'[q] = left[q] /\ rows'[q] = rows[q]

Mappings == PerRequest(id) /\ PerRequest(left) /\ PerRequest(rows)

Reading == {"scan.folder", "scan.commit", "scan.refresh"}

\* A step of r, not one of a scan between its read and its last folder, that
\* changes neither which folders there are nor what r has deleted.
LEMMA KeepsFolders ==
  ASSUME FolderInv, NEW r \in Request, NEW s, PerRequest(at), at' = [at EXCEPT ![r] = s],
         Others(r), Mappings', UNCHANGED <<torn, disk>>,
         Shaped(db'), Refers(db'), Folders(db') = Folders(db),
         db.insts = {} => db'.insts = {}, Unique(db) => Unique(db'),
         dirty' \in {dirty, dirty \cup {r}},
         r \in dirty' => s \in Step \ Clean,
         at[r] = "scan.commit" => r \notin dirty,
         r \in dirty /\ HasDeleted(r) => HasDeleted(r)',
         UnseenAreKnown /\ s \in Reading => left'[r] \cap Folders(db') \subseteq {x.folder : x \in rows'[r]}
  PROVE  FolderInv'
<1> USE DEF PerRequest
<1>1. \A q \in Request \ {r} : at'[q] = at[q]
  OBVIOUS
<1>2. \A q \in dirty : q \in dirty' /\ q \in Request
  BY DEF FolderInv
<1>3. ScanIsDirty => ScanIsDirty'
  BY <1>1, <1>2 DEF ScanIsDirty
<1>4. \A q \in dirty \ {r} : HasDeleted(q) => HasDeleted(q)'
  BY <1>1, <1>2, <1>3 DEF HasDeleted, Others
<1>5. DeletedByOpen => DeletedByOpen'
  BY <1>2, <1>4 DEF DeletedByOpen, Folders
<1>6. UnseenAreKnown => UnseenAreKnown'
  <2> SUFFICES ASSUME UnseenAreKnown, NEW q \in Request, at'[q] \in Reading
               PROVE  left'[q] \cap Folders(db') \subseteq {x.folder : x \in rows'[q]}
    BY DEF UnseenAreKnown, Reading, Folders
  <2>1. CASE q = r
    BY <2>1
  <2>2. CASE q # r
    BY <2>2, <1>1 DEF UnseenAreKnown, Reading, Others
  <2> QED BY <2>1, <2>2
<1>7. \A q \in dirty' : q \in Request /\ at'[q] \in Step \ Clean
  BY <1>1 DEF FolderInv
<1> QED
  BY <1>5, <1>6, <1>7 DEF FolderInv, Mappings, Shaped, Refers, Unique, Ids

\* A DELETE of instances, by a request that then only has to commit or has
\* deleted them all.
LEMMA DeletesFolders ==
  ASSUME FolderInv, NEW r \in Request, NEW s, PerRequest(at), at' = [at EXCEPT ![r] = s],
         Others(r), Mappings', UNCHANGED <<torn, disk>>,
         Shaped(db'), Refers(db'), db'.insts \subseteq db.insts,
         dirty' = dirty \cup {r}, s \in Step \ (Clean \cup Reading),
         HasDeleted(r)'
  PROVE  FolderInv'
<1> USE DEF PerRequest
<1>1. \A q \in Request \ {r} : at'[q] = at[q]
  OBVIOUS
<1>2. Folders(db') \subseteq Folders(db)
  BY DEF Folders
<1>3. UnseenAreKnown => UnseenAreKnown'
  <2> SUFFICES ASSUME UnseenAreKnown, NEW q \in Request, at'[q] \in Reading
               PROVE  left'[q] \cap Folders(db') \subseteq {x.folder : x \in rows'[q]}
    BY DEF UnseenAreKnown, Reading, Folders
  <2>1. q # r
    OBVIOUS
  <2> QED BY <2>1, <1>1, <1>2 DEF UnseenAreKnown, Reading, Others
<1>4. DeletedByOpen'
  BY DEF DeletedByOpen
<1>5. \A q \in dirty' : q \in Request /\ at'[q] \in Step \ Clean
  BY <1>1 DEF FolderInv
<1>6. Unique(db) => Unique(db')
  BY DEF Unique
<1> QED
  BY <1>3, <1>4, <1>5, <1>6 DEF FolderInv, Mappings, Shaped, Refers, Unique, Ids

\* The commit of any session.
LEMMA CommitKeepsFolders ==
  ASSUME FolderInv, CommitAll, Mappings', UnseenAreKnown => UnseenAreKnown'
  PROVE  FolderInv'
<1>1. DeletedByOpen'
  BY DEF CommitAll, DeletedByOpen, Folders
<1> QED
  BY <1>1 DEF FolderInv, CommitAll, Mappings, Shaped, Refers, Unique, Ids

(***************************************************************************)
(* A rollback by s, a session that is about to end.  If nothing of another *)
(* session is discarded then s is the only dirty one, and it has not       *)
(* deleted anything: so no folder comes back.                              *)
(***************************************************************************)
LEMMA RollbackKeepsFolders ==
  ASSUME FolderInv, NEW s, RollbackAll(s), Mappings',
         s \in dirty => at[s] \in {"failed"} \cup Clean,
         UnseenAreKnown /\ Folders(db') \subseteq Folders(db) => UnseenAreKnown'
  PROVE  FolderInv'
<1>1. ~ torn' => Folders(disk) \subseteq Folders(db)
  <2> SUFFICES ASSUME ~ torn', ~ Folders(disk) \subseteq Folders(db) PROVE FALSE
    OBVIOUS
  <2>1. PICK q \in dirty : HasDeleted(q)
    BY DEF FolderInv, DeletedByOpen, RollbackAll
  <2>2. dirty \subseteq {s}
    BY DEF RollbackAll
  <2>3. \A x \in dirty : at[x] # "scan.commit"
    BY <2>2 DEF Clean
  <2> QED BY <2>1, <2>2, <2>3 DEF HasDeleted, ScanIsDirty, Clean
<1>2. DeletedByOpen'
  BY DEF RollbackAll, DeletedByOpen, Folders
<1> QED
  BY <1>1, <1>2 DEF FolderInv, RollbackAll, Mappings, Shaped, Refers, Unique, Ids, Folders

LEMMA UnseenStep ==
  ASSUME UnseenAreKnown, NEW r \in Request, NEW s, PerRequest(at), at' = [at EXCEPT ![r] = s],
         UNCHANGED <<left, rows>>, Folders(db') \subseteq Folders(db),
         s \in Reading => at[r] \in Reading
  PROVE  UnseenAreKnown'
BY DEF UnseenAreKnown, Reading, PerRequest, Folders

\* A statement that leaves the instances alone.
LEMMA StatementKeepsFolders ==
  ASSUME FolderInv, PerRequest(at), NEW r \in Request, NEW t, NEW next, Statement(r, t, next),
         Shaped(t), t.insts = db.insts, Others(r), Mappings',
         next \in Step \ (Clean \cup Reading), at[r] # "scan.commit", ~ HasDeleted(r)
  PROVE  FolderInv'
<1>1. ASSUME NEW s \in {next, "failed"}, at' = [at EXCEPT ![r] = s], UNCHANGED <<torn, disk>>,
             Shaped(db'), Refers(db'), db'.insts = db.insts, dirty' \in {dirty, dirty \cup {r}}
      PROVE  FolderInv'
  <2>1. s \in Step \ Clean /\ s \notin Reading
    BY <1>1 DEF Step, Clean, Reading
  <2>2. Folders(db') = Folders(db) /\ (db.insts = {} => db'.insts = {}) /\ (Unique(db) => Unique(db'))
    BY <1>1 DEF Folders, Unique
  <2> QED BY <1>1, <2>1, <2>2, KeepsFolders DEF FolderInv
<1>2. CASE ForeignKeysHold(t) /\ Flush(r, t) /\ Go(r, next)
  BY <1>1, <1>2 DEF Flush, Go, ForeignKeysHold
<1>3. CASE Fails(r)
  BY <1>1, <1>3 DEF Fails, Go, connVars, FolderInv
<1> QED BY <1>2, <1>3 DEF Statement

\* A step that touches no table.
LEMMA QuietKeepsFolders ==
  ASSUME FolderInv, PerRequest(at), NEW r \in Request, NEW s, Go(r, s), UNCHANGED connVars,
         Others(r), Mappings', r \in dirty => s \in Step \ Clean,
         at[r] # "scan.commit", ~ HasDeleted(r) \/ r \notin dirty,
         UnseenAreKnown /\ s \in Reading =>
           left'[r] \cap Folders(db) \subseteq {x.folder : x \in rows'[r]}
  PROVE  FolderInv'
BY KeepsFolders, Zenon DEF Go, connVars, FolderInv, Folders, Shaped, Refers, Unique

LEMMA WithOutsKeepsShape ==
  ASSUME NEW r, NEW t, Shaped(t)
  PROVE  Shaped(WithOuts(r, t)) /\ WithOuts(r, t).insts = t.insts
BY Tables4 DEF WithOuts, Shaped

\* Where a request stands that is not deleting or reading.
LEMMA NotDeleting ==
  ASSUME NEW r, at[r] \in SaveStep \cup {"idle", "purge.outs", "purge.routes", "purge.instance",
                                        "remove.read", "remove.outs", "remove.routes",
                                        "remove.instances"} \cup (ScanStep \ {"scan.commit"})
  PROVE  ~ HasDeleted(r) /\ at[r] # "scan.commit"
BY DEF HasDeleted, SaveStep, ScanStep

LEMMA Untouched ==
  ASSUME FolderInv, NEW r \in Request, UNCHANGED <<id, left, rows>>
  PROVE  Others(r) /\ Mappings'
BY DEF Others, Mappings, FolderInv, PerRequest

\* A request that begins has no statement in the database.
LEMMA BeginKeepsFolders ==
  ASSUME FolderInv, PerRequest(at), NEW r \in Request, NEW s \in Step \ Reading, Begins(r, s),
         Others(r), Mappings'
  PROVE  FolderInv'
<1>1. r \notin dirty
  BY DEF Begins, FolderInv, Step, SaveStep, ScanStep, PurgeStep, RemoveStep
<1> QED BY <1>1, NotDeleting, QuietKeepsFolders DEF Begins

LEMMA SaveKeepsFolders ==
  ASSUME FolderInv, PerRequest(at), NEW r \in Request, Save(r)
  PROVE  FolderInv'
<1> USE DEF FolderInv
<1>1. CASE BeginSave(r)
  <2>1. Others(r) /\ Mappings'
    BY <1>1 DEF BeginSave, Others, Mappings, PerRequest
  <2>2. Begins(r, "save.outs")
    BY <1>1 DEF BeginSave
  <2>3. "save.outs" \in Step \ Reading
    BY DEF Step, SaveStep, Reading
  <2> QED BY <2>1, <2>2, <2>3, BeginKeepsFolders
<1>2. ASSUME NEW t, NEW next \in {"save.routes", "save.insert", "save.last", "save.commit"},
             Statement(r, t, next), Shaped(t), t.insts = db.insts, at[r] \in SaveStep,
             UNCHANGED <<id, left, rows>>
      PROVE  FolderInv'
  <2>1. next \in Step \ (Clean \cup Reading)
    BY DEF Step, SaveStep, Clean, Reading
  <2> QED BY <1>2, <2>1, Untouched, NotDeleting, StatementKeepsFolders
<1>3. CASE SaveDeletesOuts(r)
  BY <1>3, <1>2, Tables4 DEF SaveDeletesOuts, reqVars, Shaped, SaveStep
<1>4. CASE SaveDeletesRoutes(r)
  BY <1>4, <1>2, Tables4 DEF SaveDeletesRoutes, reqVars, Shaped, SaveStep
<1>5. CASE SaveInserts(r)
  <2> DEFINE new == [id |-> NewId(db.routes), inst |-> id[r], pos |-> pos[r],
                     fallback |-> pos[r] = Len(list[r])]
             base == [db EXCEPT !.routes = @ \cup {new}]
             t == WithOuts(r, base)
             next == IF pos[r] = Len(list[r]) THEN "save.last" ELSE "save.insert"
  <2>1. Statement(r, t, next) \/ Fails(r)
    BY <1>5 DEF SaveInserts
  <2>2. Shaped(t) /\ t.insts = db.insts
    <3> HIDE DEF new
    <3>1. base = [nodes |-> db.nodes, insts |-> db.insts, routes |-> db.routes \cup {new},
                  outs |-> db.outs]
      BY Tables4
    <3>2. Shaped(base) /\ base.insts = db.insts
      BY <3>1 DEF Shaped
    <3> HIDE DEF base
    <3> QED BY <3>2, WithOutsKeepsShape
  <2>3. at[r] \in SaveStep /\ UNCHANGED <<id, left, rows>>
    BY <1>5 DEF SaveInserts, SaveStep
  <2>4. CASE Fails(r)
    <3>1. "failed" \in Step \ Clean /\ "failed" \notin Reading
      BY DEF Step, Clean, Reading
    <3> QED BY <2>3, <2>4, <3>1, Untouched, NotDeleting, QuietKeepsFolders DEF Fails
  <2>5. CASE Statement(r, t, next)
    <3> HIDE DEF t
    <3> QED BY <1>2, <2>2, <2>3, <2>5
  <2> QED BY <2>1, <2>4, <2>5
<1>6. CASE SaveInsertsLastOuts(r)
  BY <1>6, <1>2, WithOutsKeepsShape DEF SaveInsertsLastOuts, reqVars, SaveStep
<1>7. CASE SaveCommits(r)
  <2>1. UnseenAreKnown => UnseenAreKnown'
    BY <1>7, UnseenStep DEF SaveCommits, Commits, CommitAll, Go, reqVars, Reading
  <2> QED BY <1>7, <2>1, Untouched, CommitKeepsFolders DEF SaveCommits, Commits, reqVars
<1> QED BY <1>1, <1>3, <1>4, <1>5, <1>6, <1>7 DEF Save

LEMMA PurgeKeepsFolders ==
  ASSUME FolderInv, PerRequest(at), NEW r \in Request, Purge(r)
  PROVE  FolderInv'
<1> USE DEF FolderInv
<1>1. CASE BeginPurge(r)
  <2>1. Others(r) /\ Mappings'
    BY <1>1 DEF BeginPurge, Others, Mappings, PerRequest
  <2>2. Begins(r, "purge.outs")
    BY <1>1 DEF BeginPurge
  <2>3. "purge.outs" \in Step \ Reading
    BY DEF Step, PurgeStep, Reading
  <2> QED BY <2>1, <2>2, <2>3, BeginKeepsFolders
<1>2. ASSUME NEW t, NEW next \in {"purge.routes", "purge.instance"},
             Statement(r, t, next), Shaped(t), t.insts = db.insts,
             at[r] \in {"purge.outs", "purge.routes"}, UNCHANGED <<id, left, rows>>
      PROVE  FolderInv'
  <2>1. next \in Step \ (Clean \cup Reading)
    BY DEF Step, PurgeStep, Clean, Reading
  <2> QED BY <1>2, <2>1, Untouched, NotDeleting, StatementKeepsFolders
<1>3. CASE PurgeDeletes(r)
  <2>1. UNCHANGED <<id, left, rows>>
    BY <1>3 DEF PurgeDeletes, reqVars
  <2>2. CASE at[r] \in {"purge.outs", "purge.routes"}
    BY <1>3, <2>1, <2>2, <1>2, Tables4 DEF PurgeDeletes, Shaped
  <2>3. CASE at[r] = "purge.instance"
    <3> DEFINE X == {x \in db.insts : x.id # id[r]}
               t == [db EXCEPT !.insts = X]
    <3>1. Statement(r, t, "purge.commit")
      BY <1>3, <2>3 DEF PurgeDeletes
    <3>2. Shaped(t) /\ t.insts \subseteq db.insts
      BY Tables4 DEF Shaped
    <3> HIDE DEF t
    <3>3. CASE Fails(r)
      <4>1. "failed" \in Step \ Clean /\ "failed" \notin Reading
        BY DEF Step, Clean, Reading
      <4> QED BY <2>1, <2>3, <3>3, <4>1, Untouched, NotDeleting, QuietKeepsFolders DEF Fails
    <3>4. CASE Refers(t) /\ Flush(r, t) /\ Go(r, "purge.commit")
      <4>1. "purge.commit" \in Step \ (Clean \cup Reading) /\ at'[r] = "purge.commit"
        BY <3>4 DEF Step, PurgeStep, Clean, Reading, Go, PerRequest
      <4> QED BY <2>1, <3>2, <3>4, <4>1, Untouched, DeletesFolders DEF Flush, Go, HasDeleted
    <3> QED BY <3>1, <3>3, <3>4 DEF Statement, ForeignKeysHold
  <2> QED BY <1>3, <2>2, <2>3 DEF PurgeDeletes
<1>4. CASE PurgeCommits(r)
  <2>1. UnseenAreKnown => UnseenAreKnown'
    BY <1>4, UnseenStep DEF PurgeCommits, Commits, CommitAll, Go, reqVars, Reading
  <2> QED BY <1>4, <2>1, Untouched, CommitKeepsFolders DEF PurgeCommits, Commits, reqVars
<1> QED BY <1>1, <1>3, <1>4 DEF Purge

LEMMA RemoveKeepsFolders ==
  ASSUME FolderInv, EntryRemoves, PerRequest(at), NEW r \in Request, Remove(r)
  PROVE  FolderInv'
<1> USE DEF FolderInv
<1>1. CASE BeginRemove(r)
  <2>1. Others(r) /\ Mappings'
    BY <1>1 DEF BeginRemove, Others, Mappings, PerRequest
  <2>2. Begins(r, "remove.read")
    BY <1>1 DEF BeginRemove
  <2>3. "remove.read" \in Step \ Reading
    BY DEF Step, RemoveStep, Reading
  <2> QED BY <2>1, <2>2, <2>3, BeginKeepsFolders
<1>2. CASE RemoveReads(r)
  <2>1. PICK s \in {"remove.outs", "remove.landing"} : Go(r, s)
    BY <1>2 DEF RemoveReads
  <2>2. s \in Step \ Clean /\ s \notin Reading
    BY DEF Step, RemoveStep, Clean, Reading
  <2> QED BY <1>2, <2>1, <2>2, Untouched, NotDeleting, QuietKeepsFolders DEF RemoveReads, reqVars
<1>3. CASE RemoveDeletes(r)
  <2>1. UNCHANGED <<id, left, rows>>
    BY <1>3 DEF RemoveDeletes, reqVars
  <2>2. ASSUME NEW t, NEW next \in {"remove.routes", "remove.instances"},
               Statement(r, t, next), Shaped(t), t.insts = db.insts,
               at[r] \in {"remove.outs", "remove.routes"}
        PROVE  FolderInv'
    <3>1. next \in Step \ (Clean \cup Reading)
      BY DEF Step, RemoveStep, Clean, Reading
    <3> QED BY <2>1, <2>2, <3>1, Untouched, NotDeleting, StatementKeepsFolders
  <2>3. CASE at[r] \in {"remove.outs", "remove.routes"}
    BY <1>3, <2>2, <2>3, Tables4 DEF RemoveDeletes, Shaped
  <2>4. CASE at[r] = "remove.instances"
    <3> DEFINE t == [db EXCEPT !.insts = {}]
    <3>1. Statement(r, t, "remove.landing")
      BY <1>3, <2>4 DEF RemoveDeletes
    <3>2. Shaped(t) /\ t.insts = {}
      BY Tables4 DEF Shaped
    <3> HIDE DEF t
    <3>3. CASE Fails(r)
      <4>1. "failed" \in Step \ Clean /\ "failed" \notin Reading
        BY DEF Step, Clean, Reading
      <4> QED BY <2>1, <2>4, <3>3, <4>1, Untouched, NotDeleting, QuietKeepsFolders DEF Fails
    <3>4. CASE Refers(t) /\ Flush(r, t) /\ Go(r, "remove.landing")
      <4>1. "remove.landing" \in Step \ (Clean \cup Reading) /\ at'[r] = "remove.landing"
        BY <3>4 DEF Step, RemoveStep, Clean, Reading, Go, PerRequest
      <4>2. id'[r] = Entry
        BY <2>1, <2>4 DEF EntryRemoves
      <4> QED
        BY <2>1, <3>2, <3>4, <4>1, <4>2, Untouched, DeletesFolders DEF Flush, Go, HasDeleted
    <3> QED BY <3>1, <3>3, <3>4 DEF Statement, ForeignKeysHold
  <2>5. ASSUME NEW t, NEW s \in {"remove.node", "remove.commit"}, Shaped(t), Refers(t),
               t.insts = db.insts, Flush(r, t), Go(r, s), at[r] # "scan.commit",
               HasDeleted(r) => at[r] \in {"remove.landing", "remove.node"}
        PROVE  FolderInv'
    <3>1. s \in Step \ Clean /\ s \notin Reading
      BY DEF Step, RemoveStep, Clean, Reading
    <3>2. at'[r] = s /\ \A q \in dirty \ {r} : at'[q] = at[q]
      BY <2>5 DEF Go, PerRequest
    <3>3. ScanIsDirty => ScanIsDirty'
      BY <2>5, <3>2 DEF ScanIsDirty, Flush
    <3>4. HasDeleted(r) => HasDeleted(r)'
      BY <2>1, <2>5, <3>2, <3>3 DEF HasDeleted, Flush
    <3>5. Folders(db') = Folders(db) /\ (db.insts = {} => db'.insts = {})
          /\ (Unique(db) => Unique(db'))
      BY <2>5 DEF Folders, Unique, Flush
    <3> QED BY <2>1, <2>5, <3>1, <3>4, <3>5, Untouched, KeepsFolders DEF Flush, Go
  <2>6. CASE at[r] = "remove.landing"
    <3> DEFINE X == {o \in db.outs : o.landing # id[r]}
               t == [db EXCEPT !.outs = X]
    <3>1. Statement(r, t, "remove.node")
      BY <1>3, <2>6 DEF RemoveDeletes
    <3>2. t = [nodes |-> db.nodes, insts |-> db.insts, routes |-> db.routes, outs |-> X]
      BY Tables4
    <3>3. Shaped(t) /\ t.insts = db.insts
      BY <3>2 DEF Shaped
    <3>4. Refers(t)
      BY <3>2 DEF Refers, Ids
    <3> HIDE DEF t
    <3> QED BY <2>5, <2>6, <3>1, <3>3, <3>4 DEF Statement, ForeignKeysHold
  <2>7. CASE at[r] = "remove.node"
    <3> DEFINE t == [db EXCEPT !.nodes = @ \ {id[r]}]
    <3>1. Statement(r, t, "remove.commit")
      BY <1>3, <2>7 DEF RemoveDeletes
    <3>2. t = [nodes |-> db.nodes \ {id[r]}, insts |-> db.insts, routes |-> db.routes,
               outs |-> db.outs]
      BY Tables4
    <3>3. Shaped(t) /\ t.insts = db.insts
      BY <3>2 DEF Shaped
    <3>4. db.insts = {} => Refers(t) \/ id[r] # Entry
      BY <3>2 DEF Refers, Ids
    <3> HIDE DEF t
    <3>5. CASE Refers(t) /\ Flush(r, t) /\ Go(r, "remove.commit")
      BY <2>5, <2>7, <3>3, <3>5
    <3>6. CASE ~ Refers(t) /\ Fails(r)
      <4>1. "failed" \in Step \ Clean /\ "failed" \notin Reading
        BY DEF Step, Clean, Reading
      <4>2. at'[r] = "failed" /\ \A q \in dirty \ {r} : at'[q] = at[q]
        BY <3>6 DEF Fails, Go, PerRequest
      <4>3. HasDeleted(r) => HasDeleted(r)'
        BY <2>7, <3>4, <3>6, <4>2 DEF HasDeleted, ScanIsDirty, Fails, connVars
      <4> QED
        BY <2>1, <2>7, <3>6, <4>1, <4>3, Untouched, KeepsFolders
           DEF Fails, Go, connVars, Folders, Unique
    <3> QED BY <3>1, <3>5, <3>6 DEF Statement, ForeignKeysHold
  <2> QED BY <1>3, <2>3, <2>4, <2>6, <2>7 DEF RemoveDeletes
<1>4. CASE RemoveCommits(r)
  <2>1. UnseenAreKnown => UnseenAreKnown'
    BY <1>4, UnseenStep DEF RemoveCommits, Commits, CommitAll, Go, reqVars, Reading
  <2> QED BY <1>4, <2>1, Untouched, CommitKeepsFolders DEF RemoveCommits, Commits, reqVars
<1> QED BY <1>1, <1>2, <1>3, <1>4 DEF Remove

\* The scan's INSERT: its folder had no instance, because the scan would have
\* read it.
LEMMA InsertKeepsFolders ==
  ASSUME FolderInv, LockInv, PerRequest(at), NEW r \in Request, NEW f \in left[r], NEW i,
         at[r] = "scan.folder", Go(r, "scan.commit"), \A x \in rows[r] : x.folder # f,
         Refers(db'), Shaped(db'), db'.insts = db.insts \cup {Row(i, f, TRUE)},
         dirty' = dirty \cup {r}, UNCHANGED <<torn, disk, id, rows>>,
         left' = [left EXCEPT ![r] = @ \ {f}]
  PROVE  FolderInv'
<1>1. Folders(db') = Folders(db) \cup {f}
  <2> DEFINE new == Row(i, f, TRUE)
  <2>1. new.folder = f
    BY DEF Row
  <2> HIDE DEF new
  <2>2. db'.insts = db.insts \cup {new}
    BY DEF new
  <2> QED BY <2>1, <2>2 DEF Folders
<1>2. at'[r] = "scan.commit" /\ \A q \in Request \ {r} : at'[q] = at[q]
  BY DEF Go, PerRequest
<1>3. left'[r] = left[r] \ {f} /\ \A q \in Request \ {r} : left'[q] = left[q]
  BY DEF FolderInv, PerRequest
<1>4. \A q \in Request \ {r} : at[q] \notin Reading
  BY DEF LockInv, LockFollowsScan, ScanStep, Reading
<1>5. ScanIsDirty'
  BY <1>2 DEF ScanIsDirty
<1>6. \A q \in dirty : HasDeleted(q) => HasDeleted(q)'
  <2> SUFFICES ASSUME NEW q \in dirty, HasDeleted(q) PROVE HasDeleted(q)'
    OBVIOUS
  <2>1. q # r /\ q \in Request
    BY DEF HasDeleted, FolderInv
  <2> QED BY <2>1, <1>2, <1>5 DEF HasDeleted
<1>7. DeletedByOpen => DeletedByOpen'
  BY <1>1, <1>6 DEF DeletedByOpen, Folders
<1>8. UnseenAreKnown => UnseenAreKnown'
  <2> SUFFICES ASSUME UnseenAreKnown, NEW q \in Request, at'[q] \in Reading
               PROVE  left'[q] \cap Folders(db') \subseteq {x.folder : x \in rows'[q]}
    BY DEF UnseenAreKnown, Reading, Folders
  <2>1. q = r
    BY <1>2, <1>4
  <2> QED BY <2>1, <1>1, <1>3 DEF UnseenAreKnown
<1>9. Unique(db) /\ UnseenAreKnown => Unique(db')
  <2> SUFFICES ASSUME Unique(db), UnseenAreKnown PROVE Unique(db')
    OBVIOUS
  <2>1. f \notin Folders(db)
    BY DEF UnseenAreKnown
  <2>2. \A x \in db.insts : x.folder # f
    BY <2>1 DEF Folders
  <2>3. Row(i, f, TRUE).folder = f
    BY DEF Row
  <2> QED BY <2>2, <2>3 DEF Unique
<1>10. \A q \in dirty' : q \in Request /\ at'[q] \in Step \ Clean
  <2>1. "scan.commit" \in Step \ Clean
    BY DEF Step, ScanStep, Clean
  <2> QED BY <1>2, <2>1 DEF FolderInv
<1>11. Mappings'
  BY DEF Mappings, FolderInv, PerRequest
<1>12. Shaped(disk)' /\ Refers(disk)' /\ (Unique(disk) => Unique(disk)')
  BY DEF FolderInv, Shaped, Refers, Unique, Ids
<1>13. ~ torn' => Unique(db') /\ Unique(disk)' /\ UnseenAreKnown' /\ DeletedByOpen'
  BY <1>7, <1>8, <1>9, <1>12 DEF FolderInv
<1> QED BY <1>10, <1>11, <1>12, <1>13 DEF FolderInv, Mappings, Shaped, Refers, Unique, Ids

(***************************************************************************)
(* The scan's UPDATEs: they change "enabled" of the rows of some ids.      *)
(***************************************************************************)
Enabled(t, I, b) == [t EXCEPT !.insts = {IF y.id \in I THEN Row(y.id, y.folder, b) ELSE y : y \in @}]

LEMMA EnabledKeepsInstances ==
  ASSUME NEW t, NEW I, NEW b, Shaped(t), Refers(t)
  PROVE  LET u == Enabled(t, I, b) IN
         /\ Shaped(u) /\ Refers(u)
         /\ Folders(u) = Folders(t)
         /\ Unique(t) => Unique(u)
         /\ t.insts = {} => u.insts = {}
<1> DEFINE row(y) == IF y.id \in I THEN Row(y.id, y.folder, b) ELSE y
           X == {row(y) : y \in t.insts}
           u == [nodes |-> t.nodes, insts |-> X, routes |-> t.routes, outs |-> t.outs]
<1>1. Enabled(t, I, b) = u
  BY Tables4 DEF Enabled
<1>2. \A y : row(y).id = y.id /\ row(y).folder = y.folder
  BY DEF Row
<1> HIDE DEF row
<1>3. Ids(X) = Ids(t.insts) /\ Folders(u) = Folders(t)
  BY <1>2 DEF Ids, Folders
<1>4. Unique(t) => Unique(u)
  BY <1>2 DEF Unique
<1>5. Shaped(u)
  BY DEF Shaped
<1>6. t.insts = {} => u.insts = {}
  OBVIOUS
<1>7. Refers(u)
  BY <1>3 DEF Refers
<1> QED BY <1>1, <1>3, <1>4, <1>5, <1>6, <1>7

LEMMA ScanKeepsFolders ==
  ASSUME FolderInv, LockInv, PerRequest(at), NEW r \in Request, Scan(r)
  PROVE  FolderInv'
<1> USE DEF FolderInv
<1>0. "failed" \in Step \ Clean /\ "failed" \notin Reading
  BY DEF Step, Clean, Reading
<1>1. CASE BeginScan(r)
  <2>1. Others(r) /\ Mappings'
    BY <1>1 DEF BeginScan, Others, Mappings, PerRequest
  <2>2. Begins(r, "scan.read")
    BY <1>1 DEF BeginScan
  <2>3. "scan.read" \in Step \ Reading
    BY DEF Step, ScanStep, Reading
  <2> QED BY <2>1, <2>2, <2>3, BeginKeepsFolders
<1>2. CASE ScanError(r)
  <2>1. r \notin dirty
    BY <1>2 DEF ScanError, Clean
  <2>2. at[r] \in ScanStep \ {"scan.commit"}
    BY <1>2 DEF ScanError, ScanStep
  <2>3. "scan.error" \notin Reading
    BY DEF Reading
  <2> QED
    BY <1>2, <2>1, <2>2, <2>3, Untouched, NotDeleting, QuietKeepsFolders DEF ScanError, reqVars
<1>3. CASE ScanReads(r)
  <2>1. PICK s \in {"scan.gone", "scan.folder"} : Go(r, s)
    BY <1>3 DEF ScanReads, AfterFolder
  <2>2. s \in Step \ Clean
    BY DEF Step, ScanStep, Clean
  <2>3. at[r] \in ScanStep \ {"scan.commit"}
    BY <1>3 DEF ScanReads, ScanStep
  <2>4. Others(r) /\ Mappings'
    BY <1>3 DEF ScanReads, Others, Mappings, PerRequest
  <2>5. rows'[r] = db.insts /\ UNCHANGED connVars
    BY <1>3 DEF ScanReads, PerRequest
  <2>6. left'[r] \cap Folders(db) \subseteq {x.folder : x \in rows'[r]}
    BY <2>5 DEF Folders
  <2> QED BY <2>1, <2>2, <2>3, <2>4, <2>5, <2>6, NotDeleting, QuietKeepsFolders
\* A failing statement or read.
<1>4. ASSUME Go(r, "failed"), UNCHANGED connVars, Others(r), Mappings',
             at[r] \in ScanStep \ {"scan.commit"}
      PROVE  FolderInv'
  BY <1>0, <1>4, NotDeleting, QuietKeepsFolders
<1>5. CASE ScanInserts(r)
  <2> DEFINE i == NewId(db.insts)
  <2>1. PICK f \in left[r] :
          /\ \A x \in rows[r] : x.folder # f
          /\ Statement(r, [db EXCEPT !.insts = @ \cup {Row(i, f, TRUE)}], "scan.commit")
          /\ Takes(r, f, i)
    BY <1>5 DEF ScanInserts
  <2> HIDE DEF i
  <2>2. UNCHANGED <<id, rows>> /\ left' = [left EXCEPT ![r] = @ \ {f}] /\ at[r] = "scan.folder"
    BY <1>5, <2>1 DEF ScanInserts, Takes
  <2>3. Others(r) /\ Mappings'
    BY <2>2 DEF Others, Mappings, PerRequest
  <2> DEFINE X == db.insts \cup {Row(i, f, TRUE)}
             t == [db EXCEPT !.insts = X]
  <2>4. t = [nodes |-> db.nodes, insts |-> X, routes |-> db.routes, outs |-> db.outs]
    BY Tables4
  <2>5. Shaped(t) /\ t.insts = X
    BY <2>4 DEF Shaped
  <2>6. Statement(r, t, "scan.commit")
    BY <2>1
  <2> HIDE DEF t
  <2>7. CASE Refers(t) /\ Flush(r, t) /\ Go(r, "scan.commit")
    BY <2>1, <2>2, <2>5, <2>7, InsertKeepsFolders DEF Flush
  <2>8. CASE Fails(r)
    BY <1>4, <2>2, <2>3, <2>8 DEF Fails, ScanStep
  <2> QED BY <2>6, <2>7, <2>8 DEF Statement, ForeignKeysHold
<1>6. CASE ScanUpdates(r)
  <2>1. PICK x \in rows[r] :
          /\ \/ /\ Flush(r, [db EXCEPT !.insts =
                      {IF y.id = x.id THEN Row(y.id, y.folder, TRUE) ELSE y : y \in @}])
                /\ Go(r, "scan.commit")
             \/ Fails(r)
          /\ Takes(r, x.folder, x.id)
    BY <1>6 DEF ScanUpdates
  <2>2. UNCHANGED <<id, rows>> /\ left' = [left EXCEPT ![r] = @ \ {x.folder}]
    BY <2>1 DEF Takes
  <2>3. Others(r) /\ Mappings' /\ left'[r] \subseteq left[r] /\ rows'[r] = rows[r]
    BY <2>2 DEF Others, Mappings, PerRequest
  <2>4. at[r] = "scan.folder"
    BY <1>6 DEF ScanUpdates
  <2> DEFINE u == Enabled(db, {x.id}, TRUE)
  <2>5. CASE Flush(r, u) /\ Go(r, "scan.commit")
    <3>1. Shaped(u) /\ Refers(u) /\ Folders(u) = Folders(db) /\ (Unique(db) => Unique(u))
          /\ (db.insts = {} => u.insts = {})
      BY EnabledKeepsInstances
    <3> HIDE DEF u
    <3>2. "scan.commit" \in Step \ Clean /\ at[r] \in ScanStep \ {"scan.commit"}
      BY <2>4 DEF Step, ScanStep, Clean
    <3>3. UnseenAreKnown => left'[r] \cap Folders(db') \subseteq {z.folder : z \in rows'[r]}
      BY <2>3, <2>4, <2>5, <3>1 DEF UnseenAreKnown, Flush
    <3> QED BY <2>3, <2>5, <3>1, <3>2, <3>3, NotDeleting, KeepsFolders DEF Flush, Go
  <2>6. CASE Fails(r)
    BY <1>4, <2>3, <2>4, <2>6 DEF Fails, ScanStep
  <2>7. u = [db EXCEPT !.insts = {IF y.id = x.id THEN Row(y.id, y.folder, TRUE) ELSE y : y \in @}]
    BY DEF Enabled
  <2> QED BY <2>1, <2>5, <2>6, <2>7
<1>7. CASE ScanCommits(r)
  <2>1. UnseenAreKnown => UnseenAreKnown'
    BY <1>7, UnseenStep DEF ScanCommits, Commits, CommitAll, Go, reqVars, Reading
  <2> QED BY <1>7, <2>1, Untouched, CommitKeepsFolders DEF ScanCommits, Commits, reqVars
<1>8. CASE ScanRefreshes(r)
  <2>1. PICK s \in {"scan.gone", "scan.folder", "failed"} : Go(r, s)
    BY <1>8 DEF ScanRefreshes, AfterFolder
  <2>2. s \in Step \ Clean /\ at[r] \in ScanStep \ {"scan.commit"} /\ at[r] = "scan.refresh"
    BY <1>8 DEF ScanRefreshes, Step, ScanStep, Clean
  <2>3. UNCHANGED <<connVars, id, left, rows>>
    BY <1>8 DEF ScanRefreshes, reqVars
  <2>4. UnseenAreKnown => left'[r] \cap Folders(db) \subseteq {x.folder : x \in rows'[r]}
    BY <2>2, <2>3 DEF UnseenAreKnown
  <2> QED BY <2>1, <2>2, <2>3, <2>4, Untouched, NotDeleting, QuietKeepsFolders
<1>9. CASE ScanFindsGone(r)
  <2>1. PICK s \in {"scan.disable", "failed"} : Go(r, s)
    BY <1>9 DEF ScanFindsGone
  <2>2. s \in Step \ Clean /\ s \notin Reading /\ at[r] \in ScanStep \ {"scan.commit"}
    BY <1>9 DEF ScanFindsGone, Step, ScanStep, Clean, Reading
  <2>3. UNCHANGED <<connVars, id, left>> /\ (UNCHANGED rows \/ \E Y : rows' = [rows EXCEPT ![r] = Y])
    BY <1>9 DEF ScanFindsGone
  <2>4. Others(r) /\ Mappings'
    BY <2>3 DEF Others, Mappings, PerRequest
  <2> QED BY <2>1, <2>2, <2>3, <2>4, NotDeleting, QuietKeepsFolders
<1>10. CASE ScanDisables(r)
  <2>1. Others(r) /\ Mappings' /\ at[r] \in ScanStep \ {"scan.commit"}
    BY <1>10, Untouched DEF ScanDisables, reqVars, ScanStep
  <2> DEFINE u == Enabled(db, Ids(rows[r]), FALSE)
  <2>2. Fails(r) \/ (Flush(r, u) /\ Go(r, "scan.end"))
    BY <1>10 DEF ScanDisables, Enabled
  <2>3. CASE Flush(r, u) /\ Go(r, "scan.end")
    <3>1. Shaped(u) /\ Refers(u) /\ Folders(u) = Folders(db) /\ (Unique(db) => Unique(u))
          /\ (db.insts = {} => u.insts = {})
      BY EnabledKeepsInstances
    <3> HIDE DEF u
    <3>2. "scan.end" \in Step \ Clean /\ "scan.end" \notin Reading
      BY DEF Step, ScanStep, Clean, Reading
    <3> QED BY <2>1, <2>3, <3>1, <3>2, NotDeleting, KeepsFolders DEF Flush, Go
  <2> QED BY <1>4, <2>1, <2>2, <2>3 DEF Fails
<1>11. CASE ScanEnds(r)
  <2>1. UnseenAreKnown => UnseenAreKnown'
    BY <1>11, UnseenStep DEF ScanEnds, Commits, CommitAll, Go, reqVars, Reading
  <2> QED BY <1>11, <2>1, Untouched, CommitKeepsFolders DEF ScanEnds, Commits, reqVars
<1>12. CASE ScanReturns(r)
  <2>1. r \notin dirty
    BY <1>12 DEF ScanReturns, Clean
  <2>2. at[r] \in ScanStep \ {"scan.commit"} /\ "close" \notin Reading
    BY <1>12 DEF ScanReturns, ScanStep, Reading
  <2> QED
    BY <1>12, <2>1, <2>2, Untouched, NotDeleting, QuietKeepsFolders DEF ScanReturns, reqVars
<1>13. CASE ScanUnwinds(r)
  <2>1. UnseenAreKnown /\ Folders(db') \subseteq Folders(db) => UnseenAreKnown'
    BY <1>13, UnseenStep DEF ScanUnwinds, Discards, Go, reqVars, Reading
  <2> QED
    BY <1>13, <2>1, Untouched, RollbackKeepsFolders DEF ScanUnwinds, Discards, reqVars, Clean
<1> QED
  BY <1>1, <1>2, <1>3, <1>5, <1>6, <1>7, <1>8, <1>9, <1>10, <1>11, <1>12, <1>13 DEF Scan

LEMMA EntryRemovesKept ==
  ASSUME EntryRemoves, FolderInv, PerRequest(at), NEW r \in Request, NEW s,
         at' = [at EXCEPT ![r] = s], \A q \in Request \ {r} : id'[q] = id[q],
         s \in {"remove.outs", "remove.routes", "remove.instances"} => id'[r] = Entry
  PROVE  EntryRemoves'
BY DEF EntryRemoves, PerRequest

LEMMA StepKeepsEntryRemoves ==
  ASSUME EntryRemoves, FolderInv, PerRequest(at), NEW r \in Request,
         Save(r) \/ Scan(r) \/ Purge(r) \/ Remove(r) \/ Close(r)
  PROVE  EntryRemoves'
<1> USE DEF FolderInv, PerRequest
<1>1. CASE Save(r)
  <2>1. /\ \E s \in SaveStep \cup {"failed", "close"} : at' = [at EXCEPT ![r] = s]
        /\ \A q \in Request \ {r} : id'[q] = id[q]
    BY <1>1 DEF Save, BeginSave, SaveDeletesOuts, SaveDeletesRoutes, SaveInserts,
         SaveInsertsLastOuts, SaveCommits, Begins, Statement, Fails, Commits, Go, SaveStep, reqVars
  <2> QED BY <2>1, EntryRemovesKept DEF SaveStep
<1>2. CASE Scan(r)
  <2>1. /\ \E s \in ScanStep \cup {"failed", "close"} : at' = [at EXCEPT ![r] = s]
        /\ UNCHANGED id
    BY <1>2 DEF Scan, BeginScan, ScanError, ScanReads, ScanInserts, ScanUpdates, ScanCommits,
         ScanRefreshes, ScanFindsGone, ScanDisables, ScanEnds, ScanReturns, ScanUnwinds, Begins,
         Takes, AfterFolder, Statement, Fails, Commits, Go, ScanStep, reqVars
  <2> QED BY <2>1, EntryRemovesKept DEF ScanStep
<1>3. CASE Purge(r)
  <2>1. /\ \E s \in PurgeStep \cup {"failed", "close"} : at' = [at EXCEPT ![r] = s]
        /\ \A q \in Request \ {r} : id'[q] = id[q]
    BY <1>3 DEF Purge, BeginPurge, PurgeDeletes, PurgeCommits, Begins, Statement, Fails, Commits,
         Go, PurgeStep, reqVars
  <2> QED BY <2>1, EntryRemovesKept DEF PurgeStep
<1>4. CASE Remove(r)
  <2>1. CASE BeginRemove(r)
    BY <2>1, EntryRemovesKept DEF BeginRemove, Begins, Go
  <2>2. CASE RemoveReads(r)
    BY <2>2, EntryRemovesKept DEF RemoveReads, Go, reqVars
  <2>3. CASE RemoveDeletes(r)
    BY <2>3, EntryRemovesKept DEF RemoveDeletes, Statement, Fails, Go, reqVars, EntryRemoves
  <2>4. CASE RemoveCommits(r)
    BY <2>4, EntryRemovesKept DEF RemoveCommits, Commits, Go, reqVars
  <2> QED BY <1>4, <2>1, <2>2, <2>3, <2>4 DEF Remove
<1>5. CASE Close(r)
  BY <1>5, EntryRemovesKept DEF Close, Go, reqVars
<1> QED BY <1>1, <1>2, <1>3, <1>4, <1>5

IInv == LockInv /\ EntryRemoves /\ FolderInv

(***************************************************************************)
(* The invariant of the lock and the folders holds in every reachable      *)
(* state; with it, that no table refers to a row that does not exist.      *)
(***************************************************************************)
THEOREM Invariance == Spec => []IInv
<1>1. Init => IInv
  <2> SUFFICES ASSUME Init PROVE IInv
    OBVIOUS
  <2>1. LockInv /\ EntryRemoves
    BY StoreAssumption, StepsAreDisjoint DEF Init, LockInv, LockFollowsScan, EntryRemoves
  <2>2. PerRequest(id) /\ PerRequest(left) /\ PerRequest(rows)
    BY DEF Init, PerRequest
  <2>3. UnseenAreKnown
    BY DEF Init, UnseenAreKnown
  <2>4. PICK enabled \in BOOLEAN, f \in Folder, l \in Landing :
          DatabaseInit([nodes  |-> Landing \cup {Entry},
                        insts  |-> {Row(1, f, enabled)},
                        routes |-> {[id |-> 1, inst |-> 1, pos |-> 1, fallback |-> TRUE]},
                        outs   |-> {[route |-> 1, landing |-> l]}])
    BY DEF Init
  <2>5. disk = db /\ dirty = {}
    BY <2>4 DEF DatabaseInit
  <2>6. Shaped(db) /\ Unique(db)
    BY <2>4 DEF DatabaseInit, Shaped, Unique
  <2>7. Refers(db)
    BY <2>4 DEF DatabaseInit, Refers, Ids, Row
  <2>8. DeletedByOpen
    BY <2>5 DEF DeletedByOpen
  <2> QED BY <2>1, <2>2, <2>3, <2>5, <2>6, <2>7, <2>8 DEF IInv, FolderInv
<1>2. IInv /\ [Next]_vars => IInv'
  <2> SUFFICES ASSUME IInv, [Next]_vars PROVE IInv'
    OBVIOUS
  <2> USE DEF IInv
  <2>1. PerRequest(at)
    BY DEF LockInv, PerRequest
  <2>2. LockInv'
    BY LockStep
  <2>3. ASSUME NEW r \in Request, Close(r) PROVE FolderInv'
    <3>1. UnseenAreKnown /\ Folders(db') \subseteq Folders(db) => UnseenAreKnown'
      BY <2>1, <2>3, UnseenStep DEF Close, Discards, Go, reqVars, Reading
    <3> QED
      BY <2>3, <3>1, Untouched, RollbackKeepsFolders DEF Close, Discards, reqVars, Clean
  <2>4. CASE OtherSessionEnds
    <3>1. UNCHANGED <<id, left, rows, at>>
      BY <2>4 DEF OtherSessionEnds, reqVars
    <3>2. EntryRemoves' /\ Mappings'
      BY <3>1 DEF EntryRemoves, FolderInv, Mappings, PerRequest
    <3>3. UnseenAreKnown /\ Folders(db') \subseteq Folders(db) => UnseenAreKnown'
      BY <3>1 DEF UnseenAreKnown, Folders
    <3>4. None \notin dirty
      BY StoreAssumption DEF FolderInv
    <3>5. CASE RollbackAll(None)
      BY <2>2, <3>2, <3>3, <3>4, <3>5, RollbackKeepsFolders
    <3>6. CASE CommitAll
      BY <2>2, <3>2, <3>3, <3>6, CommitKeepsFolders DEF CommitAll, Folders
    <3> QED BY <2>4, <3>5, <3>6 DEF OtherSessionEnds
  <2>5. CASE PanelCrash
    <3>1. \A q \in Request : at'[q] \notin Step
      <4>1. {"done"} \cap Step = {}
        BY DEF Step, SaveStep, ScanStep, PurgeStep, RemoveStep
      <4> QED BY <2>5, <4>1 DEF PanelCrash, Active
    <3>2. UnseenAreKnown' /\ EntryRemoves'
      BY <3>1 DEF UnseenAreKnown, EntryRemoves, Step, ScanStep, RemoveStep
    <3>3. DeletedByOpen'
      BY <2>5 DEF PanelCrash, Reopen, DeletedByOpen, Folders
    <3>4. Mappings'
      BY <2>5 DEF PanelCrash, reqVars, Mappings, FolderInv, PerRequest
    <3> QED
      BY <2>2, <2>5, <3>2, <3>3, <3>4
         DEF PanelCrash, Reopen, FolderInv, Mappings, Shaped, Refers, Unique, Ids
  <2>6. CASE UNCHANGED vars
    BY <2>2, <2>6
       DEF vars, connVars, reqVars, EntryRemoves, FolderInv, Shaped, Refers, Unique, Ids, PerRequest,
           UnseenAreKnown, DeletedByOpen, HasDeleted, ScanIsDirty, Folders
  <2> QED
    BY <2>1, <2>2, <2>3, <2>4, <2>5, <2>6, StepKeepsEntryRemoves, SaveKeepsFolders,
       ScanKeepsFolders, PurgeKeepsFolders, RemoveKeepsFolders DEF Next
<1> QED BY <1>1, <1>2, PTL DEF Spec

(***************************************************************************)
(* One instance per folder, for any number of scans, saves, purges and     *)
(* node deletions in any overlap, unless a session's rollback discarded    *)
(* what another one had flushed.                                           *)
(***************************************************************************)
THEOREM FoldersStayUnique == Spec => []FoldersAreUnique
<1>1. IInv => FoldersAreUnique
  BY DEF IInv, FolderInv, FoldersAreUnique, Unique
<1> QED BY <1>1, Invariance, PTL

-----------------------------------------------------------------------------
(* Types, and the numbers that rows get.                                   *)

\* Every id is given once, and there is a highest one.
Numbered(table) ==
  /\ \A x, y \in table : x.id = y.id => x = y
  /\ \E b \in Nat : \A x \in table : x.id <= b

TablesOK(t) == t \in Tables /\ Numbered(t.insts) /\ Numbered(t.routes)

(***************************************************************************)
(* A set of numbers with a bound has a largest one: b - x is smallest for  *)
(* it, and the numbers are well founded.                                   *)
(***************************************************************************)
LEMMA Largest ==
  ASSUME NEW S, S \subseteq Nat, S # {}, NEW b \in Nat, \A x \in S : x <= b
  PROVE  Max(S) \in S /\ \A x \in S : Max(S) >= x
<1> DEFINE R == OpToRel(<, Nat)
           T == {b - x : x \in S}
<1>1. T \subseteq Nat /\ T # {}
  <2>1. \A x \in S : b - x \in Nat
    <3> TAKE x \in S
    <3>1. x \in Nat /\ x <= b
      OBVIOUS
    <3> QED BY <3>1
  <2> QED BY <2>1
<1>2. IsWellFoundedOn(R, Nat)
  BY NatLessThanWellFounded
<1>3. \A y, z \in Nat : <<y, z>> \in R <=> y < z
  BY DEF OpToRel
<1> HIDE DEF R
<1>4. PICK m \in T : \A y \in T : ~ (<<y, m>> \in R)
  <2> HIDE DEF T
  <2> QED BY <1>1, <1>2, WFMin, Zenon
<1>5. \A y \in T : ~ (y < m)
  BY <1>1, <1>3, <1>4
<1>6. PICK x \in S : m = b - x
  OBVIOUS
<1>7. \A y \in S : x >= y
  BY <1>5, <1>6
<1> QED BY <1>7 DEF Max

\* The id of a new row is higher than those of all rows there are.
LEMMA NewIdIsNew ==
  ASSUME NEW table, Numbered(table), \A x \in table : x.id \in Nat
  PROVE  NewId(table) \in Nat /\ \A x \in table : x.id < NewId(table)
<1>1. CASE table = {}
  BY <1>1 DEF NewId
<1>2. CASE table # {}
  <2>1. Ids(table) \subseteq Nat /\ Ids(table) # {} /\ \A x \in table : x.id \in Ids(table)
    BY <1>2 DEF Ids
  <2>2. PICK b \in Nat : \A i \in Ids(table) : i <= b
    BY DEF Numbered, Ids
  <2>3. Max(Ids(table)) \in Ids(table) /\ \A i \in Ids(table) : Max(Ids(table)) >= i
    BY <2>1, <2>2, Largest
  <2> DEFINE m == Max(Ids(table))
  <2> HIDE DEF m
  <2>4. m \in Nat /\ NewId(table) = m + 1 /\ \A x \in table : m >= x.id
    BY <1>2, <2>1, <2>3 DEF NewId, m
  <2> QED BY <2>4
<1> QED BY <1>1, <1>2

\* A table stays numbered when rows are deleted, and when a new one is inserted.
LEMMA FewerAreNumbered ==
  ASSUME NEW table, Numbered(table), NEW X, X \subseteq table
  PROVE  Numbered(X)
BY DEF Numbered

LEMMA OneMoreIsNumbered ==
  ASSUME NEW table, Numbered(table), \A x \in table : x.id \in Nat, NEW row,
         row.id = NewId(table)
  PROVE  Numbered(table \cup {row})
<1>1. NewId(table) \in Nat /\ \A x \in table : x.id < NewId(table)
  BY NewIdIsNew
<1>2. \A x \in table \cup {row} : x.id <= NewId(table)
  BY <1>1
<1>3. \A x, y \in table \cup {row} : x.id = y.id => x = y
  BY <1>1 DEF Numbered
<1> QED BY <1>1, <1>2, <1>3 DEF Numbered

LEMMA TableTypes ==
  ASSUME NEW t, t \in Tables
  PROVE  /\ Shaped(t)
         /\ t.nodes \subseteq Landing \cup {Entry}
         /\ t.insts \subseteq [id : Nat, folder : Folder, enabled : BOOLEAN]
         /\ t.routes \subseteq [id : Nat, inst : Nat, pos : Nat, fallback : BOOLEAN]
         /\ t.outs \subseteq [route : Nat, landing : Landing]
BY DEF Tables, Shaped

\* A DELETE.
LEMMA DeleteIsTyped ==
  ASSUME NEW t, TablesOK(t), NEW u, Shaped(u), u.nodes \subseteq t.nodes, u.insts \subseteq t.insts,
         u.routes \subseteq t.routes, u.outs \subseteq t.outs
  PROVE  TablesOK(u)
<1>1. Numbered(u.insts) /\ Numbered(u.routes)
  BY FewerAreNumbered DEF TablesOK
<1>2. /\ u.nodes \in SUBSET (Landing \cup {Entry})
      /\ u.insts \in SUBSET [id : Nat, folder : Folder, enabled : BOOLEAN]
      /\ u.routes \in SUBSET [id : Nat, inst : Nat, pos : Nat, fallback : BOOLEAN]
      /\ u.outs \in SUBSET [route : Nat, landing : Landing]
  BY TableTypes DEF TablesOK
<1>3. u \in Tables
  BY <1>2 DEF Shaped, Tables
<1> QED BY <1>1, <1>3 DEF TablesOK

\* The scan's UPDATEs.
LEMMA EnabledIsTyped ==
  ASSUME NEW t, TablesOK(t), NEW I, NEW b \in BOOLEAN
  PROVE  TablesOK(Enabled(t, I, b))
<1> DEFINE row(y) == IF y.id \in I THEN Row(y.id, y.folder, b) ELSE y
           X == {row(y) : y \in t.insts}
           u == [nodes |-> t.nodes, insts |-> X, routes |-> t.routes, outs |-> t.outs]
<1>1. Enabled(t, I, b) = u
  BY TableTypes, Tables4 DEF Enabled, TablesOK
<1>2. \A y \in t.insts : row(y) \in [id : Nat, folder : Folder, enabled : BOOLEAN]
  BY TableTypes DEF Row, TablesOK
<1>3. \A y : row(y).id = y.id
  BY DEF Row
<1> HIDE DEF row
<1>4. Numbered(X)
  BY <1>3 DEF TablesOK, Numbered
<1>5. u \in Tables
  BY <1>2, TableTypes DEF Tables, TablesOK
<1> QED BY <1>1, <1>4, <1>5 DEF TablesOK

LEMMA InstanceIsTyped ==
  ASSUME NEW t, TablesOK(t), NEW f \in Folder
  PROVE  TablesOK([t EXCEPT !.insts = @ \cup {Row(NewId(t.insts), f, TRUE)}])
<1> DEFINE n == NewId(t.insts)
           X == t.insts \cup {Row(n, f, TRUE)}
<1>1. [t EXCEPT !.insts = X] = [nodes |-> t.nodes, insts |-> X, routes |-> t.routes, outs |-> t.outs]
  BY TableTypes, Tables4 DEF TablesOK
<1>2. \A x \in t.insts : x.id \in Nat
  BY TableTypes DEF TablesOK
<1>3. n \in Nat
  BY <1>2, NewIdIsNew DEF TablesOK
<1>4. Row(n, f, TRUE).id = n /\ Row(n, f, TRUE) \in [id : Nat, folder : Folder, enabled : BOOLEAN]
  BY <1>3 DEF Row
<1>5. Numbered(X)
  BY <1>2, <1>4, OneMoreIsNumbered DEF TablesOK
<1>6. [nodes |-> t.nodes, insts |-> X, routes |-> t.routes, outs |-> t.outs] \in Tables
  BY <1>4, TableTypes DEF Tables, TablesOK
<1> QED BY <1>1, <1>5, <1>6 DEF TablesOK

LEMMA RouteIsTyped ==
  ASSUME NEW t, TablesOK(t), NEW i \in Nat, NEW k \in Nat, NEW b \in BOOLEAN
  PROVE  LET new == [id |-> NewId(t.routes), inst |-> i, pos |-> k, fallback |-> b]
         IN  TablesOK([t EXCEPT !.routes = @ \cup {new}])
<1> DEFINE n == NewId(t.routes)
           new == [id |-> n, inst |-> i, pos |-> k, fallback |-> b]
           X == t.routes \cup {new}
<1>1. [t EXCEPT !.routes = X] = [nodes |-> t.nodes, insts |-> t.insts, routes |-> X, outs |-> t.outs]
  BY TableTypes, Tables4 DEF TablesOK
<1>2. \A x \in t.routes : x.id \in Nat
  BY TableTypes DEF TablesOK
<1>3. n \in Nat
  BY <1>2, NewIdIsNew DEF TablesOK
<1>4. new.id = n /\ new \in [id : Nat, inst : Nat, pos : Nat, fallback : BOOLEAN]
  BY <1>3
<1>5. Numbered(X)
  BY <1>2, <1>4, OneMoreIsNumbered DEF TablesOK
<1>6. [nodes |-> t.nodes, insts |-> t.insts, routes |-> X, outs |-> t.outs] \in Tables
  BY <1>4, TableTypes DEF Tables, TablesOK
<1> QED BY <1>1, <1>5, <1>6 DEF TablesOK

(***************************************************************************)
(* What a save knows whatever happens around it: its payload, and where it *)
(* is in it.                                                               *)
(***************************************************************************)
SaveWork(r) ==
  at[r] \in SaveStep =>
    /\ id[r] \in Nat
    /\ list[r] \in Payload
    /\ at[r] \in {"save.outs", "save.routes"} => pos[r] = 1
    /\ at[r] = "save.insert" => pos[r] \in 1..Len(list[r])
    /\ at[r] = "save.last" => pos[r] = Len(list[r]) + 1

\* The variables of the requests.
WorkOK ==
  /\ list \in [Request -> Payload \cup {<<>>}]
  /\ pos \in [Request -> Nat] /\ last \in [Request -> Nat]
  /\ seen \in [Request -> SUBSET Folder] /\ left \in [Request -> SUBSET Folder]
  /\ mixed \subseteq Request
  /\ \A r \in Request : \A x \in rows[r] : x.id \in Nat
  /\ \A r \in Request : SaveWork(r)

DataOK == TablesOK(db) /\ TablesOK(disk) /\ torn \in BOOLEAN

TypeInv == DataOK /\ WorkOK

LEMMA PayloadTypes ==
  ASSUME NEW p \in Payload
  PROVE  Len(p) \in Nat /\ Len(p) # 0 /\ \A k \in 1..Len(p) : p[k] \subseteq Landing
<1>1. p \in Seq((SUBSET Landing) \ {{}}) /\ p # <<>>
  BY StoreAssumption
<1> QED BY <1>1

LEMMA WithOutsIsTyped ==
  ASSUME WorkOK, NEW r \in Request, at[r] \in {"save.insert", "save.last"}, NEW t, TablesOK(t)
  PROVE  TablesOK(WithOuts(r, t))
<1> DEFINE new == IF pos[r] = 1 THEN {}
                  ELSE {[route |-> last[r], landing |-> l] : l \in list[r][pos[r] - 1]}
           X == t.outs \cup new
<1>1. WithOuts(r, t) = [nodes |-> t.nodes, insts |-> t.insts, routes |-> t.routes, outs |-> X]
  BY TableTypes, Tables4 DEF WithOuts, TablesOK
<1>2. pos[r] # 1 => list[r][pos[r] - 1] \subseteq Landing
  <2>1. list[r] \in Payload /\ (pos[r] \in 1..Len(list[r]) \/ pos[r] = Len(list[r]) + 1)
    BY DEF WorkOK, SaveWork, SaveStep
  <2>2. Len(list[r]) \in Nat
    BY <2>1, PayloadTypes
  <2>3. pos[r] # 1 => pos[r] - 1 \in 1..Len(list[r])
    BY <2>1, <2>2
  <2> QED BY <2>1, <2>3, PayloadTypes
<1>3. last[r] \in Nat
  BY DEF WorkOK
<1>4. new \subseteq [route : Nat, landing : Landing]
  BY <1>2, <1>3
<1> HIDE DEF new
<1>5. [nodes |-> t.nodes, insts |-> t.insts, routes |-> t.routes, outs |-> X] \in Tables
  BY <1>4, TableTypes DEF Tables, TablesOK
<1> QED BY <1>1, <1>5 DEF TablesOK

\* What the shared connection does with the tables.
DataSteps == \/ UNCHANGED connVars
             \/ TablesOK(db') /\ UNCHANGED <<disk, torn>>
             \/ CommitAll
             \/ \E s : RollbackAll(s)

LEMMA DataStep ==
  ASSUME DataOK, DataSteps
  PROVE  DataOK'
<1>1. CASE UNCHANGED connVars
  BY <1>1 DEF DataOK, connVars, TablesOK, Numbered
<1>2. CASE TablesOK(db') /\ UNCHANGED <<disk, torn>>
  BY <1>2 DEF DataOK, TablesOK, Numbered
<1>3. CASE CommitAll
  BY <1>3 DEF CommitAll, DataOK, TablesOK, Numbered
<1>4. CASE \E s : RollbackAll(s)
  BY <1>4 DEF RollbackAll, DataOK, TablesOK, Numbered
<1> QED BY <1>1, <1>2, <1>3, <1>4 DEF DataSteps

LEMMA StatementData ==
  ASSUME NEW r, NEW t, NEW next, Statement(r, t, next), TablesOK(t)
  PROVE  DataSteps
BY DEF Statement, Flush, Fails, DataSteps

\* A statement that deletes from one of the tables.
LEMMA DeletingStatement ==
  ASSUME DataOK, NEW r, NEW next,
         NEW N \in SUBSET db.nodes, NEW I \in SUBSET db.insts,
         NEW R \in SUBSET db.routes, NEW O \in SUBSET db.outs,
         \/ Statement(r, [db EXCEPT !.nodes = N], next)
         \/ Statement(r, [db EXCEPT !.insts = I], next)
         \/ Statement(r, [db EXCEPT !.routes = R], next)
         \/ Statement(r, [db EXCEPT !.outs = O], next)
  PROVE  DataSteps
<1>1. PICK t \in {[db EXCEPT !.nodes = N], [db EXCEPT !.insts = I],
                  [db EXCEPT !.routes = R], [db EXCEPT !.outs = O]} : Statement(r, t, next)
  OBVIOUS
<1>2. Shaped(db)
  BY TableTypes DEF DataOK, TablesOK
<1>3. \/ t = [nodes |-> N, insts |-> db.insts, routes |-> db.routes, outs |-> db.outs]
      \/ t = [nodes |-> db.nodes, insts |-> I, routes |-> db.routes, outs |-> db.outs]
      \/ t = [nodes |-> db.nodes, insts |-> db.insts, routes |-> R, outs |-> db.outs]
      \/ t = [nodes |-> db.nodes, insts |-> db.insts, routes |-> db.routes, outs |-> O]
  BY <1>2, Tables4
<1>4. /\ Shaped(t)
      /\ t.nodes \subseteq db.nodes /\ t.insts \subseteq db.insts
      /\ t.routes \subseteq db.routes /\ t.outs \subseteq db.outs
  BY <1>3 DEF Shaped
<1> QED BY <1>1, <1>4, StatementData, DeleteIsTyped DEF DataOK

LEMMA SaveData ==
  ASSUME TypeInv, NEW r \in Request, Save(r)
  PROVE  DataSteps
<1>1. CASE BeginSave(r)
  BY <1>1 DEF BeginSave, Begins, DataSteps
<1>2. CASE SaveDeletesOuts(r)
  <2> DEFINE O == db.outs \ OutsOf(db, Ids(rows[r]))
  <2>1. Statement(r, [db EXCEPT !.outs = O], "save.routes") /\ O \subseteq db.outs
    BY <1>2 DEF SaveDeletesOuts
  <2> QED BY <2>1, DeletingStatement DEF TypeInv
<1>3. CASE SaveDeletesRoutes(r)
  <2> DEFINE R == {x \in db.routes : x.id \notin Ids(rows[r])}
  <2>1. Statement(r, [db EXCEPT !.routes = R], "save.insert") /\ R \subseteq db.routes
    BY <1>3 DEF SaveDeletesRoutes
  <2> QED BY <2>1, DeletingStatement DEF TypeInv
<1>4. CASE SaveInserts(r)
  <2> DEFINE k == pos[r]
             b == k = Len(list[r])
             new == [id |-> NewId(db.routes), inst |-> id[r], pos |-> k, fallback |-> b]
             t == [db EXCEPT !.routes = @ \cup {new}]
  <2>1. at[r] = "save.insert"
    BY <1>4 DEF SaveInserts
  <2>2. id[r] \in Nat /\ k \in Nat /\ b \in BOOLEAN
    BY <2>1 DEF TypeInv, WorkOK, SaveWork, SaveStep
  <2>3. (\E next : Statement(r, WithOuts(r, t), next)) \/ Fails(r)
    BY <1>4 DEF SaveInserts
  <2> HIDE DEF b, k
  <2>4. TablesOK(t)
    BY <2>2, RouteIsTyped DEF TypeInv, DataOK
  <2> HIDE DEF t
  <2>5. TablesOK(WithOuts(r, t))
    BY <2>1, <2>4, WithOutsIsTyped DEF TypeInv
  <2> QED BY <2>3, <2>5, StatementData DEF Fails, DataSteps
<1>5. CASE SaveInsertsLastOuts(r)
  <2>1. at[r] = "save.last" /\ Statement(r, WithOuts(r, db), "save.commit")
    BY <1>5 DEF SaveInsertsLastOuts
  <2> QED BY <2>1, WithOutsIsTyped, StatementData DEF TypeInv, DataOK
<1>6. CASE SaveCommits(r)
  BY <1>6 DEF SaveCommits, Commits, DataSteps
<1> QED BY <1>1, <1>2, <1>3, <1>4, <1>5, <1>6 DEF Save

LEMMA ScanData ==
  ASSUME TypeInv, NEW r \in Request, Scan(r)
  PROVE  DataSteps
<1>1. CASE \/ BeginScan(r) \/ ScanError(r) \/ ScanReads(r) \/ ScanRefreshes(r)
           \/ ScanFindsGone(r) \/ ScanReturns(r)
  BY <1>1 DEF BeginScan, Begins, ScanError, ScanReads, ScanRefreshes, ScanFindsGone, ScanReturns,
              DataSteps
<1>2. CASE ScanCommits(r) \/ ScanEnds(r)
  BY <1>2 DEF ScanCommits, ScanEnds, Commits, DataSteps
<1>3. CASE ScanUnwinds(r)
  BY <1>3 DEF ScanUnwinds, Discards, DataSteps
<1>4. CASE ScanInserts(r)
  <2>1. PICK f \in left[r] :
          Statement(r, [db EXCEPT !.insts = @ \cup {Row(NewId(db.insts), f, TRUE)}], "scan.commit")
    BY <1>4 DEF ScanInserts
  <2>2. f \in Folder
    BY DEF TypeInv, WorkOK
  <2> QED BY <2>1, <2>2, InstanceIsTyped, StatementData DEF TypeInv, DataOK
<1>5. CASE ScanUpdates(r)
  <2>1. PICK x \in rows[r] :
          \/ Flush(r, [db EXCEPT !.insts =
                      {IF y.id = x.id THEN Row(y.id, y.folder, TRUE) ELSE y : y \in @}])
          \/ Fails(r)
    BY <1>5 DEF ScanUpdates
  <2> DEFINE u == Enabled(db, {x.id}, TRUE)
  <2>2. Flush(r, u) \/ Fails(r)
    BY <2>1 DEF Enabled
  <2>3. TablesOK(u)
    BY EnabledIsTyped DEF TypeInv, DataOK
  <2> HIDE DEF u
  <2> QED BY <2>2, <2>3 DEF Flush, Fails, DataSteps
<1>6. CASE ScanDisables(r)
  <2> DEFINE u == Enabled(db, Ids(rows[r]), FALSE)
  <2>1. Flush(r, u) \/ Fails(r)
    BY <1>6 DEF ScanDisables, Enabled
  <2>2. TablesOK(u)
    BY EnabledIsTyped DEF TypeInv, DataOK
  <2> HIDE DEF u
  <2> QED BY <2>1, <2>2 DEF Flush, Fails, DataSteps
<1> QED BY <1>1, <1>2, <1>3, <1>4, <1>5, <1>6 DEF Scan

LEMMA PurgeData ==
  ASSUME TypeInv, NEW r \in Request, Purge(r)
  PROVE  DataSteps
<1>1. CASE BeginPurge(r)
  BY <1>1 DEF BeginPurge, Begins, DataSteps
<1>2. CASE PurgeDeletes(r)
  <2> DEFINE I == {x \in db.insts : x.id # id[r]}
             R == {x \in db.routes : x.inst # id[r]}
             O == {o \in db.outs : o.route \notin Ids(RoutesOf(db, id[r]))}
  <2>1. \E next : \/ Statement(r, [db EXCEPT !.insts = I], next)
                  \/ Statement(r, [db EXCEPT !.routes = R], next)
                  \/ Statement(r, [db EXCEPT !.outs = O], next)
    BY <1>2 DEF PurgeDeletes
  <2>2. I \in SUBSET db.insts /\ R \in SUBSET db.routes /\ O \in SUBSET db.outs
    OBVIOUS
  <2> HIDE DEF I, R, O
  <2> QED BY <2>1, <2>2, DeletingStatement DEF TypeInv
<1>3. CASE PurgeCommits(r)
  BY <1>3 DEF PurgeCommits, Commits, DataSteps
<1> QED BY <1>1, <1>2, <1>3 DEF Purge

LEMMA RemoveData ==
  ASSUME TypeInv, NEW r \in Request, Remove(r)
  PROVE  DataSteps
<1>1. CASE BeginRemove(r) \/ RemoveReads(r)
  BY <1>1 DEF BeginRemove, Begins, RemoveReads, DataSteps
<1>2. CASE RemoveDeletes(r)
  <2> DEFINE N == db.nodes \ {id[r]}
             O == {o \in db.outs : o.landing # id[r]}
  <2>1. \E next : \/ Statement(r, [db EXCEPT !.nodes = N], next)
                  \/ Statement(r, [db EXCEPT !.insts = {}], next)
                  \/ Statement(r, [db EXCEPT !.routes = {}], next)
                  \/ \E X \in {{}, O} : Statement(r, [db EXCEPT !.outs = X], next)
    BY <1>2 DEF RemoveDeletes
  <2>2. N \in SUBSET db.nodes /\ O \in SUBSET db.outs
    OBVIOUS
  <2> HIDE DEF N, O
  <2> QED BY <2>1, <2>2, DeletingStatement DEF TypeInv
<1>3. CASE RemoveCommits(r)
  BY <1>3 DEF RemoveCommits, Commits, DataSteps
<1> QED BY <1>1, <1>2, <1>3 DEF Remove

\* The requests' own variables.
LEMMA WorkStep ==
  ASSUME WorkOK, PerRequest(at), PerRequest(id), PerRequest(rows), NEW r \in Request, NEW s,
         at' = [at EXCEPT ![r] = s],
         \A q \in Request \ {r} : id'[q] = id[q] /\ rows'[q] = rows[q] /\ list'[q] = list[q]
                                 /\ pos'[q] = pos[q],
         list' \in [Request -> Payload \cup {<<>>}],
         pos' \in [Request -> Nat], last' \in [Request -> Nat],
         seen' \in [Request -> SUBSET Folder], left' \in [Request -> SUBSET Folder],
         mixed' \subseteq Request,
         \A x \in rows'[r] : x.id \in Nat,
         SaveWork(r)'
  PROVE  WorkOK'
<1>1. \A q \in Request \ {r} : SaveWork(q)'
  BY DEF WorkOK, SaveWork, PerRequest
<1> QED BY <1>1 DEF WorkOK

\* A statement goes on or fails.
LEMMA StatementGoes ==
  ASSUME NEW r, NEW t, NEW next, Statement(r, t, next)
  PROVE  \E s \in {next, "failed"} : Go(r, s)
BY DEF Statement, Fails

\* A step of r that leaves the variables of the requests alone, except where
\* it is and who is mixed.
LEMMA PlainWork ==
  ASSUME WorkOK, PerRequest(at), PerRequest(id), PerRequest(rows), NEW r \in Request, NEW s,
         Go(r, s), UNCHANGED reqVars, mixed' \subseteq Request,
         s \in SaveStep => /\ SaveWork(r) /\ at[r] \in SaveStep
                           /\ s \in {"save.outs", "save.routes"} => pos[r] = 1
                           /\ s = "save.insert" => pos[r] \in 1..Len(list[r])
                           /\ s # "save.last"
  PROVE  WorkOK'
<1>1. at' = [at EXCEPT ![r] = s] /\ at'[r] = s
  BY DEF Go, PerRequest
<1>2. UNCHANGED <<id, list, pos, seen, left, rows, last>>
  BY DEF reqVars
<1>3. SaveWork(r)'
  BY <1>1, <1>2 DEF SaveWork
<1> QED BY <1>1, <1>2, <1>3, WorkStep DEF WorkOK

LEMMA SaveWorks ==
  ASSUME TypeInv, PerRequest(at), PerRequest(id), PerRequest(rows), NEW r \in Request, Save(r)
  PROVE  WorkOK'
<1> USE DEF TypeInv
<1>1. CASE BeginSave(r)
  <2>1. PICK i \in Ids(db.insts), p \in Payload :
          /\ Begins(r, "save.outs")
          /\ id' = [id EXCEPT ![r] = i]
          /\ list' = [list EXCEPT ![r] = p]
          /\ rows' = [rows EXCEPT ![r] = RoutesOf(db, i)]
          /\ pos' = [pos EXCEPT ![r] = 1]
          /\ UNCHANGED <<seen, left, last>>
    BY <1>1 DEF BeginSave
  <2>2. at' = [at EXCEPT ![r] = "save.outs"] /\ mixed' \subseteq Request
    BY <2>1 DEF Begins, Go, WorkOK, Active
  <2>3. /\ at'[r] = "save.outs" /\ id'[r] = i /\ list'[r] = p /\ rows'[r] = RoutesOf(db, i)
        /\ pos'[r] = 1
    BY <2>1, <2>2 DEF WorkOK, PerRequest
  <2>4. i \in Nat /\ \A x \in RoutesOf(db, i) : x.id \in Nat
    BY TableTypes DEF DataOK, TablesOK, Ids, RoutesOf
  <2>5. SaveWork(r)'
    BY <2>3, <2>4 DEF SaveWork
  <2>6. /\ list' \in [Request -> Payload \cup {<<>>}]
        /\ pos' \in [Request -> Nat] /\ last' \in [Request -> Nat]
        /\ seen' \in [Request -> SUBSET Folder] /\ left' \in [Request -> SUBSET Folder]
    BY <2>1 DEF WorkOK
  <2>7. \A q \in Request \ {r} : /\ id'[q] = id[q] /\ rows'[q] = rows[q]
                                 /\ list'[q] = list[q] /\ pos'[q] = pos[q]
    BY <2>1 DEF WorkOK, PerRequest
  <2> QED BY <2>2, <2>3, <2>4, <2>5, <2>6, <2>7, WorkStep
<1>2. CASE SaveDeletesOuts(r)
  <2>1. /\ at[r] = "save.outs" /\ UNCHANGED <<reqVars, mixed>>
        /\ \E s \in {"save.routes", "failed"} : Go(r, s)
    BY <1>2, StatementGoes DEF SaveDeletesOuts
  <2> QED BY <2>1, PlainWork DEF SaveStep, SaveWork, WorkOK
<1>3. CASE SaveDeletesRoutes(r)
  <2>1. /\ at[r] = "save.routes" /\ UNCHANGED <<reqVars, mixed>>
        /\ \E s \in {"save.insert", "failed"} : Go(r, s)
    BY <1>3, StatementGoes DEF SaveDeletesRoutes
  <2>2. SaveWork(r) /\ at[r] \in SaveStep
    BY <2>1 DEF WorkOK, SaveStep
  <2>3. pos[r] \in 1..Len(list[r])
    <3>1. pos[r] = 1 /\ list[r] \in Payload
      BY <2>1, <2>2 DEF SaveWork
    <3>2. Len(list[r]) \in Nat /\ Len(list[r]) # 0
      BY <3>1, PayloadTypes
    <3> QED BY <3>1, <3>2
  <2> QED BY <2>1, <2>2, <2>3, PlainWork DEF SaveStep, WorkOK
<1>4. CASE SaveInserts(r)
  <2> DEFINE k == pos[r]
             n == NewId(db.routes)
  <2>1. /\ at[r] = "save.insert"
        /\ \E s \in {"failed", IF k = Len(list[r]) THEN "save.last" ELSE "save.insert"} : Go(r, s)
        /\ last' = [last EXCEPT ![r] = n]
        /\ pos' = [pos EXCEPT ![r] = k + 1]
        /\ UNCHANGED <<id, list, seen, left, rows, mixed>>
    BY <1>4, StatementGoes DEF SaveInserts, Fails
  <2>2. PICK s \in {"failed", IF k = Len(list[r]) THEN "save.last" ELSE "save.insert"} : Go(r, s)
    BY <2>1
  <2>3. id[r] \in Nat /\ list[r] \in Payload /\ k \in 1..Len(list[r])
    BY <2>1 DEF WorkOK, SaveWork, SaveStep
  <2>4. Len(list[r]) \in Nat /\ k \in Nat
    BY <2>3, PayloadTypes
  <2>5. n \in Nat
    BY TableTypes, NewIdIsNew DEF DataOK, TablesOK
  <2>6. /\ pos' \in [Request -> Nat] /\ last' \in [Request -> Nat] /\ pos'[r] = k + 1
        /\ \A q \in Request \ {r} : pos'[q] = pos[q]
    BY <2>1, <2>4, <2>5 DEF WorkOK
  <2>7. at' = [at EXCEPT ![r] = s] /\ at'[r] = s
    BY <2>2 DEF Go, PerRequest
  <2> HIDE DEF n, k
  <2>8. SaveWork(r)'
    BY <2>1, <2>3, <2>4, <2>6, <2>7 DEF SaveWork, SaveStep
  <2> QED BY <2>1, <2>6, <2>7, <2>8, WorkStep DEF WorkOK
<1>5. CASE SaveInsertsLastOuts(r)
  <2>1. /\ at[r] = "save.last" /\ UNCHANGED <<reqVars, mixed>>
        /\ \E s \in {"save.commit", "failed"} : Go(r, s)
    BY <1>5, StatementGoes DEF SaveInsertsLastOuts
  <2> QED BY <2>1, PlainWork DEF SaveStep, WorkOK
<1>6. CASE SaveCommits(r)
  <2>1. Go(r, "close") /\ UNCHANGED <<reqVars, mixed>>
    BY <1>6 DEF SaveCommits, Commits
  <2> QED BY <2>1, PlainWork DEF SaveStep, WorkOK
<1> QED BY <1>1, <1>2, <1>3, <1>4, <1>5, <1>6 DEF Save

\* A step of a scan: it may change what it has read, what is left and the
\* row it is at.
LEMMA ScanWork ==
  ASSUME WorkOK, PerRequest(at), PerRequest(id), PerRequest(rows), NEW r \in Request, NEW s,
         Go(r, s), s \notin SaveStep, UNCHANGED <<id, list, pos>>, mixed' \subseteq Request,
         last' \in [Request -> Nat],
         seen' \in [Request -> SUBSET Folder], left' \in [Request -> SUBSET Folder],
         rows' = rows \/ \E Y : rows' = [rows EXCEPT ![r] = Y] /\ \A x \in Y : x.id \in Nat
  PROVE  WorkOK'
<1>1. at' = [at EXCEPT ![r] = s] /\ at'[r] = s
  BY DEF Go, PerRequest
<1>2. \A x \in rows'[r] : x.id \in Nat
  BY DEF WorkOK, PerRequest
<1>3. SaveWork(r)'
  BY <1>1 DEF SaveWork
<1>4. \A q \in Request \ {r} : rows'[q] = rows[q]
  BY DEF PerRequest
<1> QED BY <1>1, <1>2, <1>3, <1>4, WorkStep DEF WorkOK

LEMMA ScanWorks ==
  ASSUME TypeInv, PerRequest(at), PerRequest(id), PerRequest(rows), NEW r \in Request, Scan(r)
  PROVE  WorkOK'
<1> USE DEF TypeInv
<1>0. \A x \in db.insts : x.id \in Nat
  BY TableTypes DEF DataOK, TablesOK
<1>1. CASE BeginScan(r)
  <2>1. PICK F \in SUBSET Folder : /\ seen' = [seen EXCEPT ![r] = F]
                                   /\ left' = [left EXCEPT ![r] = F]
    BY <1>1 DEF BeginScan
  <2>2. Go(r, "scan.read") /\ UNCHANGED <<id, list, pos, rows, last>> /\ mixed' \subseteq Request
    BY <1>1 DEF BeginScan, Begins, Active, WorkOK
  <2>3. "scan.read" \notin SaveStep
    BY DEF SaveStep
  <2>4. seen' \in [Request -> SUBSET Folder] /\ left' \in [Request -> SUBSET Folder]
    BY <2>1 DEF WorkOK
  <2> QED BY <2>2, <2>3, <2>4, ScanWork DEF WorkOK
<1>2. CASE ScanReads(r)
  <2>1. /\ rows' = [rows EXCEPT ![r] = db.insts] /\ UNCHANGED <<id, list, pos, seen, left, last, mixed>>
        /\ Go(r, AfterFolder(r))
    BY <1>2 DEF ScanReads
  <2>2. AfterFolder(r) \notin SaveStep
    BY DEF AfterFolder, SaveStep
  <2> QED BY <1>0, <2>1, <2>2, ScanWork DEF WorkOK
<1>3. CASE ScanInserts(r)
  <2> DEFINE i == NewId(db.insts)
  <2>1. PICK f \in left[r] :
          /\ Statement(r, [db EXCEPT !.insts = @ \cup {Row(i, f, TRUE)}], "scan.commit")
          /\ Takes(r, f, i)
    BY <1>3 DEF ScanInserts
  <2>2. PICK s \in {"scan.commit", "failed"} : Go(r, s)
    BY <2>1, StatementGoes
  <2>3. i \in Nat
    BY <1>0, NewIdIsNew DEF DataOK, TablesOK
  <2> HIDE DEF i
  <2>4. /\ UNCHANGED <<id, list, pos, seen, rows, mixed>>
        /\ last' \in [Request -> Nat] /\ left' \in [Request -> SUBSET Folder]
    BY <2>1, <2>3 DEF Takes, WorkOK
  <2> QED BY <2>2, <2>4, ScanWork DEF WorkOK, SaveStep
<1>4. CASE ScanUpdates(r)
  <2>1. PICK x \in rows[r] :
          (\E s \in {"scan.commit", "failed"} : Go(r, s)) /\ Takes(r, x.folder, x.id)
    BY <1>4 DEF ScanUpdates, Fails
  <2>2. /\ UNCHANGED <<id, list, pos, seen, rows, mixed>>
        /\ last' \in [Request -> Nat] /\ left' \in [Request -> SUBSET Folder]
    BY <2>1 DEF Takes, WorkOK
  <2> QED BY <2>1, <2>2, ScanWork DEF WorkOK, SaveStep
<1>5. CASE ScanFindsGone(r)
  <2> DEFINE gone    == {x \in rows[r] : x.folder \notin seen[r]}
             enabled == {x \in (IF seen[r] = {} THEN gone ELSE db.insts) :
                           x.enabled /\ x.id \in Ids(gone)}
  <2>1. /\ \E s \in {"scan.disable", "failed"} : Go(r, s)
        /\ rows' = rows \/ rows' = [rows EXCEPT ![r] = enabled]
        /\ UNCHANGED <<id, list, pos, seen, left, last, mixed>>
    BY <1>5 DEF ScanFindsGone
  <2>2. \A x \in enabled : x.id \in Nat
    BY <1>0 DEF WorkOK
  <2> HIDE DEF enabled
  <2> QED BY <2>1, <2>2, ScanWork DEF WorkOK, SaveStep
<1>6. CASE ~ (\/ BeginScan(r) \/ ScanReads(r) \/ ScanInserts(r) \/ ScanUpdates(r)
              \/ ScanFindsGone(r))
  <2>1. /\ \E s \in ScanStep \cup {"failed", "close"} : Go(r, s)
        /\ UNCHANGED reqVars /\ mixed' \subseteq mixed \cup Active
    BY <1>6, Zenon
       DEF Scan, ScanError, ScanCommits, ScanRefreshes, ScanDisables, ScanEnds, ScanReturns,
           ScanUnwinds, Commits, Discards, Fails, AfterFolder, ScanStep
  <2>2. \A s \in ScanStep \cup {"failed", "close"} : s \notin SaveStep
    BY DEF ScanStep, SaveStep
  <2> QED BY <2>1, <2>2, PlainWork DEF WorkOK, Active
<1> QED BY <1>1, <1>2, <1>3, <1>4, <1>5, <1>6

LEMMA DeletionWorks ==
  ASSUME TypeInv, PerRequest(at), PerRequest(id), PerRequest(rows), NEW r \in Request,
         Purge(r) \/ Remove(r)
  PROVE  WorkOK'
<1>1. /\ \E s \in PurgeStep \cup RemoveStep \cup {"failed", "close"} : Go(r, s)
      /\ UNCHANGED <<list, pos, seen, left, rows, last>> /\ mixed' \subseteq mixed \cup Active \cup {r}
      /\ id' = id \/ \E i : id' = [id EXCEPT ![r] = i]
  <2>1. CASE BeginPurge(r) \/ BeginRemove(r)
    BY <2>1 DEF BeginPurge, BeginRemove, Begins, PurgeStep, RemoveStep
  <2>2. CASE RemoveReads(r)
    BY <2>2 DEF RemoveReads, RemoveStep, reqVars
  <2>3. CASE PurgeDeletes(r)
    BY <2>3 DEF PurgeDeletes, Statement, Fails, PurgeStep, reqVars
  <2>4. CASE RemoveDeletes(r)
    BY <2>4 DEF RemoveDeletes, Statement, Fails, RemoveStep, reqVars
  <2>5. CASE PurgeCommits(r) \/ RemoveCommits(r)
    BY <2>5 DEF PurgeCommits, RemoveCommits, Commits, reqVars
  <2> QED BY <2>1, <2>2, <2>3, <2>4, <2>5 DEF Purge, Remove
<1>2. PICK s \in PurgeStep \cup RemoveStep \cup {"failed", "close"} : Go(r, s)
  BY <1>1
<1>3. s \notin SaveStep
  BY DEF PurgeStep, RemoveStep, SaveStep
<1>4. at' = [at EXCEPT ![r] = s] /\ at'[r] = s
  BY <1>2 DEF Go, PerRequest
<1>5. SaveWork(r)'
  BY <1>3, <1>4 DEF SaveWork
<1>6. \A q \in Request \ {r} : id'[q] = id[q]
  BY <1>1 DEF PerRequest
<1> QED BY <1>1, <1>4, <1>5, <1>6, WorkStep DEF TypeInv, WorkOK, Active

LEMMA TypeNext ==
  ASSUME IInv, TypeInv, [Next]_vars
  PROVE  TypeInv'
<1>1. PerRequest(at) /\ PerRequest(id) /\ PerRequest(rows)
  BY DEF IInv, LockInv, FolderInv, PerRequest
<1>2. ASSUME NEW r \in Request, Save(r) \/ Scan(r) \/ Purge(r) \/ Remove(r) PROVE TypeInv'
  <2>1. DataSteps
    BY <1>2, SaveData, ScanData, PurgeData, RemoveData
  <2>2. WorkOK'
    BY <1>1, <1>2, SaveWorks, ScanWorks, DeletionWorks
  <2> QED BY <2>1, <2>2, DataStep DEF TypeInv
<1>3. ASSUME NEW r \in Request, Close(r) PROVE TypeInv'
  <2>1. DataSteps /\ mixed' \subseteq mixed \cup Active
    BY <1>3 DEF Close, Discards, DataSteps
  <2>2. Go(r, "done") /\ UNCHANGED reqVars /\ mixed' \subseteq Request
    BY <1>3, <2>1 DEF Close, TypeInv, WorkOK, Active
  <2>3. "done" \notin SaveStep
    BY DEF SaveStep
  <2> QED BY <1>1, <2>1, <2>2, <2>3, DataStep, PlainWork DEF TypeInv
<1>4. CASE OtherSessionEnds
  <2>1. DataSteps /\ mixed' = mixed \cup Active /\ UNCHANGED <<at, reqVars>>
    BY <1>4 DEF OtherSessionEnds, DataSteps
  <2>2. WorkOK'
    BY <2>1 DEF TypeInv, WorkOK, SaveWork, reqVars, Active
  <2> QED BY <2>1, <2>2, DataStep DEF TypeInv
<1>5. CASE PanelCrash
  <2>1. DataSteps /\ UNCHANGED <<reqVars, mixed>>
    BY <1>5 DEF PanelCrash, Reopen, DataSteps, TypeInv, DataOK
  <2>2. \A q \in Request : at'[q] \notin SaveStep
    <3>1. SaveStep \subseteq Step /\ "done" \notin SaveStep
      BY DEF Step, SaveStep
    <3> QED BY <1>5, <3>1 DEF PanelCrash, Active
  <2>3. WorkOK'
    BY <2>1, <2>2 DEF TypeInv, WorkOK, SaveWork, reqVars
  <2> QED BY <2>1, <2>3, DataStep DEF TypeInv
<1>6. CASE UNCHANGED vars
  <2>1. DataSteps /\ UNCHANGED <<at, reqVars, mixed>>
    BY <1>6 DEF vars, DataSteps
  <2>2. WorkOK'
    BY <2>1 DEF TypeInv, WorkOK, SaveWork, reqVars
  <2> QED BY <2>1, <2>2, DataStep DEF TypeInv
<1> QED BY <1>2, <1>3, <1>4, <1>5, <1>6 DEF Next

LEMMA TypeInit ==
  ASSUME Init
  PROVE  TypeInv
<1>1. PICK enabled \in BOOLEAN, f \in Folder, l \in Landing :
        DatabaseInit([nodes  |-> Landing \cup {Entry},
                      insts  |-> {Row(1, f, enabled)},
                      routes |-> {[id |-> 1, inst |-> 1, pos |-> 1, fallback |-> TRUE]},
                      outs   |-> {[route |-> 1, landing |-> l]}])
  BY DEF Init
<1>2. db \in Tables
  BY <1>1 DEF DatabaseInit, Tables, Row
<1>3. db.insts = {Row(1, f, enabled)}
      /\ db.routes = {[id |-> 1, inst |-> 1, pos |-> 1, fallback |-> TRUE]}
  BY <1>1 DEF DatabaseInit
<1>4. \A x \in db.insts \cup db.routes : x.id = 1
  BY <1>3 DEF Row
<1>5. Numbered(db.insts) /\ Numbered(db.routes)
  BY <1>3, <1>4 DEF Numbered
<1>6. DataOK
  BY <1>1, <1>2, <1>5 DEF DataOK, TablesOK, DatabaseInit, Numbered
<1>7. WorkOK
  BY DEF Init, WorkOK, SaveWork, SaveStep
<1> QED BY <1>6, <1>7 DEF TypeInv

LEMMA TypesInvariant == Spec => []TypeInv
<1>1. IInv /\ TypeInv /\ [Next]_vars => TypeInv'
  BY TypeNext
<1> QED BY <1>1, TypeInit, Invariance, PTL DEF Spec

(***************************************************************************)
(* Every variable has its type, and neither the visible nor the stored     *)
(* tables refer to a row that does not exist; in particular an id that     *)
(* SQLite gives out is a number that no row of the table has.              *)
(***************************************************************************)
THEOREM TypesHold == Spec => []TypeOK
<1>1. IInv /\ TypeInv => TypeOK
  BY DEF IInv, LockInv, FolderInv, TypeInv, DataOK, WorkOK, TablesOK, TypeOK, Active, Clean
<1> QED BY <1>1, Invariance, TypesInvariant, PTL

-----------------------------------------------------------------------------
(* A request that has the database to itself.                              *)

(***************************************************************************)
(* What a save that is alone can count on before each of its statements:   *)
(* its instance and its landing nodes are there, the outs of the old       *)
(* routes are gone before those are deleted, and the route whose outs it   *)
(* flushes next has been inserted.                                         *)
(***************************************************************************)
SaveShape(r) ==
  at[r] \in SaveStep =>
    /\ id[r] \in Ids(db.insts)
    /\ list[r] \in Payload
    /\ \A k \in 1..Len(list[r]) : list[r][k] \subseteq db.nodes
    /\ at[r] \in {"save.outs", "save.routes"} => pos[r] = 1
    /\ at[r] = "save.routes" => \A o \in db.outs : o.route \notin Ids(rows[r])
    /\ at[r] = "save.insert" => pos[r] \in 1..Len(list[r])
    /\ at[r] = "save.last" => pos[r] = Len(list[r]) + 1
    /\ at[r] \in {"save.insert", "save.last"} /\ pos[r] # 1 => last[r] \in Ids(db.routes)

\* A scan that is alone: its node and the instances it has read are there.
ScanShape(r) ==
  at[r] \in ScanStep =>
    /\ Entry \in db.nodes
    /\ at[r] \in {"scan.folder", "scan.commit", "scan.refresh", "scan.gone", "scan.disable"} =>
         Ids(rows[r]) \subseteq Ids(db.insts)
    /\ at[r] \in {"scan.commit", "scan.refresh"} => last[r] \in Ids(db.insts)

\* The deletions: what refers to a row is gone before the row is deleted.
PurgeShape(r) ==
  /\ at[r] = "purge.routes" => \A o \in db.outs : o.route \notin Ids(RoutesOf(db, id[r]))
  /\ at[r] = "purge.instance" => \A x \in db.routes : x.inst # id[r]

RemoveShape(r) ==
  /\ at[r] \in {"remove.routes", "remove.instances"} => db.outs = {}
  /\ at[r] = "remove.instances" => db.routes = {}
  /\ at[r] \in {"remove.landing", "remove.node"} /\ id[r] = Entry => db.insts = {}
  /\ at[r] = "remove.node" => \A o \in db.outs : o.landing # id[r]

Shapes(r) == SaveShape(r) /\ ScanShape(r) /\ PurgeShape(r) /\ RemoveShape(r)

Alone(r) == Active = {r} /\ at[r] # "failed" /\ Shapes(r)

LoneMappings == PerRequest(list) /\ PerRequest(pos) /\ PerRequest(last)

LoneInv == LoneMappings /\ \A r \in Request \ mixed : at[r] \in Step => Alone(r)

SameButOuts(t, u) == t.nodes = u.nodes /\ t.insts = u.insts /\ t.routes = u.routes

\* The outs of the route that was inserted last refer to what is there.
LEMMA OutsRefer ==
  ASSUME NEW r, NEW t, Shaped(t), Refers(t),
         pos[r] # 1 => /\ pos[r] - 1 \in 1..Len(list[r])
                       /\ last[r] \in Ids(t.routes),
         \A k \in 1..Len(list[r]) : list[r][k] \subseteq t.nodes
  PROVE  Refers(WithOuts(r, t)) /\ SameButOuts(WithOuts(r, t), t)
<1> DEFINE new == IF pos[r] = 1 THEN {}
                  ELSE {[route |-> last[r], landing |-> l] : l \in list[r][pos[r] - 1]}
           X == t.outs \cup new
<1>1. WithOuts(r, t) = [nodes |-> t.nodes, insts |-> t.insts, routes |-> t.routes, outs |-> X]
  BY Tables4 DEF WithOuts
<1>2. \A o \in new : o.route \in Ids(t.routes) /\ o.landing \in t.nodes
  OBVIOUS
<1> HIDE DEF new
<1>3. \A o \in X : o.route \in Ids(t.routes) /\ o.landing \in t.nodes
  BY <1>2 DEF Refers
<1> HIDE DEF X
<1> QED BY <1>1, <1>3 DEF Refers, SameButOuts

\* A step of a request that is open.
LEMMA LoneStep ==
  ASSUME LoneInv, PerRequest(at), NEW r \in Request, NEW s, at' = [at EXCEPT ![r] = s],
         at[r] \in Step, mixed \subseteq mixed', LoneMappings',
         r \notin mixed /\ Alone(r) => s # "failed" /\ Shapes(r)'
  PROVE  LoneInv'
<1>1. \A q \in Request \ {r} : at'[q] = at[q]
  BY DEF PerRequest
<1>2. at'[r] = s
  BY DEF PerRequest
<1> SUFFICES ASSUME NEW q \in Request, q \notin mixed', at'[q] \in Step PROVE Alone(q)'
  BY DEF LoneInv, LoneMappings
<1>3. q = r
  BY <1>1 DEF LoneInv, LoneMappings, Alone, Active
<1>4. Alone(r)
  BY <1>3 DEF LoneInv, LoneMappings
<1>5. Active' = {r}
  BY <1>1, <1>3, <1>4 DEF Active, Alone
<1> QED BY <1>2, <1>3, <1>4, <1>5 DEF Alone

\* A request that begins: whoever is open already has it no longer alone.
LEMMA LoneBegins ==
  ASSUME LoneInv, PerRequest(at), NEW r \in Request, NEW s \in Step \ {"failed"}, Begins(r, s),
         LoneMappings', Shapes(r)'
  PROVE  LoneInv'
<1>1. \A q \in Request \ {r} : at'[q] = at[q]
  BY DEF Begins, Go, PerRequest
<1>2. at'[r] = s /\ at[r] \notin Step
  BY DEF Begins, Go, PerRequest, Step, SaveStep, ScanStep, PurgeStep, RemoveStep
<1> SUFFICES ASSUME NEW q \in Request, q \notin mixed', at'[q] \in Step PROVE Alone(q)'
  BY DEF LoneInv, LoneMappings
<1>3. Active = {} /\ q \notin mixed
  BY <1>1, <1>2 DEF Begins, Active
<1>4. q = r /\ Active' = {r}
  BY <1>1, <1>2, <1>3 DEF Active
<1> QED BY <1>2, <1>4 DEF Alone

LEMMA SameMappings ==
  ASSUME LoneInv, UNCHANGED <<list, pos, last>>
  PROVE  LoneMappings'
BY DEF LoneInv, LoneMappings, PerRequest

\* A statement that breaks no foreign key does not fail.
LEMMA StatementSucceeds ==
  ASSUME NEW r, NEW t, NEW next, Statement(r, t, next), Refers(t)
  PROVE  db' = t /\ Go(r, next)
BY DEF Statement, ForeignKeysHold, Flush

LEMMA OpenSteps == "failed" \in Step /\ "idle" \notin Step
BY DEF Step, SaveStep, ScanStep, PurgeStep, RemoveStep

LEMMA SaveStaysWhole ==
  ASSUME LoneInv, FolderInv, PerRequest(at), NEW r \in Request, Save(r)
  PROVE  LoneInv'
<1> USE DEF PerRequest
<1>1. CASE BeginSave(r)
  <2>1. PICK i \in Ids(db.insts), p \in Payload :
          /\ UNION {p[k] : k \in 1..Len(p)} \subseteq db.nodes
          /\ Begins(r, "save.outs")
          /\ id' = [id EXCEPT ![r] = i]
          /\ list' = [list EXCEPT ![r] = p]
          /\ rows' = [rows EXCEPT ![r] = RoutesOf(db, i)]
          /\ pos' = [pos EXCEPT ![r] = 1]
          /\ UNCHANGED <<seen, left, last, lock>>
    BY <1>1 DEF BeginSave
  <2>2. LoneMappings'
    BY <2>1 DEF LoneInv, LoneMappings
  <2>3. id'[r] = i /\ list'[r] = p /\ pos'[r] = 1 /\ at'[r] = "save.outs" /\ db' = db
    BY <2>1 DEF LoneInv, LoneMappings, FolderInv, Begins, Go, connVars
  <2>4. \A k \in 1..Len(p) : p[k] \subseteq db.nodes
    BY <2>1
  <2>5. SaveShape(r)'
    BY <2>1, <2>3, <2>4 DEF SaveShape, Ids
  <2>6. ScanShape(r)' /\ PurgeShape(r)' /\ RemoveShape(r)'
    BY <2>3 DEF ScanShape, PurgeShape, RemoveShape, ScanStep
  <2>7. "save.outs" \in Step \ {"failed"}
    BY DEF Step, SaveStep
  <2> QED BY <2>1, <2>2, <2>5, <2>6, <2>7, LoneBegins DEF Shapes
<1>2. CASE SaveDeletesOuts(r)
  <2> DEFINE X == db.outs \ OutsOf(db, Ids(rows[r]))
             t == [db EXCEPT !.outs = X]
  <2>1. t = [nodes |-> db.nodes, insts |-> db.insts, routes |-> db.routes, outs |-> X]
    BY Tables4 DEF FolderInv
  <2>2. Refers(t)
    BY <2>1 DEF FolderInv, Refers, Ids
  <2>3. Statement(r, t, "save.routes") /\ at[r] = "save.outs"
        /\ UNCHANGED <<id, list, pos, last, rows, mixed>>
    BY <1>2 DEF SaveDeletesOuts, reqVars
  <2>4. \A o \in X : o.route \notin Ids(rows[r])
    BY DEF OutsOf
  <2> HIDE DEF t
  <2>5. db' = t /\ Go(r, "save.routes")
    BY <2>2, <2>3, StatementSucceeds
  <2>6. ASSUME Alone(r) PROVE Shapes(r)'
    <3>1. at'[r] = "save.routes"
      BY <2>5 DEF Go
    <3>2. SaveShape(r)'
      BY <2>1, <2>3, <2>4, <2>5, <2>6, <3>1 DEF Alone, Shapes, SaveShape, SaveStep, Ids
    <3> QED BY <3>1, <3>2 DEF Shapes, ScanShape, PurgeShape, RemoveShape, ScanStep
  <2>7. at[r] \in Step
    BY <2>3 DEF Step, SaveStep
  <2> QED BY <2>3, <2>5, <2>6, <2>7, SameMappings, LoneStep DEF Go
<1>3. CASE SaveDeletesRoutes(r)
  <2> DEFINE X == {x \in db.routes : x.id \notin Ids(rows[r])}
             t == [db EXCEPT !.routes = X]
  <2>1. t = [nodes |-> db.nodes, insts |-> db.insts, routes |-> X, outs |-> db.outs]
    BY Tables4 DEF FolderInv
  <2>3. Statement(r, t, "save.insert") /\ at[r] = "save.routes"
        /\ UNCHANGED <<id, list, pos, last, rows, mixed>>
    BY <1>3 DEF SaveDeletesRoutes, reqVars
  <2> HIDE DEF t
  <2>4. PICK s \in {"save.insert", "failed"} : Go(r, s)
    BY <2>3, StatementGoes
  <2>6. ASSUME Alone(r) PROVE s # "failed" /\ Shapes(r)'
    <3>1. Refers(t)
      <4>1. \A o \in db.outs : o.route \notin Ids(rows[r])
        BY <2>3, <2>6 DEF Alone, Shapes, SaveShape, SaveStep
      <4>2. \A o \in db.outs : o.route \in Ids(X)
        BY <4>1 DEF FolderInv, Refers, Ids
      <4> QED BY <2>1, <4>2 DEF FolderInv, Refers
    <3>2. db' = t /\ Go(r, "save.insert")
      BY <2>3, <3>1, StatementSucceeds
    <3>3. at'[r] = "save.insert" /\ s = "save.insert"
      BY <2>4, <3>2 DEF Go
    <3>4. Len(list[r]) \in Nat /\ Len(list[r]) # 0
      <4>1. list[r] \in Payload
        BY <2>3, <2>6 DEF Alone, Shapes, SaveShape, SaveStep
      <4> QED BY <4>1, StoreAssumption
    <3>5. SaveShape(r)'
      BY <2>1, <2>3, <2>6, <3>2, <3>3, <3>4 DEF Alone, Shapes, SaveShape, SaveStep, Ids
    <3> QED BY <3>3, <3>5 DEF Shapes, ScanShape, PurgeShape, RemoveShape, ScanStep
  <2>7. at[r] \in Step
    BY <2>3 DEF Step, SaveStep
  <2> QED BY <2>3, <2>4, <2>6, <2>7, SameMappings, LoneStep DEF Go
<1>4. CASE SaveInserts(r)
  <2> DEFINE k == pos[r]
             n == NewId(db.routes)
             new == [id |-> n, inst |-> id[r], pos |-> k, fallback |-> k = Len(list[r])]
             X == db.routes \cup {new}
             t == [db EXCEPT !.routes = X]
             step == IF k = Len(list[r]) THEN "save.last" ELSE "save.insert"
  <2> HIDE DEF n
  <2>1. /\ at[r] = "save.insert"
        /\ \/ Statement(r, WithOuts(r, t), step)
           \/ ~ Refers(WithOuts(r, db)) /\ Go(r, "failed")
        /\ last' = [last EXCEPT ![r] = n]
        /\ pos' = [pos EXCEPT ![r] = k + 1]
        /\ UNCHANGED <<id, list, rows, mixed>>
    BY <1>4 DEF SaveInserts, n, ForeignKeysHold, Fails
  <2>0. new.id = n /\ new.inst = id[r]
    OBVIOUS
  <2> HIDE DEF new
  <2>2. t = [nodes |-> db.nodes, insts |-> db.insts, routes |-> X, outs |-> db.outs]
    BY Tables4 DEF FolderInv
  <2>3. Shaped(t)
    BY <2>2 DEF Shaped
  <2> HIDE DEF t
  <2>4. PICK s \in {step, "failed"} : Go(r, s)
    BY <2>1, StatementGoes
  <2>5. LoneMappings'
    BY <2>1 DEF LoneInv, LoneMappings
  <2>6. ASSUME Alone(r) PROVE s # "failed" /\ Shapes(r)'
    <3>1. /\ id[r] \in Ids(db.insts) /\ list[r] \in Payload
          /\ \A j \in 1..Len(list[r]) : list[r][j] \subseteq db.nodes
          /\ k \in 1..Len(list[r])
          /\ k # 1 => last[r] \in Ids(db.routes)
      BY <2>1, <2>6 DEF Alone, Shapes, SaveShape, SaveStep
    <3>2. Len(list[r]) \in Nat
      BY <3>1, StoreAssumption
    <3>3. Refers(WithOuts(r, db))
      BY <3>1, <3>2, OutsRefer DEF FolderInv
    <3>4. Refers(t) /\ Ids(db.routes) \subseteq Ids(t.routes) /\ n \in Ids(t.routes)
      <4>1. Ids(db.routes) \subseteq Ids(X) /\ n \in Ids(X)
        BY <2>0 DEF Ids
      <4>2. \A x \in X : x.inst \in Ids(db.insts)
        BY <2>0, <3>1 DEF FolderInv, Refers
      <4> HIDE DEF X
      <4> QED BY <2>2, <4>1, <4>2 DEF FolderInv, Refers
    <3>5. Refers(WithOuts(r, t)) /\ SameButOuts(WithOuts(r, t), t)
      <4>1. t.nodes = db.nodes
        BY <2>2
      <4> QED BY <2>3, <3>1, <3>2, <3>4, <4>1, OutsRefer
    <3>6. db' = WithOuts(r, t) /\ Go(r, step)
      BY <2>1, <3>3, <3>5, StatementSucceeds
    <3>7. at'[r] = step /\ s = step /\ step # "failed"
      BY <2>4, <3>6 DEF Go
    <3>8. pos'[r] = k + 1 /\ last'[r] = n
      BY <2>1 DEF LoneInv, LoneMappings
    <3>9. db'.nodes = db.nodes /\ db'.insts = db.insts /\ db'.routes = t.routes
      BY <2>2, <3>5, <3>6 DEF SameButOuts
    <3> HIDE DEF k
    <3>10. SaveShape(r)'
      BY <2>1, <3>1, <3>2, <3>4, <3>7, <3>8, <3>9 DEF SaveShape, SaveStep, Ids
    <3> QED BY <3>7, <3>10 DEF Shapes, ScanShape, PurgeShape, RemoveShape, ScanStep
  <2>7. at[r] \in Step
    BY <2>1 DEF Step, SaveStep
  <2> QED BY <2>1, <2>4, <2>5, <2>6, <2>7, LoneStep DEF Go
<1>5. CASE SaveInsertsLastOuts(r)
  <2>1. /\ Statement(r, WithOuts(r, db), "save.commit") /\ at[r] = "save.last"
        /\ UNCHANGED <<id, list, pos, last, rows, mixed>>
    BY <1>5 DEF SaveInsertsLastOuts, reqVars
  <2>4. PICK s \in {"save.commit", "failed"} : Go(r, s)
    BY <2>1, StatementGoes
  <2>6. ASSUME Alone(r) PROVE s # "failed" /\ Shapes(r)'
    <3>1. /\ list[r] \in Payload
          /\ \A j \in 1..Len(list[r]) : list[r][j] \subseteq db.nodes
          /\ pos[r] = Len(list[r]) + 1
          /\ pos[r] # 1 => last[r] \in Ids(db.routes)
      BY <2>1, <2>6 DEF Alone, Shapes, SaveShape, SaveStep
    <3>2. Len(list[r]) \in Nat
      BY <3>1, StoreAssumption
    <3>3. Refers(WithOuts(r, db)) /\ SameButOuts(WithOuts(r, db), db)
      BY <3>1, <3>2, OutsRefer DEF FolderInv
    <3>4. db' = WithOuts(r, db) /\ Go(r, "save.commit")
      BY <2>1, <3>3, StatementSucceeds
    <3>5. at'[r] = "save.commit" /\ s = "save.commit"
      BY <2>4, <3>4 DEF Go
    <3>6. SaveShape(r)'
      BY <2>1, <2>6, <3>3, <3>4, <3>5 DEF SameButOuts, Alone, Shapes, SaveShape, SaveStep, Ids
    <3> QED BY <3>5, <3>6 DEF Shapes, ScanShape, PurgeShape, RemoveShape, ScanStep
  <2>7. at[r] \in Step
    BY <2>1 DEF Step, SaveStep
  <2> QED BY <2>1, <2>4, <2>6, <2>7, SameMappings, LoneStep DEF Go
<1>6. CASE SaveCommits(r)
  <2>1. /\ Go(r, "close") /\ at[r] = "save.commit" /\ UNCHANGED <<list, pos, last, mixed>>
    BY <1>6 DEF SaveCommits, Commits, reqVars
  <2>2. at'[r] = "close" /\ at[r] \in Step
    BY <2>1 DEF Go, Step, SaveStep
  <2>3. Shapes(r)'
    BY <2>2 DEF Shapes, SaveShape, ScanShape, PurgeShape, RemoveShape, SaveStep, ScanStep
  <2> QED BY <2>1, <2>2, <2>3, SameMappings, LoneStep DEF Go
<1> QED BY <1>1, <1>2, <1>3, <1>4, <1>5, <1>6 DEF Save

\* The scan's UPDATEs leave the ids.
LEMMA EnabledKeepsIds ==
  ASSUME NEW t, NEW I, NEW b, Shaped(t)
  PROVE  Ids(Enabled(t, I, b).insts) = Ids(t.insts) /\ Enabled(t, I, b).nodes = t.nodes
<1> DEFINE row(y) == IF y.id \in I THEN Row(y.id, y.folder, b) ELSE y
           X == {row(y) : y \in t.insts}
<1>1. Enabled(t, I, b) = [nodes |-> t.nodes, insts |-> X, routes |-> t.routes, outs |-> t.outs]
  BY Tables4 DEF Enabled
<1>2. \A y : row(y).id = y.id
  BY DEF Row
<1> HIDE DEF row
<1> QED BY <1>1, <1>2 DEF Ids

\* A scan that goes on with the instances it has read.
LEMMA ScanGoesOn ==
  ASSUME NEW r, at'[r] \in ScanStep \cup {"close"}, Entry \in db'.nodes,
         Ids(rows'[r]) \subseteq Ids(db'.insts),
         at'[r] \in {"scan.commit", "scan.refresh"} => last'[r] \in Ids(db'.insts)
  PROVE  Shapes(r)'
<1>1. ScanShape(r)'
  BY DEF ScanShape, Ids
<1> QED BY <1>1 DEF Shapes, SaveShape, PurgeShape, RemoveShape, SaveStep, ScanStep

LEMMA ScanStaysWhole ==
  ASSUME LoneInv, FolderInv, PerRequest(at), NEW r \in Request, Scan(r)
  PROVE  LoneInv'
<1> USE DEF PerRequest
<1>0. ScanStep \subseteq Step /\ {"failed", "close"} \subseteq Step
  BY DEF Step
<1>1. CASE BeginScan(r)
  <2>1. Begins(r, "scan.read") /\ Entry \in db.nodes /\ UNCHANGED <<list, pos, last>>
    BY <1>1 DEF BeginScan
  <2>2. at'[r] = "scan.read" /\ db' = db
    BY <2>1 DEF Begins, Go, connVars
  <2>3. Shapes(r)'
    BY <2>1, <2>2 DEF Shapes, SaveShape, ScanShape, PurgeShape, RemoveShape, SaveStep, ScanStep
  <2>4. "scan.read" \in Step \ {"failed"}
    BY DEF Step, ScanStep
  <2> QED BY <2>1, <2>3, <2>4, SameMappings, LoneBegins
<1>2. CASE ScanError(r)
  <2>1. /\ Go(r, "scan.error") /\ at[r] = "scan.read"
        /\ UNCHANGED <<db, list, pos, last, mixed>>
    BY <1>2 DEF ScanError, connVars, reqVars
  <2>2. at'[r] = "scan.error" /\ at[r] \in Step
    BY <2>1 DEF Go, Step, ScanStep
  <2>3. ASSUME Alone(r) PROVE Shapes(r)'
    BY <2>1, <2>2, <2>3
       DEF Alone, Shapes, SaveShape, ScanShape, PurgeShape, RemoveShape, SaveStep, ScanStep
  <2> QED BY <2>1, <2>2, <2>3, SameMappings, LoneStep DEF Go
<1>3. CASE ScanReads(r)
  <2>1. PICK s \in {"scan.gone", "scan.folder"} : Go(r, s)
    BY <1>3 DEF ScanReads, AfterFolder
  <2>2. /\ rows' = [rows EXCEPT ![r] = db.insts] /\ at[r] = "scan.read"
        /\ UNCHANGED <<db, list, pos, last, mixed>>
    BY <1>3 DEF ScanReads, connVars
  <2>3. at'[r] = s /\ rows'[r] = db.insts
    BY <2>1, <2>2 DEF Go, FolderInv
  <2>4. at[r] \in Step
    BY <2>2 DEF Step, ScanStep
  <2>5. ASSUME Alone(r) PROVE Shapes(r)'
    BY <2>2, <2>3, <2>5, ScanGoesOn DEF Alone, Shapes, ScanShape, ScanStep
  <2> QED BY <2>1, <2>2, <2>4, <2>5, SameMappings, LoneStep DEF Go
<1>4. CASE ScanInserts(r)
  <2> DEFINE i == NewId(db.insts)
  <2>1. PICK f \in left[r] :
          /\ Statement(r, [db EXCEPT !.insts = @ \cup {Row(i, f, TRUE)}], "scan.commit")
          /\ Takes(r, f, i)
    BY <1>4 DEF ScanInserts
  <2> HIDE DEF i
  <2> DEFINE X == db.insts \cup {Row(i, f, TRUE)}
             t == [db EXCEPT !.insts = X]
  <2>2. t = [nodes |-> db.nodes, insts |-> X, routes |-> db.routes, outs |-> db.outs]
    BY Tables4 DEF FolderInv
  <2>3. Statement(r, t, "scan.commit")
    BY <2>1
  <2> HIDE DEF t
  <2>4. at[r] = "scan.folder" /\ last' = [last EXCEPT ![r] = i] /\ UNCHANGED <<list, pos, rows, mixed>>
    BY <1>4, <2>1 DEF ScanInserts, Takes
  <2>5. PICK s \in {"scan.commit", "failed"} : Go(r, s)
    BY <2>3, StatementGoes
  <2>6. LoneMappings' /\ last'[r] = i
    BY <2>4 DEF LoneInv, LoneMappings
  <2>7. ASSUME Alone(r) PROVE s # "failed" /\ Shapes(r)'
    <3>1. Entry \in db.nodes /\ Ids(rows[r]) \subseteq Ids(db.insts)
      BY <2>4, <2>7 DEF Alone, Shapes, ScanShape, ScanStep
    <3>2. Ids(db.insts) \subseteq Ids(X) /\ i \in Ids(X)
      BY DEF Ids, Row
    <3> HIDE DEF X
    <3>3. Refers(t)
      BY <2>2, <3>1, <3>2 DEF FolderInv, Refers
    <3>4. db' = t /\ Go(r, "scan.commit")
      BY <2>3, <3>3, StatementSucceeds
    <3>5. at'[r] = "scan.commit" /\ s = "scan.commit"
      BY <2>5, <3>4 DEF Go
    <3>6. "scan.commit" \in ScanStep
      BY DEF ScanStep
    <3>7. Shapes(r)'
      BY <2>2, <2>4, <2>6, <3>1, <3>2, <3>4, <3>5, <3>6, ScanGoesOn
    <3> QED BY <3>5, <3>7
  <2>8. at[r] \in Step
    BY <2>4 DEF Step, ScanStep
  <2> QED BY <2>4, <2>5, <2>6, <2>7, <2>8, LoneStep DEF Go
<1>5. CASE ScanUpdates(r)
  <2>1. PICK x \in rows[r] :
          /\ \/ /\ Flush(r, [db EXCEPT !.insts =
                      {IF y.id = x.id THEN Row(y.id, y.folder, TRUE) ELSE y : y \in @}])
                /\ Go(r, "scan.commit")
             \/ x.id \notin Ids(db.insts) /\ Fails(r)
          /\ Takes(r, x.folder, x.id)
    BY <1>5 DEF ScanUpdates
  <2> DEFINE u == Enabled(db, {x.id}, TRUE)
  <2>2. u = [db EXCEPT !.insts = {IF y.id = x.id THEN Row(y.id, y.folder, TRUE) ELSE y : y \in @}]
    BY DEF Enabled
  <2>3. Ids(u.insts) = Ids(db.insts) /\ u.nodes = db.nodes
    BY EnabledKeepsIds DEF FolderInv
  <2> HIDE DEF u
  <2>4. \/ db' = u /\ Go(r, "scan.commit")
        \/ x.id \notin Ids(db.insts) /\ Go(r, "failed")
    BY <2>1, <2>2 DEF Flush, Fails
  <2>5. at[r] = "scan.folder" /\ last' = [last EXCEPT ![r] = x.id]
        /\ UNCHANGED <<list, pos, rows, mixed>>
    BY <1>5, <2>1 DEF ScanUpdates, Takes
  <2>6. LoneMappings' /\ last'[r] = x.id
    BY <2>5 DEF LoneInv, LoneMappings
  <2>7. PICK s \in {"scan.commit", "failed"} : Go(r, s)
    BY <2>4
  <2>8. ASSUME Alone(r) PROVE s # "failed" /\ Shapes(r)'
    <3>1. Entry \in db.nodes /\ Ids(rows[r]) \subseteq Ids(db.insts)
      BY <2>5, <2>8 DEF Alone, Shapes, ScanShape, ScanStep
    <3>2. x.id \in Ids(db.insts)
      BY <3>1 DEF Ids
    <3>3. db' = u /\ Go(r, "scan.commit")
      BY <2>4, <3>2
    <3>4. at'[r] = "scan.commit" /\ s = "scan.commit"
      BY <2>7, <3>3 DEF Go
    <3>5. "scan.commit" \in ScanStep
      BY DEF ScanStep
    <3>6. Shapes(r)'
      BY <2>3, <2>5, <2>6, <3>1, <3>2, <3>3, <3>4, <3>5, ScanGoesOn
    <3> QED BY <3>4, <3>6
  <2>9. at[r] \in Step
    BY <2>5 DEF Step, ScanStep
  <2> QED BY <2>5, <2>6, <2>7, <2>8, <2>9, LoneStep DEF Go
\* A step that writes nothing and leaves what was read.
<1>6. ASSUME NEW s, Go(r, s), UNCHANGED <<db, list, pos, rows, last, mixed>>, at[r] \in ScanStep,
             Alone(r) => s \in {"scan.folder", "scan.gone", "scan.refresh", "scan.reconcile", "close"},
             s \in {"scan.reconcile", "close"} \/ at[r] \in {"scan.commit", "scan.refresh"},
             s = "scan.refresh" => at[r] = "scan.commit"
      PROVE  LoneInv'
  <2>1. at'[r] = s
    BY <1>6 DEF Go
  <2>2. ASSUME Alone(r) PROVE s # "failed" /\ Shapes(r)'
    <3>1. ScanShape(r)
      BY <2>2 DEF Alone, Shapes
    <3>2. s \in ScanStep \cup {"close"}
      BY <1>6, <2>2 DEF ScanStep
    <3>3. ScanShape(r)'
      BY <1>6, <2>1, <2>2, <3>1 DEF ScanShape, Ids, ScanStep
    <3>4. Shapes(r)'
      BY <2>1, <3>2, <3>3 DEF Shapes, SaveShape, PurgeShape, RemoveShape, SaveStep, ScanStep
    <3> QED BY <1>6, <2>2, <3>4
  <2> QED BY <1>0, <1>6, <2>2, SameMappings, LoneStep DEF Go
<1>7. CASE ScanCommits(r)
  <2>1. /\ Go(r, "scan.refresh") /\ at[r] = "scan.commit"
        /\ UNCHANGED <<db, list, pos, rows, last, mixed>>
    BY <1>7 DEF ScanCommits, Commits, CommitAll, reqVars
  <2>2. at[r] \in ScanStep
    BY <2>1 DEF ScanStep
  <2> QED BY <1>6, <2>1, <2>2
<1>8. CASE ScanRefreshes(r)
  <2>1. /\ UNCHANGED <<db, list, pos, rows, last, mixed>> /\ at[r] = "scan.refresh"
        /\ Go(r, IF last[r] \in Ids(db.insts) THEN AfterFolder(r) ELSE "failed")
    BY <1>8 DEF ScanRefreshes, connVars, reqVars
  <2>2. at[r] \in ScanStep
    BY <2>1 DEF ScanStep
  <2>3. Alone(r) => last[r] \in Ids(db.insts)
    BY <2>1, <2>2 DEF Alone, Shapes, ScanShape
  <2>4. AfterFolder(r) \in {"scan.folder", "scan.gone"}
    BY DEF AfterFolder
  <2> DEFINE s == IF last[r] \in Ids(db.insts) THEN AfterFolder(r) ELSE "failed"
  <2>5. Go(r, s)
    BY <2>1
  <2>6. /\ s # "scan.refresh"
        /\ Alone(r) => s \in {"scan.folder", "scan.gone"}
    BY <2>3, <2>4
  <2> HIDE DEF s
  <2> QED BY <1>6, <2>1, <2>2, <2>5, <2>6
<1>9. CASE ScanFindsGone(r)
  <2> DEFINE gone    == {x \in rows[r] : x.folder \notin seen[r]}
             enabled == {x \in (IF seen[r] = {} THEN gone ELSE db.insts) :
                           x.enabled /\ x.id \in Ids(gone)}
  <2>1. /\ at[r] = "scan.gone"
        /\ \/ /\ rows' = [rows EXCEPT ![r] = enabled]
              /\ Go(r, "scan.disable")
           \/ /\ seen[r] # {} /\ ~ Ids(gone) \subseteq Ids(db.insts)
              /\ Go(r, "failed")
        /\ UNCHANGED <<db, list, pos, last, mixed>>
    BY <1>9 DEF ScanFindsGone, connVars
  <2>2. PICK s \in {"scan.disable", "failed"} : Go(r, s)
    BY <2>1
  <2>3. ASSUME Alone(r) PROVE s # "failed" /\ Shapes(r)'
    <3>1. Entry \in db.nodes /\ Ids(rows[r]) \subseteq Ids(db.insts)
      BY <2>1, <2>3 DEF Alone, Shapes, ScanShape, ScanStep
    <3>2. Ids(gone) \subseteq Ids(db.insts)
      BY <3>1 DEF Ids
    <3>3. rows'[r] = enabled /\ Go(r, "scan.disable")
      BY <2>1, <3>2 DEF FolderInv
    <3>4. Ids(enabled) \subseteq Ids(db.insts)
      BY <3>2 DEF Ids
    <3> HIDE DEF enabled
    <3>5. at'[r] = "scan.disable" /\ s = "scan.disable" /\ "scan.disable" \in ScanStep
      BY <2>2, <3>3 DEF Go, ScanStep
    <3> QED BY <2>1, <3>1, <3>3, <3>4, <3>5, ScanGoesOn
  <2>4. at[r] \in Step
    BY <2>1 DEF Step, ScanStep
  <2> QED BY <2>1, <2>2, <2>3, <2>4, SameMappings, LoneStep DEF Go
<1>10. CASE ScanDisables(r)
  <2> DEFINE u == Enabled(db, Ids(rows[r]), FALSE)
  <2>1. /\ at[r] = "scan.disable"
        /\ \/ db' = u /\ Go(r, "scan.end")
           \/ ~ (Ids(rows[r]) \subseteq Ids(db.insts) /\ Entry \in db.nodes) /\ Go(r, "failed")
        /\ UNCHANGED <<list, pos, rows, last, mixed>>
    BY <1>10 DEF ScanDisables, Flush, Fails, Enabled, reqVars
  <2>2. u.nodes = db.nodes
    BY EnabledKeepsIds DEF FolderInv
  <2> HIDE DEF u
  <2>3. PICK s \in {"scan.end", "failed"} : Go(r, s)
    BY <2>1
  <2>4. ASSUME Alone(r) PROVE s # "failed" /\ Shapes(r)'
    <3>1. Entry \in db.nodes /\ Ids(rows[r]) \subseteq Ids(db.insts)
      BY <2>1, <2>4 DEF Alone, Shapes, ScanShape, ScanStep
    <3>2. db' = u /\ Go(r, "scan.end")
      BY <2>1, <3>1
    <3>3. at'[r] = "scan.end" /\ s = "scan.end"
      BY <2>3, <3>2 DEF Go
    <3>4. ScanShape(r)'
      BY <2>2, <3>1, <3>2, <3>3 DEF ScanShape
    <3> QED BY <3>3, <3>4 DEF Shapes, SaveShape, PurgeShape, RemoveShape, SaveStep, ScanStep
  <2>5. at[r] \in Step
    BY <2>1 DEF Step, ScanStep
  <2> QED BY <2>1, <2>3, <2>4, <2>5, SameMappings, LoneStep DEF Go
<1>11. CASE ScanEnds(r)
  <2>1. /\ Go(r, "scan.reconcile") /\ at[r] = "scan.end"
        /\ UNCHANGED <<db, list, pos, rows, last, mixed>>
    BY <1>11 DEF ScanEnds, Commits, CommitAll, reqVars
  <2>2. at[r] \in ScanStep
    BY <2>1 DEF ScanStep
  <2> QED BY <1>6, <2>1, <2>2
<1>12. CASE ScanReturns(r)
  <2>1. /\ Go(r, "close") /\ at[r] = "scan.reconcile"
        /\ UNCHANGED <<db, list, pos, rows, last, mixed>>
    BY <1>12 DEF ScanReturns, connVars, reqVars
  <2>2. at[r] \in ScanStep
    BY <2>1 DEF ScanStep
  <2> QED BY <1>6, <2>1, <2>2
<1>13. CASE ScanUnwinds(r)
  <2>1. /\ Go(r, "close") /\ at[r] \in {"scan.error", "failed"} /\ mixed \subseteq mixed'
        /\ UNCHANGED <<list, pos, last>>
    BY <1>13 DEF ScanUnwinds, Discards, reqVars
  <2>2. at'[r] = "close" /\ at[r] \in Step
    BY <2>1 DEF Go, Step, ScanStep
  <2>3. Shapes(r)'
    BY <2>2 DEF Shapes, SaveShape, ScanShape, PurgeShape, RemoveShape, SaveStep, ScanStep
  <2> QED BY <2>1, <2>2, <2>3, SameMappings, LoneStep DEF Go
<1> QED
  BY <1>1, <1>2, <1>3, <1>4, <1>5, <1>7, <1>8, <1>9, <1>10, <1>11, <1>12, <1>13 DEF Scan

LEMMA PurgeStaysWhole ==
  ASSUME LoneInv, FolderInv, PerRequest(at), NEW r \in Request, Purge(r)
  PROVE  LoneInv'
<1> USE DEF PerRequest
<1>1. CASE BeginPurge(r)
  <2>1. Begins(r, "purge.outs") /\ UNCHANGED <<list, pos, last>>
    BY <1>1 DEF BeginPurge
  <2>2. at'[r] = "purge.outs"
    BY <2>1 DEF Begins, Go
  <2>3. Shapes(r)'
    BY <2>2 DEF Shapes, SaveShape, ScanShape, PurgeShape, RemoveShape, SaveStep, ScanStep
  <2>4. "purge.outs" \in Step \ {"failed"}
    BY DEF Step, PurgeStep
  <2> QED BY <2>1, <2>3, <2>4, SameMappings, LoneBegins
<1>2. CASE PurgeDeletes(r)
  <2> DEFINE mine == Ids(RoutesOf(db, id[r]))
  <2>1. UNCHANGED <<id, list, pos, last, mixed>> /\ at[r] \in Step
    BY <1>2 DEF PurgeDeletes, reqVars, Step, PurgeStep
  \* One of the three deletions, which cannot fail when r is alone.
  <2>2. ASSUME NEW t, NEW next \in {"purge.routes", "purge.instance", "purge.commit"},
               Statement(r, t, next), Alone(r) => Refers(t),
               next = "purge.routes" => \A o \in t.outs : o.route \notin Ids(RoutesOf(t, id[r])),
               next = "purge.instance" => \A x \in t.routes : x.inst # id[r]
        PROVE  LoneInv'
    <3>1. PICK s \in {next, "failed"} : Go(r, s)
      BY <2>2, StatementGoes
    <3>2. ASSUME Alone(r) PROVE s # "failed" /\ Shapes(r)'
      <4>1. db' = t /\ Go(r, next)
        BY <2>2, <3>2, StatementSucceeds
      <4>2. at'[r] = next /\ s = next
        BY <3>1, <4>1 DEF Go
      <4>3. PurgeShape(r)'
        BY <2>1, <2>2, <4>1, <4>2 DEF PurgeShape, Ids, RoutesOf
      <4> QED BY <4>2, <4>3 DEF Shapes, SaveShape, ScanShape, RemoveShape, SaveStep, ScanStep
    <3> QED BY <2>1, <3>1, <3>2, SameMappings, LoneStep DEF Go
  <2>3. CASE at[r] = "purge.outs"
    <3> DEFINE X == {o \in db.outs : o.route \notin mine}
               t == [db EXCEPT !.outs = X]
    <3>1. t = [nodes |-> db.nodes, insts |-> db.insts, routes |-> db.routes, outs |-> X]
      BY Tables4 DEF FolderInv
    <3>2. Statement(r, t, "purge.routes")
      BY <1>2, <2>3 DEF PurgeDeletes
    <3> HIDE DEF t
    <3>3. Refers(t)
      BY <3>1 DEF FolderInv, Refers
    <3>4. \A o \in t.outs : o.route \notin Ids(RoutesOf(t, id[r]))
      BY <3>1 DEF RoutesOf
    <3> QED BY <2>2, <3>2, <3>3, <3>4
  <2>4. CASE at[r] = "purge.routes"
    <3> DEFINE X == {x \in db.routes : x.inst # id[r]}
               t == [db EXCEPT !.routes = X]
    <3>1. t = [nodes |-> db.nodes, insts |-> db.insts, routes |-> X, outs |-> db.outs]
      BY Tables4 DEF FolderInv
    <3>2. Statement(r, t, "purge.instance")
      BY <1>2, <2>4 DEF PurgeDeletes
    <3> HIDE DEF t
    <3>3. ASSUME Alone(r) PROVE Refers(t)
      <4>1. \A o \in db.outs : o.route \notin mine
        BY <2>4, <3>3 DEF Alone, Shapes, PurgeShape
      <4>2. \A o \in db.outs : o.route \in Ids(X)
        BY <4>1 DEF FolderInv, Refers, Ids, RoutesOf
      <4> QED BY <3>1, <4>2 DEF FolderInv, Refers
    <3> QED BY <2>2, <3>1, <3>2, <3>3
  <2>5. CASE at[r] = "purge.instance"
    <3> DEFINE X == {x \in db.insts : x.id # id[r]}
               t == [db EXCEPT !.insts = X]
    <3>1. t = [nodes |-> db.nodes, insts |-> X, routes |-> db.routes, outs |-> db.outs]
      BY Tables4 DEF FolderInv
    <3>2. Statement(r, t, "purge.commit")
      BY <1>2, <2>5 DEF PurgeDeletes
    <3> HIDE DEF t
    <3>3. ASSUME Alone(r) PROVE Refers(t)
      <4>1. \A x \in db.routes : x.inst # id[r]
        BY <2>5, <3>3 DEF Alone, Shapes, PurgeShape
      <4>2. \A x \in db.routes : x.inst \in Ids(X)
        BY <4>1 DEF FolderInv, Refers, Ids
      <4> QED BY <3>1, <4>2 DEF FolderInv, Refers
    <3> QED BY <2>2, <3>2, <3>3
  <2> QED BY <1>2, <2>3, <2>4, <2>5 DEF PurgeDeletes
<1>3. CASE PurgeCommits(r)
  <2>1. Go(r, "close") /\ at[r] = "purge.commit" /\ UNCHANGED <<list, pos, last, mixed>>
    BY <1>3 DEF PurgeCommits, Commits, reqVars
  <2>2. at'[r] = "close" /\ at[r] \in Step
    BY <2>1 DEF Go, Step, PurgeStep
  <2>3. Shapes(r)'
    BY <2>2 DEF Shapes, SaveShape, ScanShape, PurgeShape, RemoveShape, SaveStep, ScanStep
  <2> QED BY <2>1, <2>2, <2>3, SameMappings, LoneStep DEF Go
<1> QED BY <1>1, <1>2, <1>3 DEF Purge

LEMMA RemoveStaysWhole ==
  ASSUME LoneInv, EntryRemoves, FolderInv, PerRequest(at), NEW r \in Request, Remove(r)
  PROVE  LoneInv'
<1> USE DEF PerRequest
<1>1. CASE BeginRemove(r)
  <2>1. Begins(r, "remove.read") /\ UNCHANGED <<list, pos, last>>
    BY <1>1 DEF BeginRemove
  <2>2. at'[r] = "remove.read"
    BY <2>1 DEF Begins, Go
  <2>3. Shapes(r)'
    BY <2>2 DEF Shapes, SaveShape, ScanShape, PurgeShape, RemoveShape, SaveStep, ScanStep
  <2>4. "remove.read" \in Step \ {"failed"}
    BY DEF Step, RemoveStep
  <2> QED BY <2>1, <2>3, <2>4, SameMappings, LoneBegins
<1>2. CASE RemoveReads(r)
  <2> DEFINE s == IF id[r] = Entry /\ db.insts # {} THEN "remove.outs" ELSE "remove.landing"
  <2>1. /\ Go(r, s) /\ at[r] = "remove.read" /\ UNCHANGED <<db, id, list, pos, last, mixed>>
    BY <1>2 DEF RemoveReads, connVars, reqVars
  <2>2. at'[r] = s /\ at[r] \in Step
    BY <2>1 DEF Go, Step, RemoveStep
  <2>3. Shapes(r)'
    BY <2>1, <2>2 DEF Shapes, SaveShape, ScanShape, PurgeShape, RemoveShape, SaveStep, ScanStep
  <2> QED BY <2>1, <2>2, <2>3, SameMappings, LoneStep DEF Go
<1>3. CASE RemoveDeletes(r)
  <2>1. UNCHANGED <<id, list, pos, last, mixed>> /\ at[r] \in Step
    BY <1>3 DEF RemoveDeletes, reqVars, Step, RemoveStep
  \* One of the deletions, which cannot fail when r is alone.
  <2>2. ASSUME NEW t, NEW next \in {"remove.routes", "remove.instances", "remove.landing",
                                   "remove.node", "remove.commit"},
               Statement(r, t, next),
               Alone(r) =>
                 /\ Refers(t)
                 /\ next \in {"remove.routes", "remove.instances"} => t.outs = {}
                 /\ next = "remove.instances" => t.routes = {}
                 /\ next \in {"remove.landing", "remove.node"} /\ id[r] = Entry => t.insts = {}
                 /\ next = "remove.node" => \A o \in t.outs : o.landing # id[r]
        PROVE  LoneInv'
    <3>1. PICK s \in {next, "failed"} : Go(r, s)
      BY <2>2, StatementGoes
    <3>2. ASSUME Alone(r) PROVE s # "failed" /\ Shapes(r)'
      <4>1. db' = t /\ Go(r, next)
        BY <2>2, <3>2, StatementSucceeds
      <4>2. at'[r] = next /\ s = next
        BY <3>1, <4>1 DEF Go
      <4>3. RemoveShape(r)'
        BY <2>1, <2>2, <3>2, <4>1, <4>2 DEF RemoveShape
      <4> QED BY <4>2, <4>3 DEF Shapes, SaveShape, ScanShape, PurgeShape, SaveStep, ScanStep
    <3> QED BY <2>1, <3>1, <3>2, SameMappings, LoneStep DEF Go
  <2>3. CASE at[r] = "remove.outs"
    <3> DEFINE t == [db EXCEPT !.outs = {}]
    <3>1. t = [nodes |-> db.nodes, insts |-> db.insts, routes |-> db.routes, outs |-> {}]
      BY Tables4 DEF FolderInv
    <3>2. Statement(r, t, "remove.routes")
      BY <1>3, <2>3 DEF RemoveDeletes
    <3> HIDE DEF t
    <3>3. Refers(t)
      BY <3>1 DEF FolderInv, Refers
    <3> QED BY <2>2, <3>1, <3>2, <3>3
  <2>4. CASE at[r] = "remove.routes"
    <3> DEFINE t == [db EXCEPT !.routes = {}]
    <3>1. t = [nodes |-> db.nodes, insts |-> db.insts, routes |-> {}, outs |-> db.outs]
      BY Tables4 DEF FolderInv
    <3>2. Statement(r, t, "remove.instances")
      BY <1>3, <2>4 DEF RemoveDeletes
    <3> HIDE DEF t
    <3>3. ASSUME Alone(r) PROVE t.outs = {} /\ t.routes = {} /\ Refers(t)
      BY <2>4, <3>1, <3>3 DEF Alone, Shapes, RemoveShape, FolderInv, Refers
    <3> QED BY <2>2, <3>2, <3>3
  <2>5. CASE at[r] = "remove.instances"
    <3> DEFINE t == [db EXCEPT !.insts = {}]
    <3>1. t = [nodes |-> db.nodes, insts |-> {}, routes |-> db.routes, outs |-> db.outs]
      BY Tables4 DEF FolderInv
    <3>2. Statement(r, t, "remove.landing")
      BY <1>3, <2>5 DEF RemoveDeletes
    <3> HIDE DEF t
    <3>3. ASSUME Alone(r) PROVE Refers(t)
      BY <2>5, <3>1, <3>3 DEF Alone, Shapes, RemoveShape, Refers
    <3> QED BY <2>2, <3>1, <3>2, <3>3
  <2>6. CASE at[r] = "remove.landing"
    <3> DEFINE X == {o \in db.outs : o.landing # id[r]}
               t == [db EXCEPT !.outs = X]
    <3>1. t = [nodes |-> db.nodes, insts |-> db.insts, routes |-> db.routes, outs |-> X]
      BY Tables4 DEF FolderInv
    <3>2. Statement(r, t, "remove.node")
      BY <1>3, <2>6 DEF RemoveDeletes
    <3> HIDE DEF t
    <3>3. Refers(t)
      BY <3>1 DEF FolderInv, Refers
    <3>4. Alone(r) /\ id[r] = Entry => t.insts = {}
      BY <2>6, <3>1 DEF Alone, Shapes, RemoveShape
    <3> QED BY <2>2, <3>1, <3>2, <3>3, <3>4
  <2>7. CASE at[r] = "remove.node"
    <3> DEFINE X == db.nodes \ {id[r]}
               t == [db EXCEPT !.nodes = X]
    <3>1. t = [nodes |-> X, insts |-> db.insts, routes |-> db.routes, outs |-> db.outs]
      BY Tables4 DEF FolderInv
    <3>2. Statement(r, t, "remove.commit")
      BY <1>3, <2>7 DEF RemoveDeletes
    <3> HIDE DEF t
    <3>3. ASSUME Alone(r) PROVE Refers(t)
      BY <2>7, <3>1, <3>3 DEF Alone, Shapes, RemoveShape, FolderInv, Refers
    <3> QED BY <2>2, <3>2, <3>3
  <2> QED BY <1>3, <2>3, <2>4, <2>5, <2>6, <2>7 DEF RemoveDeletes
<1>4. CASE RemoveCommits(r)
  <2>1. Go(r, "close") /\ at[r] = "remove.commit" /\ UNCHANGED <<list, pos, last, mixed>>
    BY <1>4 DEF RemoveCommits, Commits, reqVars
  <2>2. at'[r] = "close" /\ at[r] \in Step
    BY <2>1 DEF Go, Step, RemoveStep
  <2>3. Shapes(r)'
    BY <2>2 DEF Shapes, SaveShape, ScanShape, PurgeShape, RemoveShape, SaveStep, ScanStep
  <2> QED BY <2>1, <2>2, <2>3, SameMappings, LoneStep DEF Go
<1> QED BY <1>1, <1>2, <1>3, <1>4 DEF Remove

LEMMA LoneNext ==
  ASSUME IInv, LoneInv, [Next]_vars
  PROVE  LoneInv'
<1>1. PerRequest(at)
  BY DEF IInv, LockInv, PerRequest
<1>2. ASSUME NEW r \in Request, Close(r) PROVE LoneInv'
  <2>1. /\ Go(r, "done") /\ at[r] \in {"close", "failed"} /\ mixed \subseteq mixed'
        /\ UNCHANGED <<list, pos, last>>
    BY <1>2 DEF Close, Discards, reqVars
  <2>2. at'[r] = "done" /\ at[r] \in Step
    BY <1>1, <2>1 DEF Go, Step, PerRequest
  <2>3. Shapes(r)'
    BY <2>2 DEF Shapes, SaveShape, ScanShape, PurgeShape, RemoveShape, SaveStep, ScanStep
  <2> QED BY <1>1, <2>1, <2>2, <2>3, SameMappings, LoneStep DEF Go
<1>3. CASE OtherSessionEnds
  <2>1. mixed' = mixed \cup Active /\ UNCHANGED <<at, list, pos, last>>
    BY <1>3 DEF OtherSessionEnds, reqVars
  <2>2. \A q \in Request \ mixed' : at'[q] \notin Step
    BY <2>1 DEF Active
  <2> QED BY <2>1, <2>2, SameMappings DEF LoneInv, LoneMappings
<1>4. CASE PanelCrash
  <2>1. at' = [r \in Request |-> IF r \in Active THEN "done" ELSE at[r]]
        /\ UNCHANGED <<list, pos, last>>
    BY <1>4 DEF PanelCrash, reqVars
  <2>2. "done" \notin Step
    BY DEF Step, SaveStep, ScanStep, PurgeStep, RemoveStep
  <2>3. \A q \in Request : at'[q] \notin Step
    BY <2>1, <2>2 DEF Active
  <2> QED BY <2>1, <2>3, SameMappings DEF LoneInv, LoneMappings
<1>5. CASE UNCHANGED vars
  <2>1. UNCHANGED <<db, at, id, list, pos, last, rows, mixed>>
    BY <1>5 DEF vars, connVars, reqVars
  <2>2. ASSUME NEW q \in Request, Shapes(q) PROVE Shapes(q)'
    BY <2>1, <2>2 DEF Shapes, SaveShape, ScanShape, PurgeShape, RemoveShape, RoutesOf, Ids
  <2>3. Active' = Active
    BY <2>1 DEF Active
  <2>4. ASSUME NEW q \in Request, Alone(q) PROVE Alone(q)'
    BY <2>1, <2>2, <2>3, <2>4 DEF Alone
  <2> QED BY <2>1, <2>4, SameMappings DEF LoneInv, LoneMappings
<1> QED
  BY <1>1, <1>2, <1>3, <1>4, <1>5, SaveStaysWhole, ScanStaysWhole, PurgeStaysWhole,
     RemoveStaysWhole DEF Next, IInv

(***************************************************************************)
(* A request that has the database to itself never fails, whatever the     *)
(* requests before it have left behind: neither on a foreign key, because  *)
(* the statements are in an order that SQLite accepts, nor because a row   *)
(* that it has read is gone.                                               *)
(***************************************************************************)
THEOREM LoneSucceeds == Spec => []LoneNeverFails
<1>1. Init => LoneInv
  BY OpenSteps DEF Init, LoneInv, LoneMappings, PerRequest
<1>2. IInv /\ LoneInv /\ [Next]_vars => LoneInv'
  BY LoneNext
<1>3. LoneInv => LoneNeverFails
  BY OpenSteps DEF LoneInv, LoneMappings, LoneNeverFails, Alone
<1> QED BY <1>1, <1>2, <1>3, Invariance, PTL DEF Spec

-----------------------------------------------------------------------------
(* At most one fallback route.                                             *)

Saver(r, i)  == id[r] = i /\ list[r] # <<>>
Savers(i)    == {r \in mixed : Saver(r, i)}
Single(i)    == \A p, q \in Savers(i) : p = q
Singular(S)  == \A x, y \in S : x = y

\* A rollback by one of them discards what the other has flushed.
Two == \E p, q \in dirty : p # q

\* A request that has deleted the routes of i, and does not roll that back
\* without discarding what another session has flushed.
Deleter(q, i) ==
  \/ at[q] = "purge.instance" /\ id[q] = i /\ RoutesOf(db, i) = {}
  \/ at[q] = "purge.commit" /\ id[q] = i
  \/ at[q] = "remove.instances" /\ (db.routes = {} \/ Two)
  \/ at[q] \in {"remove.landing", "remove.node"} /\ id[q] = Entry /\ (db.insts = {} \/ Two)
  \/ at[q] = "remove.commit" /\ id[q] = Entry
  \/ at[q] = "failed" /\ Two

Held(i) == \E q \in dirty : Deleter(q, i)

Inserting == {"save.outs", "save.routes", "save.insert"}
Deleting  == PurgeStep \cup RemoveStep \cup {"failed"}

\* The fallback routes of i that a save of i, before its last insert, has not
\* deleted yet are among those it is going to delete.
Covered(t, r, i) ==
  IF at[r] = "save.insert" THEN Fallbacks(t, i) = {}
  ELSE \A x \in Fallbacks(t, i) : x.id \in Ids(rows[r])

(***************************************************************************)
(* While no save of i overlaps with anything: no save of another instance  *)
(* deletes routes of i, although SQLite gives ids out again.  The visible  *)
(* routes do not have the ids it has read; those that are stored and would *)
(* come back do not have them either, because they have been deleted by    *)
(* one session and the id given out by another one, so that a rollback     *)
(* would discard what the other one had flushed.                           *)
(***************************************************************************)
NoStale(i) ==
  /\ \A q \in Request : at[q] \in {"save.outs", "save.routes"} /\ id[q] # i =>
       /\ \A x \in RoutesOf(db, i) : x.id \notin Ids(rows[q])
       /\ q \in dirty \/ Two \/ \A x \in RoutesOf(disk, i) : x.id \notin Ids(rows[q])
  /\ \A x \in RoutesOf(disk, i), y \in db.routes : x.id = y.id => y.inst = i \/ Two
  /\ \/ RoutesOf(disk, i) \subseteq db.routes
     \/ \E p \in dirty : Saver(p, i) \/ at[p] \in Deleting

OneRoute(i) ==
  /\ Singular(Fallbacks(db, i)) /\ Singular(Fallbacks(disk, i))
  /\ \A r \in Request : at[r] \in Inserting /\ id[r] = i =>
       Covered(db, r, i) /\ (r \in dirty \/ Covered(disk, r, i) \/ Held(i))
  /\ \/ Fallbacks(disk, i) \subseteq db.routes
     \/ Held(i)
     \/ \E m \in mixed \cup dirty : Saver(m, i)
  /\ Savers(i) = {} => NoStale(i)

FallbackInv == ~ torn => \A i \in Nat : Single(i) => OneRoute(i)

\* Who is mixed, and that there is nothing to roll back where nobody is dirty.
Begun == {r \in Request : at[r] # "idle"}

MixedInv ==
  /\ mixed \subseteq Begun /\ IsFiniteSet(Begun)
  /\ \A p, q \in Active : p # q => p \in mixed
  /\ dirty = {} => db = disk

LEMMA SingularSets ==
  ASSUME NEW S, IsFiniteSet(S)
  PROVE  /\ Cardinality(S) <= 1 => Singular(S)
         /\ Singular(S) => Cardinality(S) <= 1
<1>1. ASSUME Cardinality(S) <= 1, NEW x \in S, NEW y \in S, x # y PROVE FALSE
  <2>1. IsFiniteSet(S \ {x}) /\ Cardinality(S \ {x}) = Cardinality(S) - 1
    BY FS_RemoveElement
  <2>2. Cardinality(S) \in Nat /\ Cardinality(S \ {x}) \in Nat
    BY <2>1, FS_CardinalityType
  <2>3. Cardinality(S \ {x}) = 0
    BY <1>1, <2>1, <2>2
  <2>4. S \ {x} = {}
    BY <2>1, <2>3, FS_EmptySet
  <2> QED BY <1>1, <2>4
<1>2. ASSUME Singular(S) PROVE Cardinality(S) <= 1
  <2>1. CASE S = {}
    BY <2>1, FS_EmptySet
  <2>2. CASE S # {}
    <3>1. PICK x : S = {x}
      BY <1>2, <2>2 DEF Singular
    <3> QED BY <3>1, FS_Singleton
  <2> QED BY <2>1, <2>2
<1> QED BY <1>1, <1>2 DEF Singular

\* A step of r keeps who has begun finite.
LEMMA BegunStep ==
  ASSUME MixedInv, PerRequest(at), NEW r \in Request, NEW s, at' = [at EXCEPT ![r] = s], s # "idle"
  PROVE  Begun \subseteq Begun' /\ IsFiniteSet(Begun)' /\ r \in Begun'
<1>1. Begun' = Begun \cup {r}
  BY DEF Begun, PerRequest
<1>2. IsFiniteSet(Begun \cup {r})
  BY FS_AddElement DEF MixedInv
<1> QED BY <1>1, <1>2

LEMMA OpenHaveBegun == Active \subseteq Begun
BY OpenSteps DEF Active, Begun

\* A step of an open request.
LEMMA MixedStep ==
  ASSUME MixedInv, PerRequest(at), NEW r \in Request, NEW s, at' = [at EXCEPT ![r] = s], s # "idle",
         at[r] \in Step, mixed \subseteq mixed', mixed' \subseteq mixed \cup Active,
         dirty' = {} => db' = disk'
  PROVE  MixedInv'
<1>1. Begun \subseteq Begun' /\ IsFiniteSet(Begun)'
  BY BegunStep
<1>2. Active' \subseteq Active
  BY DEF Active, PerRequest
<1> QED BY <1>1, <1>2, OpenHaveBegun DEF MixedInv

LEMMA MixedBegins ==
  ASSUME MixedInv, PerRequest(at), NEW r \in Request, NEW s \in Step, Begins(r, s)
  PROVE  MixedInv'
<1>1. at' = [at EXCEPT ![r] = s] /\ s # "idle"
  BY OpenSteps DEF Begins, Go
<1>2. Begun \subseteq Begun' /\ IsFiniteSet(Begun)' /\ r \in Begun'
  BY <1>1, BegunStep
<1>3. Active' \subseteq Active \cup {r}
  BY <1>1 DEF Active, PerRequest
<1>4. \A p, q \in Active' : p # q => p \in mixed'
  <2>1. CASE Active = {}
    BY <1>3, <2>1
  <2>2. CASE Active # {}
    BY <1>3, <2>2 DEF Begins
  <2> QED BY <2>1, <2>2
<1>5. mixed' \subseteq Begun'
  BY <1>2, OpenHaveBegun DEF Begins, MixedInv
<1>6. dirty' = {} => db' = disk'
  BY DEF Begins, connVars, MixedInv
<1> QED BY <1>2, <1>4, <1>5, <1>6 DEF MixedInv

\* Every step of a request is a begin or one of an open request; only a
\* commit and a rollback end what is flushed.
LEMMA RequestSteps ==
  ASSUME MixedInv, NEW r \in Request,
         Save(r) \/ Scan(r) \/ Purge(r) \/ Remove(r) \/ Close(r)
  PROVE  \/ \E s \in Step : Begins(r, s)
         \/ /\ at[r] \in Step /\ (\E s : Go(r, s) /\ s # "idle")
            /\ mixed \subseteq mixed' /\ mixed' \subseteq mixed \cup Active
            /\ dirty' = {} => db' = disk'
<1> USE DEF MixedInv
<1>1. ASSUME NEW t, NEW next, Statement(r, t, next), next # "idle", at[r] \in Step, UNCHANGED mixed
      PROVE  /\ at[r] \in Step /\ (\E s : Go(r, s) /\ s # "idle")
             /\ mixed \subseteq mixed' /\ mixed' \subseteq mixed \cup Active
             /\ dirty' = {} => db' = disk'
  BY <1>1 DEF Statement, Flush, Fails, connVars
<1>2. CASE Save(r)
  <2>1. CASE BeginSave(r)
    BY <2>1 DEF BeginSave, Step, SaveStep
  <2>2. CASE SaveDeletesOuts(r)
    BY <1>1, <2>2 DEF SaveDeletesOuts, Step, SaveStep
  <2>3. CASE SaveDeletesRoutes(r)
    BY <1>1, <2>3 DEF SaveDeletesRoutes, Step, SaveStep
  <2>4. CASE SaveInserts(r)
    <3>1. at[r] \in Step /\ UNCHANGED mixed
      BY <2>4 DEF SaveInserts, Step, SaveStep
    <3>2. (\E t, next : Statement(r, t, next) /\ next # "idle") \/ Fails(r)
      BY <2>4 DEF SaveInserts
    <3>3. CASE Fails(r)
      BY <3>1, <3>3 DEF Fails, connVars
    <3> QED BY <1>1, <3>1, <3>2, <3>3
  <2>5. CASE SaveInsertsLastOuts(r)
    BY <1>1, <2>5 DEF SaveInsertsLastOuts, Step, SaveStep
  <2>6. CASE SaveCommits(r)
    BY <2>6 DEF SaveCommits, Commits, CommitAll, Step, SaveStep
  <2> QED BY <1>2, <2>1, <2>2, <2>3, <2>4, <2>5, <2>6 DEF Save
<1>3. CASE Scan(r)
  <2>1. CASE BeginScan(r)
    BY <2>1 DEF BeginScan, Step, ScanStep
  <2>2. CASE ScanError(r) \/ ScanReads(r) \/ ScanRefreshes(r) \/ ScanFindsGone(r) \/ ScanReturns(r)
    <3>1. /\ at[r] \in ScanStep /\ UNCHANGED <<connVars, mixed>>
          /\ \E s \in {"scan.error", "scan.gone", "scan.folder", "failed", "scan.disable", "close"} : Go(r, s)
      BY <2>2 DEF ScanError, ScanReads, ScanRefreshes, ScanFindsGone, ScanReturns, AfterFolder, ScanStep
    <3> QED BY <3>1 DEF connVars, Step
  <2>3. CASE ScanInserts(r)
    <3>1. (\E t, next : Statement(r, t, next) /\ next # "idle") /\ at[r] \in Step /\ UNCHANGED mixed
      BY <2>3 DEF ScanInserts, Takes, Step, ScanStep
    <3> QED BY <1>1, <3>1
  <2>4. CASE ScanUpdates(r) \/ ScanDisables(r)
    <3>1. at[r] \in Step /\ UNCHANGED mixed
      BY <2>4 DEF ScanUpdates, ScanDisables, Takes, Step, ScanStep
    <3>2. \/ \E t : Flush(r, t) /\ (\E s \in {"scan.commit", "scan.end"} : Go(r, s))
          \/ Fails(r)
      <4>1. CASE ScanUpdates(r)
        BY <4>1 DEF ScanUpdates
      <4>2. CASE ScanDisables(r)
        BY <4>2 DEF ScanDisables
      <4> QED BY <2>4, <4>1, <4>2
    <3>3. CASE Fails(r)
      BY <3>1, <3>3 DEF Fails, connVars
    <3>4. CASE \E t : Flush(r, t) /\ (\E s \in {"scan.commit", "scan.end"} : Go(r, s))
      BY <3>1, <3>4 DEF Flush
    <3> QED BY <3>2, <3>3, <3>4
  <2>5. CASE ScanCommits(r) \/ ScanEnds(r)
    BY <2>5 DEF ScanCommits, ScanEnds, Commits, CommitAll, Step, ScanStep
  <2>6. CASE ScanUnwinds(r)
    BY <2>6 DEF ScanUnwinds, Discards, RollbackAll, Step, ScanStep
  <2> QED BY <1>3, <2>1, <2>2, <2>3, <2>4, <2>5, <2>6 DEF Scan
<1>4. CASE Purge(r)
  <2>1. CASE BeginPurge(r)
    BY <2>1 DEF BeginPurge, Step, PurgeStep
  <2>2. CASE PurgeDeletes(r)
    <3>1. (\E t, next : Statement(r, t, next) /\ next # "idle") /\ at[r] \in Step /\ UNCHANGED mixed
      BY <2>2 DEF PurgeDeletes, Step, PurgeStep
    <3> QED BY <1>1, <3>1
  <2>3. CASE PurgeCommits(r)
    BY <2>3 DEF PurgeCommits, Commits, CommitAll, Step, PurgeStep
  <2> QED BY <1>4, <2>1, <2>2, <2>3 DEF Purge
<1>5. CASE Remove(r)
  <2>1. CASE BeginRemove(r)
    BY <2>1 DEF BeginRemove, Step, RemoveStep
  <2>2. CASE RemoveReads(r)
    BY <2>2 DEF RemoveReads, connVars, Step, RemoveStep
  <2>3. CASE RemoveDeletes(r)
    <3>1. (\E t, next : Statement(r, t, next) /\ next # "idle") /\ at[r] \in Step /\ UNCHANGED mixed
      BY <2>3 DEF RemoveDeletes, Step, RemoveStep
    <3> QED BY <1>1, <3>1
  <2>4. CASE RemoveCommits(r)
    BY <2>4 DEF RemoveCommits, Commits, CommitAll, Step, RemoveStep
  <2> QED BY <1>5, <2>1, <2>2, <2>3, <2>4 DEF Remove
<1>6. CASE Close(r)
  BY <1>6 DEF Close, Discards, RollbackAll, Step
<1> QED BY <1>2, <1>3, <1>4, <1>5, <1>6

LEMMA MixedNext ==
  ASSUME IInv, MixedInv, [Next]_vars
  PROVE  MixedInv'
<1>1. PerRequest(at)
  BY DEF IInv, LockInv, PerRequest
<1>2. ASSUME NEW r \in Request, Save(r) \/ Scan(r) \/ Purge(r) \/ Remove(r) \/ Close(r)
      PROVE  MixedInv'
  BY <1>1, <1>2, RequestSteps, MixedStep, MixedBegins DEF Go
<1>3. CASE OtherSessionEnds
  <2>1. UNCHANGED at /\ mixed' = mixed \cup Active /\ db' = disk'
    BY <1>3 DEF OtherSessionEnds, RollbackAll, CommitAll
  <2>2. Begun' = Begun /\ Active' = Active
    BY <2>1 DEF Begun, Active
  <2> QED BY <2>1, <2>2, OpenHaveBegun DEF MixedInv
<1>4. CASE PanelCrash
  <2>1. UNCHANGED mixed /\ db' = disk'
    BY <1>4 DEF PanelCrash, Reopen
  <2>2. Begun' = Begun /\ Active' = {}
    BY <1>4, OpenSteps DEF PanelCrash, Begun, Active, Step, SaveStep, ScanStep, PurgeStep, RemoveStep
  <2> QED BY <2>1, <2>2 DEF MixedInv
<1>5. CASE UNCHANGED vars
  <2>1. UNCHANGED <<at, mixed, dirty, db, disk>>
    BY <1>5 DEF vars, connVars
  <2>2. Begun' = Begun /\ Active' = Active
    BY <2>1 DEF Begun, Active
  <2> QED BY <2>1, <2>2 DEF MixedInv
<1> QED BY <1>2, <1>3, <1>4, <1>5 DEF Next

\* What the others know does not change when r steps.
OthersStay(r) == \A q \in Request \ {r} :
  id'[q] = id[q] /\ list'[q] = list[q] /\ rows'[q] = rows[q] /\ at'[q] = at[q]

LEMMA SaversGrow ==
  ASSUME MixedInv, mixed \subseteq mixed',
         \A q \in Begun : id'[q] = id[q] /\ list'[q] = list[q], NEW i
  PROVE  Savers(i) \subseteq Savers(i)' /\ (Single(i)' => Single(i))
<1>1. Savers(i) \subseteq Savers(i)'
  BY DEF MixedInv, Savers, Saver
<1> QED BY <1>1 DEF Single

\* Two saves of i that are open are mixed, and more than a single one.
LEMMA OneSaver ==
  ASSUME TypeInv, MixedInv, NEW i, Single(i), NEW p \in Request, NEW r \in Request,
         at[p] \in SaveStep, at[r] \in SaveStep, id[p] = i, id[r] = i
  PROVE  p = r
<1>1. SaveStep \subseteq Step
  BY DEF Step
<1>2. list[p] # <<>> /\ list[r] # <<>>
  BY StoreAssumption DEF TypeInv, WorkOK, SaveWork
<1> QED BY <1>1, <1>2 DEF MixedInv, Single, Savers, Saver, Active

(***************************************************************************)
(* A step of r that ends no transaction: it leaves the stored tables, and  *)
(* of the visible routes it inserts a new one in a save, or deletes some,  *)
(* and is dirty then.  Of r itself it has to be shown what the invariant   *)
(* says of it.                                                             *)
(***************************************************************************)
RouteStep(r, i) ==
  /\ UNCHANGED <<disk, torn>> /\ dirty' \in {dirty, dirty \cup {r}}
  /\ mixed \subseteq mixed' /\ OthersStay(r)
  /\ at[r] # "idle" => id'[r] = id[r] /\ list'[r] = list[r]
  /\ \A x \in db'.routes \ db.routes :
       /\ at[r] = "save.insert" /\ x.inst = id[r] /\ r \in dirty'
       /\ \A y \in db.routes : y.id # x.id
  /\ \/ RoutesOf(db, i) \subseteq db'.routes
     \/ /\ r \in dirty' /\ at[r] # "idle"
        /\ Savers(i) # {} \/ Saver(r, i) \/ (Deleter(r, i)' /\ at'[r] \in Deleting)
  /\ db.insts = {} => db'.insts = {} \/ r \in dirty'
  /\ Singular(Fallbacks(db, i))'
  /\ at'[r] \in Inserting /\ id'[r] = i =>
       /\ Covered(db, r, i)'
       /\ r \in dirty' \/ Covered(disk, r, i)' \/ Held(i)'
  /\ Savers(i) = {} /\ at'[r] \in {"save.outs", "save.routes"} /\ id'[r] # i =>
       /\ \A x \in RoutesOf(db', i) : x.id \notin Ids(rows'[r])
       /\ r \in dirty' \/ Two' \/ \A x \in RoutesOf(disk, i) : x.id \notin Ids(rows'[r])
  /\ at[r] \in Deleting /\ r \in dirty => at'[r] \in Deleting
  /\ Deleter(r, i) /\ r \in dirty => Deleter(r, i)'

LEMMA RoutesAfterStep ==
  ASSUME IInv, TypeInv, MixedInv, NEW r \in Request, NEW i \in Nat, RouteStep(r, i),
         OneRoute(i), Single(i), Savers(i) \subseteq Savers(i)'
  PROVE  OneRoute(i)'
<1> USE DEF RouteStep
<1>1. dirty \subseteq Request /\ dirty \subseteq dirty' /\ (Two => Two')
  BY DEF IInv, FolderInv, Two
<1>2. \A q \in dirty \ {r} : /\ q \in Request /\ q \in dirty' /\ at'[q] = at[q]
                             /\ id'[q] = id[q] /\ list'[q] = list[q]
  BY <1>1 DEF OthersStay
<1>3. \A q \in dirty \ {r} : r \in dirty' => Two'
  BY <1>2 DEF Two
<1>4. ASSUME NEW x \in RoutesOf(db', i), x \notin RoutesOf(db, i)
      PROVE  /\ at[r] = "save.insert" /\ id[r] = i /\ r \in dirty'
             /\ \A y \in db.routes : y.id # x.id
  BY <1>4 DEF RoutesOf
<1> DEFINE Inserts == at[r] = "save.insert" /\ id[r] = i /\ r \in dirty'
\* Whoever holds the deletion goes on holding it, unless r inserts.
<1>5. ASSUME NEW q \in dirty, Deleter(q, i) PROVE Deleter(q, i)' \/ Inserts
  <2>1. CASE q = r
    BY <1>5, <2>1
  <2>2. CASE q # r
    <3>1. at'[q] = at[q] /\ id'[q] = id[q]
      BY <1>2, <2>2
    <3>2. CASE at[q] = "purge.instance" /\ id[q] = i /\ RoutesOf(db, i) = {}
      <4>1. RoutesOf(db', i) = {} \/ Inserts
        BY <1>4, <3>2
      <4> QED BY <3>1, <3>2, <4>1 DEF Deleter, RoutesOf
    <3>3. CASE at[q] = "remove.instances" /\ (db.routes = {} \/ Two)
      <4>1. db.routes = {} => db'.routes = {} \/ r \in dirty'
        OBVIOUS
      <4> QED BY <1>1, <1>3, <2>2, <3>1, <3>3, <4>1 DEF Deleter
    <3>4. CASE at[q] \in {"remove.landing", "remove.node"} /\ id[q] = Entry /\ (db.insts = {} \/ Two)
      BY <1>1, <1>3, <2>2, <3>1, <3>4 DEF Deleter
    <3>5. CASE \/ at[q] = "purge.commit" /\ id[q] = i
               \/ at[q] = "remove.commit" /\ id[q] = Entry
               \/ at[q] = "failed" /\ Two
      BY <1>1, <3>1, <3>5 DEF Deleter
    <3> QED BY <1>5, <3>2, <3>3, <3>4, <3>5 DEF Deleter
  <2> QED BY <2>1, <2>2
<1>6. Held(i) => Held(i)' \/ Inserts
  BY <1>1, <1>5 DEF Held
<1>7. Inserts => Saver(r, i)'
  <2> SUFFICES ASSUME Inserts PROVE Saver(r, i)'
    OBVIOUS
  <2>1. list[r] # <<>> /\ id'[r] = id[r] /\ list'[r] = list[r]
    BY StoreAssumption DEF TypeInv, WorkOK, SaveWork, SaveStep
  <2> QED BY <2>1 DEF Saver
<1>8. \A m \in mixed \cup dirty : Saver(m, i) => Saver(m, i)' /\ m \in mixed' \cup dirty'
  <2>1. \A m \in mixed \cup dirty : m \in Request /\ at[m] # "idle"
    BY OpenSteps DEF MixedInv, Begun, IInv, FolderInv
  <2>2. \A m \in mixed \cup dirty : id'[m] = id[m] /\ list'[m] = list[m]
    BY <2>1 DEF OthersStay
  <2> QED BY <1>1, <2>2 DEF Saver
<1>9. \/ Fallbacks(disk', i) \subseteq db'.routes
      \/ Held(i)'
      \/ \E m \in mixed' \cup dirty' : Saver(m, i)'
  <2>1. CASE Held(i) \/ \E m \in mixed \cup dirty : Saver(m, i)
    <3>1. Inserts => \E m \in mixed' \cup dirty' : Saver(m, i)'
      BY <1>7
    <3> QED BY <1>6, <1>8, <2>1, <3>1
  <2>2. CASE Fallbacks(disk, i) \subseteq db.routes
    <3>1. CASE RoutesOf(db, i) \subseteq db'.routes
      BY <2>2, <3>1 DEF Fallbacks, RoutesOf
    <3>2. CASE r \in dirty' /\ at[r] # "idle" /\ (Savers(i) # {} \/ Saver(r, i) \/ Deleter(r, i)')
      <4>1. CASE Savers(i) # {}
        BY <1>8, <4>1 DEF Savers
      <4>2. CASE Saver(r, i)
        BY <3>2, <4>2 DEF Saver
      <4>3. CASE Deleter(r, i)'
        BY <3>2, <4>3 DEF Held
      <4> QED BY <3>2, <4>1, <4>2, <4>3
    <3> QED BY <3>1, <3>2
  <2> QED BY <2>1, <2>2 DEF OneRoute
\* No other save of i is open when r inserts a route of i.
<1>10. ASSUME NEW p \in Request \ {r}, at[p] \in SaveStep, id[p] = i PROVE ~ Inserts
  BY <1>10, OneSaver DEF SaveStep
<1>11. ASSUME NEW p \in Request, at'[p] \in Inserting, id'[p] = i
       PROVE  /\ Covered(db, p, i)'
              /\ p \in dirty' \/ Covered(disk, p, i)' \/ Held(i)'
  <2>1. CASE p = r
    BY <1>11, <2>1
  <2>2. CASE p # r
    <3>1. at'[p] = at[p] /\ id'[p] = id[p] /\ rows'[p] = rows[p]
      BY <2>2 DEF OthersStay
    <3>2. ~ Inserts
      BY <1>10, <1>11, <2>2, <3>1 DEF Inserting, SaveStep
    <3>3. Covered(db, p, i) /\ (p \in dirty \/ Covered(disk, p, i) \/ Held(i))
      BY <1>11, <3>1 DEF OneRoute
    <3>4. Fallbacks(db', i) \subseteq Fallbacks(db, i)
      BY <1>4, <3>2 DEF Fallbacks
    <3>5. Covered(db, p, i)'
      BY <3>1, <3>3, <3>4 DEF Covered, Ids
    <3>6. Covered(disk, p, i) => Covered(disk, p, i)'
      BY <3>1 DEF Covered, Ids, Fallbacks, RoutesOf
    <3> QED BY <1>1, <1>6, <3>2, <3>3, <3>5, <3>6
  <2> QED BY <2>1, <2>2
<1>12. ASSUME Savers(i)' = {} PROVE NoStale(i)'
  <2>0. NoStale(i) /\ Savers(i) = {}
    BY <1>12 DEF OneRoute
  <2>1. ASSUME NEW q \in Request, at'[q] \in {"save.outs", "save.routes"}, id'[q] # i
        PROVE  /\ \A x \in RoutesOf(db', i) : x.id \notin Ids(rows'[q])
               /\ q \in dirty' \/ Two' \/ \A x \in RoutesOf(disk', i) : x.id \notin Ids(rows'[q])
    <3>1. CASE q = r
      BY <2>0, <2>1, <3>1
    <3>2. CASE q # r
      <4>1. at'[q] = at[q] /\ id'[q] = id[q] /\ rows'[q] = rows[q]
        BY <3>2 DEF OthersStay
      <4>2. /\ \A x \in RoutesOf(db, i) : x.id \notin Ids(rows[q])
            /\ q \in dirty \/ Two \/ \A x \in RoutesOf(disk, i) : x.id \notin Ids(rows[q])
        BY <2>0, <2>1, <4>1 DEF NoStale
      <4>3. ~ Inserts
        <5> SUFFICES ASSUME Inserts PROVE FALSE
          OBVIOUS
        <5>1. r \in Active /\ q \in Active
          BY <2>1, <4>1 DEF Active, Step, SaveStep
        <5>2. r \in mixed
          BY <3>2, <5>1 DEF MixedInv
        <5>3. list[r] # <<>>
          BY StoreAssumption DEF TypeInv, WorkOK, SaveWork, SaveStep
        <5> QED BY <2>0, <5>2, <5>3 DEF Savers, Saver
      <4>4. RoutesOf(db', i) \subseteq RoutesOf(db, i)
        BY <1>4, <4>3
      <4> QED BY <1>1, <4>1, <4>2, <4>4
    <3> QED BY <3>1, <3>2
  \* A stored route has its id in the visible table to itself, or two are dirty.
  <2>2. ASSUME NEW x \in RoutesOf(disk', i), NEW y \in db'.routes, x.id = y.id
        PROVE  y.inst = i \/ Two'
    <3>1. CASE y \in db.routes
      BY <1>1, <2>0, <2>2, <3>1 DEF NoStale
    <3>2. CASE y \notin db.routes /\ y.inst # i
      <4>1. /\ at[r] = "save.insert" /\ id[r] # i /\ r \in dirty'
            /\ x \notin db.routes
        BY <2>2, <3>2 DEF RoutesOf
      <4>2. PICK p \in dirty : Saver(p, i) \/ at[p] \in Deleting
        BY <2>0, <4>1 DEF NoStale
      <4>3. p # r
        BY <4>1, <4>2 DEF Saver, Deleting, PurgeStep, RemoveStep
      <4> QED BY <1>1, <4>1, <4>3 DEF Two
    <3> QED BY <3>1, <3>2
  <2>3. \/ RoutesOf(disk', i) \subseteq db'.routes
        \/ \E p \in dirty' : Saver(p, i)' \/ at'[p] \in Deleting
    <3>1. CASE \E p \in dirty : Saver(p, i) \/ at[p] \in Deleting
      <4>1. PICK p \in dirty : Saver(p, i) \/ at[p] \in Deleting
        BY <3>1
      <4>2. CASE p = r
        BY <1>1, <1>8, <4>1, <4>2
      <4>3. CASE p # r
        BY <1>2, <1>8, <4>1, <4>3
      <4> QED BY <4>2, <4>3
    <3>2. CASE RoutesOf(disk, i) \subseteq db.routes
      <4>1. CASE RoutesOf(db, i) \subseteq db'.routes
        BY <3>2, <4>1 DEF RoutesOf
      <4>2. CASE r \in dirty' /\ at[r] # "idle" /\ (Saver(r, i) \/ at'[r] \in Deleting)
        BY <4>2 DEF Saver
      <4> QED BY <2>0, <4>1, <4>2
    <3> QED BY <2>0, <3>1, <3>2 DEF NoStale
  <2> QED BY <2>1, <2>2, <2>3 DEF NoStale, RoutesOf
<1>13. Singular(Fallbacks(disk, i))'
  BY DEF OneRoute, Singular, Fallbacks, RoutesOf
<1> HIDE DEF RouteStep
<1>14. Singular(Fallbacks(db, i))'
  BY DEF RouteStep
<1> QED BY <1>9, <1>11, <1>12, <1>13, <1>14 DEF OneRoute

\* The end of every transaction: the two tables agree, and nobody is dirty.
LEMMA RoutesAgree ==
  ASSUME TypeInv', NEW i, db' = disk', dirty' = {}, Singular(Fallbacks(disk, i))',
         \A p \in Request : at'[p] \in Inserting /\ id'[p] = i => Covered(disk, p, i)',
         Savers(i)' = {} =>
           \A q \in Request : at'[q] \in {"save.outs", "save.routes"} /\ id'[q] # i =>
             \A x \in RoutesOf(disk', i) : x.id \notin Ids(rows'[q])
  PROVE  OneRoute(i)'
<1>1. Numbered(disk.routes)'
  BY DEF TypeInv, DataOK, TablesOK
<1>2. \A x \in RoutesOf(disk', i), y \in db'.routes : x.id = y.id => y.inst = i
  BY <1>1 DEF Numbered, RoutesOf
<1>3. Savers(i)' = {} => NoStale(i)'
  BY <1>2 DEF NoStale, RoutesOf
<1>4. Singular(Fallbacks(db, i))' /\ Fallbacks(disk', i) \subseteq db'.routes
  BY DEF Fallbacks, RoutesOf, Singular
<1>5. \A p \in Request : at'[p] \in Inserting /\ id'[p] = i =>
        Covered(db, p, i)' /\ Covered(disk, p, i)'
  BY DEF Covered, Fallbacks, RoutesOf
<1> QED BY <1>3, <1>4, <1>5 DEF OneRoute

LEMMA RoutesAfterCommit ==
  ASSUME TypeInv', NEW i, OneRoute(i), Savers(i) \subseteq Savers(i)', CommitAll,
         UNCHANGED <<id, rows>>,
         \A q \in Request : at'[q] = at[q] \/ at'[q] \notin Inserting
  PROVE  OneRoute(i)'
<1>1. db' = disk' /\ disk' = db /\ dirty' = {}
  BY DEF CommitAll
<1>2. Singular(Fallbacks(disk, i))'
  BY <1>1 DEF OneRoute, Singular, Fallbacks, RoutesOf
<1>3. ASSUME NEW p \in Request, at'[p] \in Inserting, id'[p] = i PROVE Covered(disk, p, i)'
  <2>1. at'[p] = at[p] /\ Covered(db, p, i)
    BY <1>3 DEF OneRoute
  <2> QED BY <1>1, <2>1 DEF Covered, Fallbacks, RoutesOf
<1>4. ASSUME Savers(i)' = {}, NEW q \in Request, at'[q] \in {"save.outs", "save.routes"}, id'[q] # i
      PROVE  \A x \in RoutesOf(disk', i) : x.id \notin Ids(rows'[q])
  <2>1. at'[q] = at[q] /\ NoStale(i)
    BY <1>4 DEF OneRoute, Inserting
  <2> QED BY <1>1, <1>4, <2>1 DEF NoStale
<1> QED BY <1>1, <1>2, <1>3, <1>4, RoutesAgree

(***************************************************************************)
(* A rollback that discards nothing of another session is that of the only *)
(* dirty one; it is neither inserting nor does it hold a deletion.         *)
(***************************************************************************)
LEMMA RoutesAfterRollback ==
  ASSUME TypeInv', NEW i, OneRoute(i), Savers(i) \subseteq Savers(i)', NEW u, RollbackAll(u), ~ torn',
         u \in dirty => at[u] \in {"failed"} \cup Clean,
         UNCHANGED <<id, rows>>,
         \A q \in Request : at'[q] = at[q] \/ at'[q] \notin Inserting
  PROVE  OneRoute(i)'
<1>1. db' = disk' /\ disk' = disk /\ dirty' = {} /\ dirty \subseteq {u}
  BY DEF RollbackAll
<1>2. ~ Two /\ ~ Held(i)
  BY <1>1 DEF Two, Held, Deleter, Clean
<1>3. \A q \in dirty : at[q] \notin Inserting
  BY <1>1 DEF Inserting, Clean
<1>4. Singular(Fallbacks(disk, i))'
  BY <1>1 DEF OneRoute, Singular, Fallbacks, RoutesOf
<1>5. ASSUME NEW p \in Request, at'[p] \in Inserting, id'[p] = i PROVE Covered(disk, p, i)'
  <2>1. at'[p] = at[p] /\ Covered(disk, p, i)
    BY <1>2, <1>3, <1>5 DEF OneRoute
  <2> QED BY <1>1, <2>1 DEF Covered, Fallbacks, RoutesOf
<1>6. ASSUME Savers(i)' = {}, NEW q \in Request, at'[q] \in {"save.outs", "save.routes"}, id'[q] # i
      PROVE  \A x \in RoutesOf(disk', i) : x.id \notin Ids(rows'[q])
  <2>1. at'[q] = at[q] /\ q \notin dirty /\ NoStale(i)
    BY <1>3, <1>6 DEF OneRoute, Inserting
  <2> QED BY <1>1, <1>2, <1>6, <2>1 DEF NoStale
<1> QED BY <1>1, <1>4, <1>5, <1>6, RoutesAgree

\* A step of r that inserts no route and is not one of a save before its
\* last insert.
LEMMA RoutesAreFewer ==
  ASSUME IInv, TypeInv, MixedInv, NEW r \in Request, NEW i \in Nat,
         OneRoute(i), Single(i), Savers(i) \subseteq Savers(i)',
         UNCHANGED <<disk, torn>>, dirty' \in {dirty, dirty \cup {r}},
         mixed \subseteq mixed', OthersStay(r),
         at[r] # "idle" => id'[r] = id[r] /\ list'[r] = list[r],
         at'[r] \notin Inserting, db'.routes \subseteq db.routes,
         \/ RoutesOf(db, i) \subseteq db'.routes
         \/ r \in dirty' /\ at[r] # "idle" /\ Deleter(r, i)' /\ at'[r] \in Deleting,
         db.insts = {} => db'.insts = {} \/ r \in dirty',
         at[r] \in Deleting /\ r \in dirty => at'[r] \in Deleting,
         Deleter(r, i) /\ r \in dirty => Deleter(r, i)'
  PROVE  OneRoute(i)'
<1>1. Singular(Fallbacks(db, i))'
  BY DEF OneRoute, Singular, Fallbacks, RoutesOf
<1>2. at'[r] \notin {"save.outs", "save.routes"}
  BY DEF Inserting
<1>3. RouteStep(r, i)
  BY <1>1, <1>2 DEF RouteStep
<1> QED BY <1>3, RoutesAfterStep

\* One that leaves the routes alone and is not one of a deletion.
LEMMA RoutesAreKept ==
  ASSUME IInv, TypeInv, MixedInv, NEW r \in Request, NEW i \in Nat,
         OneRoute(i), Single(i), Savers(i) \subseteq Savers(i)',
         UNCHANGED <<disk, torn>>, dirty' \in {dirty, dirty \cup {r}},
         mixed \subseteq mixed', OthersStay(r),
         at[r] # "idle" => id'[r] = id[r] /\ list'[r] = list[r],
         at'[r] \notin Inserting, db'.routes = db.routes,
         db.insts = {} => db'.insts = {} \/ r \in dirty',
         at[r] \notin Deleting \/ r \notin dirty
  PROVE  OneRoute(i)'
<1>1. RoutesOf(db, i) \subseteq db'.routes
  BY DEF RoutesOf
<1>2. Deleter(r, i) => at[r] \in Deleting
  BY DEF Deleter, Deleting, PurgeStep, RemoveStep
<1> QED BY <1>1, <1>2, RoutesAreFewer

\* Where everybody is after a step of r.
LEMMA Goes ==
  ASSUME IInv, NEW r \in Request, NEW s, Go(r, s)
  PROVE  at'[r] = s /\ \A q \in Request \ {r} : at'[q] = at[q]
BY DEF IInv, LockInv, Go

LEMMA RequestMappings ==
  ASSUME IInv, TypeInv
  PROVE  PerRequest(at) /\ PerRequest(id) /\ PerRequest(rows) /\ PerRequest(list)
BY DEF IInv, LockInv, FolderInv, TypeInv, WorkOK, PerRequest

\* What r leaves alone that does not write its own variables.
LEMMA OthersUntouched ==
  ASSUME IInv, NEW r \in Request, NEW s, Go(r, s), UNCHANGED <<id, list, rows>>
  PROVE  OthersStay(r) /\ at'[r] = s /\ id'[r] = id[r] /\ list'[r] = list[r] /\ rows'[r] = rows[r]
BY Goes DEF OthersStay

\* Who is dirty is not idle.
LEMMA IdleIsClean ==
  ASSUME IInv, NEW r \in Request, at[r] = "idle"
  PROVE  r \notin dirty
BY OpenSteps DEF IInv, FolderInv

LEMMA DirtyIsActive ==
  ASSUME IInv
  PROVE  dirty \subseteq Active
BY DEF IInv, FolderInv, Active

LEMMA BeginSaveKeepsRoutes ==
  ASSUME IInv, TypeInv, MixedInv, NEW r \in Request, NEW i \in Nat, BeginSave(r),
         OneRoute(i), Single(i), Single(i)', Savers(i) \subseteq Savers(i)'
  PROVE  OneRoute(i)'
<1>1. PICK j \in Ids(db.insts), p \in Payload :
        /\ Begins(r, "save.outs")
        /\ id' = [id EXCEPT ![r] = j]
        /\ list' = [list EXCEPT ![r] = p]
        /\ rows' = [rows EXCEPT ![r] = RoutesOf(db, j)]
  BY DEF BeginSave
<1>2. /\ at[r] = "idle" /\ Go(r, "save.outs") /\ UNCHANGED connVars
      /\ mixed' = IF Active = {} THEN mixed ELSE mixed \cup Active \cup {r}
  BY <1>1 DEF Begins
<1>3. UNCHANGED <<db, disk, dirty, torn>>
  BY <1>2 DEF connVars
<1>4. /\ at'[r] = "save.outs" /\ id'[r] = j /\ list'[r] = p /\ rows'[r] = RoutesOf(db, j)
      /\ OthersStay(r)
  BY <1>1, <1>2, Goes, RequestMappings DEF OthersStay, PerRequest
<1>5. r \notin dirty /\ r \notin Begun /\ dirty \subseteq Active
  BY <1>2, IdleIsClean, DirtyIsActive DEF Begun
<1>6. Saver(r, j)'
  BY <1>4, StoreAssumption DEF Saver
<1>7. Fallbacks(db, i)' = Fallbacks(db, i) /\ Fallbacks(disk, i)' = Fallbacks(disk, i)
  BY <1>3 DEF Fallbacks, RoutesOf
<1>8. ASSUME j = i
      PROVE  /\ Covered(db, r, i)'
             /\ r \in dirty' \/ Covered(disk, r, i)' \/ Held(i)'
  <2>1. \A x \in Fallbacks(db, i) : x.id \in Ids(rows'[r])
    BY <1>4, <1>8 DEF Fallbacks, Ids
  <2>2. Covered(db, r, i)'
    BY <1>4, <1>7, <2>1 DEF Covered
  <2>3. CASE Active = {}
    <3>1. db = disk
      BY <1>5, <2>3 DEF MixedInv
    <3> QED BY <1>3, <2>2, <3>1 DEF Covered, Fallbacks, RoutesOf
  <2>4. CASE Active # {}
    <3>1. CASE Fallbacks(disk, i) \subseteq db.routes
      <4>1. \A x \in Fallbacks(disk, i) : x \in Fallbacks(db, i)
        BY <3>1 DEF Fallbacks, RoutesOf
      <4> QED BY <1>4, <1>7, <2>1, <2>2, <4>1 DEF Covered
    <3>2. CASE Held(i)
      <4>1. PICK q \in dirty : Deleter(q, i)
        BY <3>2 DEF Held
      <4>2. q \in Request \ {r}
        BY <1>5 DEF IInv, FolderInv
      <4>3. at'[q] = at[q] /\ id'[q] = id[q]
        BY <1>4, <4>2 DEF OthersStay
      <4>4. Deleter(q, i)'
        BY <1>3, <4>1, <4>3 DEF Deleter, Two, RoutesOf
      <4> QED BY <1>3, <2>2, <4>1, <4>4 DEF Held
    <3>3. CASE \E m \in mixed \cup dirty : Saver(m, i)
      <4>1. PICK m \in mixed \cup dirty : Saver(m, i)
        BY <3>3
      <4>2. m \in mixed' /\ m # r /\ m \in Request
        BY <1>2, <1>5, <2>4, <4>1 DEF MixedInv, Begun, Active
      <4>3. Saver(m, i)'
        BY <1>4, <4>1, <4>2 DEF Saver, OthersStay
      <4>4. r \in mixed'
        BY <1>2, <2>4
      <4>5. FALSE
        BY <1>6, <1>8, <4>2, <4>3, <4>4 DEF Single, Savers
      <4> QED BY <4>5
    <3> QED BY <3>1, <3>2, <3>3 DEF OneRoute
  <2> QED BY <2>3, <2>4
<1>9. ASSUME j # i, Savers(i) = {}
      PROVE  /\ \A x \in RoutesOf(db', i) : x.id \notin Ids(rows'[r])
             /\ Two' \/ \A x \in RoutesOf(disk, i) : x.id \notin Ids(rows'[r])
  <2>1. Numbered(db.routes)
    BY DEF TypeInv, DataOK, TablesOK
  <2>2. \A x \in RoutesOf(db, i) : x.id \notin Ids(rows'[r])
    BY <1>4, <1>9, <2>1 DEF Numbered, RoutesOf, Ids
  <2>3. \A x \in RoutesOf(disk, i), y \in db.routes : x.id = y.id => y.inst = i \/ Two
    BY <1>9 DEF OneRoute, NoStale
  <2>4. Two \/ \A x \in RoutesOf(disk, i) : x.id \notin Ids(rows'[r])
    BY <1>4, <1>9, <2>3 DEF RoutesOf, Ids
  <2> QED BY <1>3, <2>2, <2>4 DEF Two
<1>10. Singular(Fallbacks(db, i))'
  BY <1>7 DEF OneRoute, Singular
<1>11. ~ Deleter(r, i) \/ r \notin dirty
  BY <1>5
<1>12. RouteStep(r, i)
  <2>1. mixed \subseteq mixed' /\ db'.routes = db.routes /\ RoutesOf(db, i) \subseteq db'.routes
    BY <1>2, <1>3 DEF RoutesOf
  <2> QED BY <1>2, <1>3, <1>4, <1>5, <1>8, <1>9, <1>10, <2>1 DEF RouteStep
<1> QED BY <1>12, RoutesAfterStep

\* A step that only fails.
LEMMA FailureKeepsRoutes ==
  ASSUME IInv, TypeInv, MixedInv, NEW r \in Request, NEW i \in Nat,
         OneRoute(i), Single(i), Savers(i) \subseteq Savers(i)',
         Fails(r), UNCHANGED <<id, list, rows, mixed>>,
         at[r] \notin Deleting \/ ~ Deleter(r, i) \/ Two
  PROVE  OneRoute(i)'
<1>1. OthersStay(r) /\ at'[r] = "failed" /\ id'[r] = id[r] /\ list'[r] = list[r]
  BY OthersUntouched DEF Fails
<1>2. UNCHANGED <<db, disk, dirty, torn>>
  BY DEF Fails, connVars
<1>3. "failed" \notin Inserting /\ "failed" \in Deleting
  BY DEF Inserting, Deleting
<1>4. Deleter(r, i) => Two
  BY DEF Deleter, Deleting, PurgeStep, RemoveStep
<1>5. Deleter(r, i) => Deleter(r, i)'
  BY <1>1, <1>2, <1>4 DEF Deleter, Two
<1>6. RoutesOf(db, i) \subseteq db'.routes /\ db'.routes \subseteq db.routes
  BY <1>2 DEF RoutesOf
<1> QED BY <1>1, <1>2, <1>3, <1>5, <1>6, RoutesAreFewer

LEMMA SaveKeepsRoutes ==
  ASSUME IInv, TypeInv, MixedInv, TypeInv', NEW r \in Request, NEW i \in Nat, Save(r),
         OneRoute(i), Single(i), Single(i)', Savers(i) \subseteq Savers(i)'
  PROVE  OneRoute(i)'
<1>1. CASE BeginSave(r)
  BY <1>1, BeginSaveKeepsRoutes
<1>2. ASSUME at[r] \in SaveStep, Fails(r), UNCHANGED <<id, list, rows, mixed>> PROVE OneRoute(i)'
  BY <1>2, FailureKeepsRoutes DEF SaveStep, Deleting, PurgeStep, RemoveStep
<1>3. Shaped(db)
  BY DEF IInv, FolderInv
<1>4. at[r] \in SaveStep => ~ Deleter(r, i) /\ at[r] \notin Deleting /\ at[r] # "idle" /\ list[r] # <<>>
  BY StoreAssumption DEF SaveStep, Deleter, Deleting, PurgeStep, RemoveStep, TypeInv, WorkOK, SaveWork
<1>5. CASE SaveDeletesOuts(r)
  <2>1. /\ at[r] = "save.outs" /\ UNCHANGED <<id, list, rows, mixed>>
        /\ Statement(r, [db EXCEPT !.outs = @ \ OutsOf(db, Ids(rows[r]))], "save.routes")
    BY <1>5 DEF SaveDeletesOuts, reqVars
  <2> DEFINE t == [db EXCEPT !.outs = @ \ OutsOf(db, Ids(rows[r]))]
  <2>2. t.routes = db.routes /\ t.insts = db.insts
    BY <1>3, Tables4
  <2> HIDE DEF t
  <2>3. CASE Fails(r)
    BY <1>2, <2>1, <2>3 DEF SaveStep
  <2>4. CASE Flush(r, t) /\ Go(r, "save.routes")
    <3>1. /\ OthersStay(r) /\ at'[r] = "save.routes" /\ id'[r] = id[r] /\ list'[r] = list[r]
          /\ rows'[r] = rows[r]
      BY <2>1, <2>4, OthersUntouched
    <3>2. /\ db'.routes = db.routes /\ db'.insts = db.insts /\ UNCHANGED <<disk, torn>>
          /\ dirty' = dirty \cup {r}
      BY <2>2, <2>4 DEF Flush
    <3>3. RoutesOf(db', i) = RoutesOf(db, i) /\ Fallbacks(db', i) = Fallbacks(db, i)
      BY <3>2 DEF RoutesOf, Fallbacks
    <3>4. id[r] = i => Covered(db, r, i)'
      BY <2>1, <3>1, <3>3 DEF OneRoute, Inserting, Covered
    <3>5. Savers(i) = {} /\ id[r] # i => \A x \in RoutesOf(db', i) : x.id \notin Ids(rows'[r])
      BY <2>1, <3>1, <3>3 DEF OneRoute, NoStale
    <3>6. Singular(Fallbacks(db, i))'
      BY <3>3 DEF OneRoute, Singular
    <3>7. RoutesOf(db, i) \subseteq db'.routes
      BY <3>2 DEF RoutesOf
    <3>8. RouteStep(r, i)
      BY <1>4, <2>1, <3>1, <3>2, <3>4, <3>5, <3>6, <3>7 DEF RouteStep, SaveStep
    <3> QED BY <3>8, RoutesAfterStep
  <2> QED BY <2>1, <2>3, <2>4 DEF Statement, t
<1>6. CASE SaveDeletesRoutes(r)
  <2> DEFINE R == {x \in db.routes : x.id \notin Ids(rows[r])}
             t == [db EXCEPT !.routes = R]
  <2>1. /\ at[r] = "save.routes" /\ UNCHANGED <<id, list, rows, mixed>>
        /\ Statement(r, t, "save.insert")
    BY <1>6 DEF SaveDeletesRoutes, reqVars
  <2>2. t.routes = R /\ t.insts = db.insts
    BY <1>3, Tables4
  <2> HIDE DEF t
  <2>3. CASE Fails(r)
    BY <1>2, <2>1, <2>3 DEF SaveStep
  <2>4. CASE Flush(r, t) /\ Go(r, "save.insert")
    <3>1. /\ OthersStay(r) /\ at'[r] = "save.insert" /\ id'[r] = id[r] /\ list'[r] = list[r]
      BY <2>1, <2>4, OthersUntouched
    <3>2. /\ db'.routes = R /\ db'.insts = db.insts /\ UNCHANGED <<disk, torn>>
          /\ dirty' = dirty \cup {r}
      BY <2>2, <2>4 DEF Flush
    <3>3. Fallbacks(db', i) \subseteq Fallbacks(db, i)
      BY <3>2 DEF RoutesOf, Fallbacks
    <3>4. id[r] = i => Covered(db, r, i)'
      <4>1. id[r] = i => \A x \in Fallbacks(db, i) : x.id \in Ids(rows[r])
        BY <2>1 DEF OneRoute, Inserting, Covered
      <4>2. id[r] = i => Fallbacks(db', i) = {}
        BY <3>2, <4>1 DEF Fallbacks, RoutesOf
      <4> QED BY <3>1, <4>2 DEF Covered
    <3>5. \/ RoutesOf(db, i) \subseteq db'.routes
          \/ Savers(i) # {} \/ Saver(r, i)
      <4>1. CASE id[r] = i
        BY <1>4, <2>1, <4>1 DEF Saver, SaveStep
      <4>2. CASE id[r] # i /\ Savers(i) = {}
        BY <2>1, <3>2, <4>2 DEF OneRoute, NoStale, RoutesOf
      <4> QED BY <4>1, <4>2
    <3>6. Singular(Fallbacks(db, i))'
      BY <3>3 DEF OneRoute, Singular
    <3>7. \A x \in db'.routes : x \in db.routes
      BY <3>2
    <3> HIDE DEF R
    <3>8. RouteStep(r, i)
      BY <1>4, <2>1, <3>1, <3>2, <3>4, <3>5, <3>6, <3>7 DEF RouteStep, SaveStep
    <3> QED BY <3>8, RoutesAfterStep
  <2> QED BY <2>1, <2>3, <2>4 DEF Statement
<1>7. CASE SaveInserts(r)
  <2> DEFINE k == pos[r]
             new == [id |-> NewId(db.routes), inst |-> id[r], pos |-> k, fallback |-> k = Len(list[r])]
             u == [db EXCEPT !.routes = @ \cup {new}]
             t == WithOuts(r, u)
             next == IF k = Len(list[r]) THEN "save.last" ELSE "save.insert"
  <2>1. /\ at[r] = "save.insert" /\ UNCHANGED <<id, list, rows, mixed>>
        /\ Statement(r, t, next) \/ Fails(r)
    BY <1>7 DEF SaveInserts
  <2>2. t.routes = db.routes \cup {new} /\ t.insts = db.insts
    <3> HIDE DEF new
    <3>0. u = [nodes |-> db.nodes, insts |-> db.insts, routes |-> db.routes \cup {new}, outs |-> db.outs]
      BY <1>3, Tables4
    <3>1. Shaped(u) /\ u.routes = db.routes \cup {new} /\ u.insts = db.insts
      BY <3>0 DEF Shaped
    <3>2. t.routes = u.routes /\ t.insts = u.insts
      BY <3>1, Tables4 DEF WithOuts
    <3> QED BY <3>1, <3>2
  <2>3. \A y \in db.routes : y.id # new.id
    <3>1. Numbered(db.routes) /\ \A y \in db.routes : y.id \in Nat
      BY TableTypes DEF TypeInv, DataOK, TablesOK
    <3>2. NewId(db.routes) \in Nat /\ \A y \in db.routes : y.id < NewId(db.routes)
      BY <3>1, NewIdIsNew
    <3> DEFINE n == NewId(db.routes)
    <3> HIDE DEF n
    <3>3. \A y \in db.routes : y.id # n
      BY <3>1, <3>2 DEF n
    <3> QED BY <3>3 DEF n
  <2>4. new.inst = id[r] /\ new.fallback = (k = Len(list[r]))
    OBVIOUS
  <2> HIDE DEF t, new
  <2>5. CASE Fails(r)
    BY <1>2, <2>1, <2>5 DEF SaveStep
  <2>6. CASE Flush(r, t) /\ Go(r, next)
    <3>1. /\ OthersStay(r) /\ at'[r] = next /\ id'[r] = id[r] /\ list'[r] = list[r]
      BY <2>1, <2>6, OthersUntouched
    <3>2. /\ db'.routes = db.routes \cup {new} /\ db'.insts = db.insts /\ UNCHANGED <<disk, torn>>
          /\ dirty' = dirty \cup {r}
      BY <2>2, <2>6 DEF Flush
    <3>3. id[r] = i => Fallbacks(db, i) = {}
      BY <2>1 DEF OneRoute, Inserting, Covered
    <3>4. Fallbacks(db', i) \subseteq Fallbacks(db, i) \cup {new}
      BY <3>2 DEF Fallbacks, RoutesOf
    <3>5. id[r] # i => Fallbacks(db', i) \subseteq Fallbacks(db, i)
      BY <2>4, <3>2 DEF Fallbacks, RoutesOf
    <3>6. Singular(Fallbacks(db, i))'
      BY <3>3, <3>4, <3>5 DEF OneRoute, Singular
    <3>7. at'[r] \in Inserting /\ id[r] = i => Covered(db, r, i)'
      <4>1. at'[r] \in Inserting => at'[r] = "save.insert" /\ ~ new.fallback
        BY <2>4, <3>1 DEF Inserting
      <4>2. at'[r] \in Inserting /\ id[r] = i => Fallbacks(db', i) = {}
        BY <3>3, <3>4, <4>1 DEF Fallbacks
      <4> QED BY <4>1, <4>2 DEF Covered
    <3>8. RoutesOf(db, i) \subseteq db'.routes
      BY <3>2 DEF RoutesOf
    <3>9. at'[r] \notin {"save.outs", "save.routes"}
      BY <3>1
    <3>10. RouteStep(r, i)
      BY <1>4, <2>1, <2>3, <2>4, <3>1, <3>2, <3>6, <3>7, <3>8, <3>9 DEF RouteStep, SaveStep
    <3> QED BY <3>10, RoutesAfterStep
  <2> QED BY <2>1, <2>5, <2>6 DEF Statement
<1>8. CASE SaveInsertsLastOuts(r)
  <2>1. /\ at[r] = "save.last" /\ UNCHANGED <<id, list, rows, mixed>>
        /\ Statement(r, WithOuts(r, db), "save.commit")
    BY <1>8 DEF SaveInsertsLastOuts, reqVars
  <2>2. WithOuts(r, db).routes = db.routes /\ WithOuts(r, db).insts = db.insts
    BY <1>3, Tables4 DEF WithOuts
  <2>3. CASE Fails(r)
    BY <1>2, <2>1, <2>3 DEF SaveStep
  <2>4. CASE Flush(r, WithOuts(r, db)) /\ Go(r, "save.commit")
    <3>1. /\ OthersStay(r) /\ at'[r] = "save.commit" /\ id'[r] = id[r] /\ list'[r] = list[r]
      BY <2>1, <2>4, OthersUntouched
    <3>2. /\ db'.routes = db.routes /\ db'.insts = db.insts /\ UNCHANGED <<disk, torn>>
          /\ dirty' = dirty \cup {r}
      BY <2>2, <2>4 DEF Flush
    <3> QED BY <1>4, <2>1, <3>1, <3>2, RoutesAreKept DEF SaveStep, Inserting
  <2> QED BY <2>1, <2>3, <2>4 DEF Statement
<1>9. CASE SaveCommits(r)
  <2>1. CommitAll /\ Go(r, "close") /\ UNCHANGED <<id, rows>>
    BY <1>9 DEF SaveCommits, Commits, reqVars
  <2>2. \A q \in Request : at'[q] = at[q] \/ at'[q] \notin Inserting
    BY <2>1, Goes DEF Inserting
  <2> QED BY <2>1, <2>2, RoutesAfterCommit
<1> QED BY <1>1, <1>5, <1>6, <1>7, <1>8, <1>9 DEF Save

LEMMA ScanKeepsRoutes ==
  ASSUME IInv, TypeInv, MixedInv, TypeInv', NEW r \in Request, NEW i \in Nat, Scan(r), ~ torn',
         OneRoute(i), Single(i), Savers(i) \subseteq Savers(i)'
  PROVE  OneRoute(i)'
<1> DEFINE ScanTo == (ScanStep \cup {"failed", "close"})
<1>0. ScanTo \cap Inserting = {} /\ (ScanStep \cup {"idle"}) \cap Deleting = {}
  BY DEF Inserting, Deleting, ScanStep, PurgeStep, RemoveStep
<1> HIDE DEF ScanTo
\* A step that leaves the routes alone.
<1>1. ASSUME at[r] \in ScanStep \cup {"idle"}, NEW s \in ScanTo, Go(r, s),
             UNCHANGED <<id, list, disk, torn>>,
             \A q \in Request \ {r} : rows'[q] = rows[q],
             dirty' \in {dirty, dirty \cup {r}}, mixed \subseteq mixed',
             db'.routes = db.routes, db.insts = {} => db'.insts = {} \/ r \in dirty'
      PROVE  OneRoute(i)'
  <2>1. at'[r] = s /\ OthersStay(r) /\ id'[r] = id[r] /\ list'[r] = list[r]
    BY <1>1, Goes DEF OthersStay
  <2>2. at'[r] \notin Inserting /\ at[r] \notin Deleting
    BY <1>0, <1>1, <2>1
  <2> QED BY <1>1, <2>1, <2>2, RoutesAreKept
<1>2. CASE BeginScan(r)
  <2>1. /\ at[r] = "idle" /\ Go(r, "scan.read") /\ UNCHANGED <<id, list, rows, connVars>>
        /\ mixed \subseteq mixed'
    BY <1>2 DEF BeginScan, Begins
  <2>2. "scan.read" \in ScanTo
    BY DEF ScanTo, ScanStep
  <2> QED BY <1>1, <2>1, <2>2 DEF connVars
<1>3. CASE ScanError(r) \/ ScanReads(r) \/ ScanRefreshes(r) \/ ScanFindsGone(r) \/ ScanReturns(r)
  <2>1. /\ at[r] \in ScanStep /\ UNCHANGED <<id, list, connVars, mixed>>
        /\ \E s \in ScanTo : Go(r, s)
    BY <1>3 DEF ScanError, ScanReads, ScanRefreshes, ScanFindsGone, ScanReturns, AfterFolder,
                ScanStep, ScanTo, reqVars
  <2>2. \A q \in Request \ {r} : rows'[q] = rows[q]
    BY <1>3, RequestMappings DEF ScanError, ScanReads, ScanRefreshes, ScanFindsGone, ScanReturns,
                                 reqVars, PerRequest
  <2> QED BY <1>1, <2>1, <2>2 DEF connVars
<1>4. ASSUME NEW t, NEW s \in ScanTo, at[r] \in ScanStep, UNCHANGED <<id, list, rows, mixed>>,
             (Flush(r, t) /\ Go(r, s)) \/ Fails(r), t.routes = db.routes
      PROVE  OneRoute(i)'
  <2>1. "failed" \in ScanTo
    BY DEF ScanTo
  <2>2. CASE Fails(r)
    BY <1>1, <1>4, <2>1, <2>2 DEF Fails, connVars
  <2>3. CASE Flush(r, t) /\ Go(r, s)
    BY <1>1, <1>4, <2>3 DEF Flush
  <2> QED BY <1>4, <2>2, <2>3
<1>5. Shaped(db)
  BY DEF IInv, FolderInv
<1>6. CASE ScanInserts(r)
  <2>1. PICK f \in left[r] :
          Statement(r, [db EXCEPT !.insts = @ \cup {Row(NewId(db.insts), f, TRUE)}], "scan.commit")
    BY <1>6 DEF ScanInserts
  <2>2. at[r] \in ScanStep /\ UNCHANGED <<id, list, rows, mixed>> /\ "scan.commit" \in ScanTo
    BY <1>6 DEF ScanInserts, Takes, ScanStep, ScanTo
  <2>3. [db EXCEPT !.insts = @ \cup {Row(NewId(db.insts), f, TRUE)}].routes = db.routes
    BY <1>5, Tables4
  <2> QED BY <1>4, <2>1, <2>2, <2>3 DEF Statement
<1>7. CASE ScanUpdates(r)
  <2>1. at[r] \in ScanStep /\ UNCHANGED <<id, list, rows, mixed>> /\ "scan.commit" \in ScanTo
    BY <1>7 DEF ScanUpdates, Takes, ScanStep, ScanTo
  <2>2. PICK x \in rows[r] :
          \/ Flush(r, Enabled(db, {x.id}, TRUE)) /\ Go(r, "scan.commit")
          \/ Fails(r)
    <3>1. PICK x \in rows[r] :
            \/ /\ Flush(r, [db EXCEPT !.insts =
                    {IF y.id = x.id THEN Row(y.id, y.folder, TRUE) ELSE y : y \in @}])
               /\ Go(r, "scan.commit")
            \/ Fails(r)
      BY <1>7 DEF ScanUpdates
    <3>2. {IF y.id = x.id THEN Row(y.id, y.folder, TRUE) ELSE y : y \in db.insts}
            = {IF y.id \in {x.id} THEN Row(y.id, y.folder, TRUE) ELSE y : y \in db.insts}
      OBVIOUS
    <3> QED BY <3>1, <3>2 DEF Enabled
  <2>3. Enabled(db, {x.id}, TRUE).routes = db.routes
    BY <1>5, Tables4 DEF Enabled
  <2> QED BY <1>4, <2>1, <2>2, <2>3
<1>8. CASE ScanDisables(r)
  <2>1. at[r] \in ScanStep /\ UNCHANGED <<id, list, rows, mixed>> /\ "scan.end" \in ScanTo
    BY <1>8 DEF ScanDisables, reqVars, ScanStep, ScanTo
  <2>2. (Flush(r, Enabled(db, Ids(rows[r]), FALSE)) /\ Go(r, "scan.end")) \/ Fails(r)
    BY <1>8 DEF ScanDisables, Enabled
  <2>3. Enabled(db, Ids(rows[r]), FALSE).routes = db.routes
    BY <1>5, Tables4 DEF Enabled
  <2> QED BY <1>4, <2>1, <2>2, <2>3
<1>9. CASE ScanCommits(r) \/ ScanEnds(r)
  <2>1. CommitAll /\ UNCHANGED <<id, rows>> /\ \E s \in {"scan.refresh", "scan.reconcile"} : Go(r, s)
    BY <1>9 DEF ScanCommits, ScanEnds, Commits, reqVars
  <2>2. \A q \in Request : at'[q] = at[q] \/ at'[q] \notin Inserting
    BY <2>1, Goes DEF Inserting
  <2> QED BY <2>1, <2>2, RoutesAfterCommit
<1>10. CASE ScanUnwinds(r)
  <2>1. RollbackAll(r) /\ Go(r, "close") /\ UNCHANGED <<id, rows>> /\ at[r] \in {"failed"} \cup Clean
    BY <1>10 DEF ScanUnwinds, Discards, reqVars, Clean
  <2>2. \A q \in Request : at'[q] = at[q] \/ at'[q] \notin Inserting
    BY <2>1, Goes DEF Inserting
  <2> QED BY <2>1, <2>2, RoutesAfterRollback
<1> QED BY <1>2, <1>3, <1>6, <1>7, <1>8, <1>9, <1>10 DEF Scan

LEMMA PurgeKeepsRoutes ==
  ASSUME IInv, TypeInv, MixedInv, TypeInv', NEW r \in Request, NEW i \in Nat, Purge(r),
         OneRoute(i), Single(i), Savers(i) \subseteq Savers(i)'
  PROVE  OneRoute(i)'
<1>0. PurgeStep \subseteq Deleting /\ "idle" \notin Deleting
      /\ Inserting \cap (PurgeStep \cup {"failed", "close"}) = {}
  BY DEF Inserting, Deleting, PurgeStep, RemoveStep
<1>1. Shaped(db) /\ Refers(db)
  BY DEF IInv, FolderInv
<1>2. CASE BeginPurge(r)
  <2>1. PICK j : id' = [id EXCEPT ![r] = j]
    BY <1>2 DEF BeginPurge
  <2>2. /\ at[r] = "idle" /\ Go(r, "purge.outs") /\ UNCHANGED <<list, rows, connVars>>
        /\ mixed \subseteq mixed'
    BY <1>2 DEF BeginPurge, Begins
  <2>3. at'[r] = "purge.outs" /\ OthersStay(r)
    BY <2>1, <2>2, Goes, RequestMappings DEF OthersStay, PerRequest
  <2>4. at'[r] \notin Inserting /\ at[r] \notin Deleting
    BY <1>0, <2>2, <2>3 DEF PurgeStep
  <2> QED BY <2>2, <2>3, <2>4, RoutesAreKept DEF connVars
<1>3. CASE PurgeDeletes(r)
  <2> DEFINE mine == Ids(RoutesOf(db, id[r]))
             O == {o \in db.outs : o.route \notin mine}
             R == {x \in db.routes : x.inst # id[r]}
             I == {x \in db.insts : x.id # id[r]}
  <2>1. UNCHANGED <<id, list, rows, mixed>>
    BY <1>3 DEF PurgeDeletes, reqVars
  <2>2. ASSUME NEW s, Go(r, s)
        PROVE  OthersStay(r) /\ at'[r] = s /\ id'[r] = id[r] /\ list'[r] = list[r]
    BY <2>1, <2>2, OthersUntouched
  <2>3. CASE at[r] = "purge.outs" /\ Statement(r, [db EXCEPT !.outs = O], "purge.routes")
    <3>1. [db EXCEPT !.outs = O].routes = db.routes /\ [db EXCEPT !.outs = O].insts = db.insts
      BY <1>1, Tables4
    <3>2. ~ Deleter(r, i)
      BY <2>3 DEF Deleter
    <3>3. CASE Fails(r)
      BY <2>1, <3>2, <3>3, FailureKeepsRoutes
    <3>4. CASE Flush(r, [db EXCEPT !.outs = O]) /\ Go(r, "purge.routes")
      <4>1. /\ db'.routes = db.routes /\ db'.insts = db.insts /\ UNCHANGED <<disk, torn>>
            /\ dirty' = dirty \cup {r}
        BY <3>1, <3>4 DEF Flush
      <4>2. RoutesOf(db, i) \subseteq db'.routes /\ db'.routes \subseteq db.routes
        BY <4>1 DEF RoutesOf
      <4>3. at'[r] \in Deleting /\ at'[r] \notin Inserting
        BY <1>0, <2>2, <3>4 DEF PurgeStep
      <4> QED BY <2>1, <2>2, <3>2, <3>4, <4>1, <4>2, <4>3, RoutesAreFewer
    <3> QED BY <2>3, <3>3, <3>4 DEF Statement
  <2>4. CASE at[r] = "purge.routes" /\ Statement(r, [db EXCEPT !.routes = R], "purge.instance")
    <3>1. [db EXCEPT !.routes = R].routes = R /\ [db EXCEPT !.routes = R].insts = db.insts
      BY <1>1, Tables4
    <3>2. ~ Deleter(r, i)
      BY <2>4 DEF Deleter
    <3>3. CASE Fails(r)
      BY <2>1, <3>2, <3>3, FailureKeepsRoutes
    <3>4. CASE Flush(r, [db EXCEPT !.routes = R]) /\ Go(r, "purge.instance")
      <4>1. /\ db'.routes = R /\ db'.insts = db.insts /\ UNCHANGED <<disk, torn>>
            /\ dirty' = dirty \cup {r}
        BY <3>1, <3>4 DEF Flush
      <4>2. at'[r] = "purge.instance" /\ at'[r] \in Deleting /\ at'[r] \notin Inserting
        BY <1>0, <2>2, <3>4 DEF PurgeStep
      <4>3. RoutesOf(db, i) \subseteq db'.routes \/ Deleter(r, i)'
        <5>1. CASE id[r] = i
          BY <2>2, <3>4, <4>1, <4>2, <5>1 DEF Deleter, RoutesOf
        <5>2. CASE id[r] # i
          BY <4>1, <5>2 DEF RoutesOf
        <5> QED BY <5>1, <5>2
      <4>4. db'.routes \subseteq db.routes
        BY <4>1
      <4> HIDE DEF R
      <4> QED BY <2>1, <2>2, <2>4, <3>2, <3>4, <4>1, <4>2, <4>3, <4>4, RoutesAreFewer
    <3> QED BY <2>4, <3>3, <3>4 DEF Statement
  <2>5. CASE at[r] = "purge.instance" /\ Statement(r, [db EXCEPT !.insts = I], "purge.commit")
    <3>1. [db EXCEPT !.insts = I] = [nodes |-> db.nodes, insts |-> I, routes |-> db.routes, outs |-> db.outs]
      BY <1>1, Tables4
    <3>2. Deleter(r, i) => id[r] = i /\ RoutesOf(db, i) = {}
      BY <2>5 DEF Deleter
    \* Without routes the foreign keys do not keep the instance.
    <3>3. Deleter(r, i) => ForeignKeysHold([db EXCEPT !.insts = I])
      BY <1>1, <3>1, <3>2 DEF ForeignKeysHold, Refers, RoutesOf, Ids
    <3>4. CASE ~ ForeignKeysHold([db EXCEPT !.insts = I]) /\ Fails(r)
      BY <2>1, <3>3, <3>4, FailureKeepsRoutes
    <3>5. CASE Flush(r, [db EXCEPT !.insts = I]) /\ Go(r, "purge.commit")
      <4>1. /\ db'.routes = db.routes /\ (db.insts = {} => db'.insts = {})
            /\ UNCHANGED <<disk, torn>> /\ dirty' = dirty \cup {r}
        BY <3>1, <3>5 DEF Flush
      <4>2. RoutesOf(db, i) \subseteq db'.routes /\ db'.routes \subseteq db.routes
        BY <4>1 DEF RoutesOf
      <4>3. at'[r] = "purge.commit" /\ at'[r] \in Deleting /\ at'[r] \notin Inserting
        BY <1>0, <2>2, <3>5 DEF PurgeStep
      <4>4. Deleter(r, i) => Deleter(r, i)'
        BY <2>2, <3>2, <3>5, <4>3 DEF Deleter
      <4> QED BY <2>1, <2>2, <2>5, <3>5, <4>1, <4>2, <4>3, <4>4, RoutesAreFewer
    <3> QED BY <2>5, <3>4, <3>5 DEF Statement
  <2> QED BY <1>3, <2>3, <2>4, <2>5 DEF PurgeDeletes
<1>4. CASE PurgeCommits(r)
  <2>1. CommitAll /\ Go(r, "close") /\ UNCHANGED <<id, rows>>
    BY <1>4 DEF PurgeCommits, Commits, reqVars
  <2>2. \A q \in Request : at'[q] = at[q] \/ at'[q] \notin Inserting
    BY <2>1, Goes DEF Inserting
  <2> QED BY <2>1, <2>2, RoutesAfterCommit
<1> QED BY <1>2, <1>3, <1>4 DEF Purge

LEMMA RemoveKeepsRoutes ==
  ASSUME IInv, TypeInv, MixedInv, TypeInv', NEW r \in Request, NEW i \in Nat, Remove(r),
         OneRoute(i), Single(i), Savers(i) \subseteq Savers(i)'
  PROVE  OneRoute(i)'
<1>0. RemoveStep \subseteq Deleting /\ "idle" \notin Deleting
      /\ Inserting \cap (RemoveStep \cup {"failed", "close"}) = {}
  BY DEF Inserting, Deleting, PurgeStep, RemoveStep
<1>1. Shaped(db) /\ Refers(db)
  BY DEF IInv, FolderInv
<1>2. CASE BeginRemove(r)
  <2>1. PICK n : id' = [id EXCEPT ![r] = n]
    BY <1>2 DEF BeginRemove
  <2>2. /\ at[r] = "idle" /\ Go(r, "remove.read") /\ UNCHANGED <<list, rows, connVars>>
        /\ mixed \subseteq mixed'
    BY <1>2 DEF BeginRemove, Begins
  <2>3. at'[r] = "remove.read" /\ OthersStay(r)
    BY <2>1, <2>2, Goes, RequestMappings DEF OthersStay, PerRequest
  <2>4. at'[r] \notin Inserting /\ at[r] \notin Deleting
    BY <1>0, <2>2, <2>3 DEF RemoveStep
  <2> QED BY <2>2, <2>3, <2>4, RoutesAreKept DEF connVars
\* A statement of r: what it leaves of the routes, and that it cannot fail
\* where r has deleted them.
<1>3. ASSUME at[r] \in RemoveStep, UNCHANGED <<id, list, rows, mixed>>,
             NEW t, NEW next \in RemoveStep, Statement(r, t, next),
             t.routes \subseteq db.routes, db.insts = {} => t.insts = {},
             t.routes = db.routes \/ (next = "remove.instances" /\ t.routes = {}),
             Deleter(r, i) => Refers(t) \/ Two,
             Deleter(r, i) =>
               \/ next \in {"remove.landing", "remove.node"} /\ id[r] = Entry /\ (t.insts = {} \/ Two)
               \/ next = "remove.commit" /\ id[r] = Entry
      PROVE  OneRoute(i)'
  <2>1. CASE ~ ForeignKeysHold(t) /\ Fails(r)
    BY <1>3, <2>1, FailureKeepsRoutes DEF ForeignKeysHold
  <2>2. CASE Flush(r, t) /\ Go(r, next)
    <3>1. OthersStay(r) /\ at'[r] = next /\ id'[r] = id[r] /\ list'[r] = list[r]
      BY <1>3, <2>2, OthersUntouched
    <3>2. /\ db' = t /\ UNCHANGED <<disk, torn>> /\ dirty' = dirty \cup {r}
      BY <2>2 DEF Flush
    <3>3. at'[r] \in Deleting /\ at'[r] \notin Inserting /\ at[r] # "idle"
      BY <1>0, <1>3, <3>1 DEF RemoveStep
    <3>4. RoutesOf(db, i) \subseteq db'.routes \/ Deleter(r, i)'
      BY <1>3, <3>1, <3>2 DEF RoutesOf, Deleter
    <3>5. Two => Two'
      BY <3>2 DEF Two
    <3>6. Deleter(r, i) => Deleter(r, i)'
      BY <1>3, <3>1, <3>2, <3>5 DEF Deleter
    <3> QED BY <1>3, <3>1, <3>2, <3>3, <3>4, <3>6, RoutesAreFewer
  <2> QED BY <1>3, <2>1, <2>2 DEF Statement
<1>4. CASE RemoveReads(r)
  <2>1. /\ at[r] = "remove.read" /\ UNCHANGED <<id, list, rows, mixed, connVars>>
        /\ \E s \in RemoveStep : Go(r, s)
    BY <1>4 DEF RemoveReads, reqVars, RemoveStep
  <2>2. PICK s \in RemoveStep : Go(r, s)
    BY <2>1
  <2>3. OthersStay(r) /\ at'[r] = s /\ id'[r] = id[r] /\ list'[r] = list[r]
    BY <2>1, <2>2, OthersUntouched
  <2>4. at'[r] \in Deleting /\ at'[r] \notin Inserting
    BY <1>0, <2>3
  <2>5. ~ Deleter(r, i)
    BY <2>1 DEF Deleter
  <2>6. RoutesOf(db, i) \subseteq db'.routes /\ db'.routes \subseteq db.routes
    BY <2>1 DEF RoutesOf, connVars
  <2> QED BY <2>1, <2>3, <2>4, <2>5, <2>6, RoutesAreFewer DEF connVars
<1>5. CASE RemoveDeletes(r)
  <2>1. at[r] \in RemoveStep /\ UNCHANGED <<id, list, rows, mixed>>
    BY <1>5 DEF RemoveDeletes, reqVars, RemoveStep
  <2>2. {"remove.routes", "remove.instances", "remove.landing", "remove.node", "remove.commit"} \subseteq RemoveStep
    BY DEF RemoveStep
  \* Without instances there is nothing that a foreign key could keep.
  <2>3. db.routes = {} => db.outs = {}
    BY <1>1 DEF Refers, Ids
  <2>4. db.insts = {} => db.routes = {}
    BY <1>1 DEF Refers, Ids
  <2>5. CASE at[r] = "remove.outs" /\ Statement(r, [db EXCEPT !.outs = {}], "remove.routes")
    <3>1. [db EXCEPT !.outs = {}] = [nodes |-> db.nodes, insts |-> db.insts, routes |-> db.routes, outs |-> {}]
      BY <1>1, Tables4
    <3>2. ~ Deleter(r, i)
      BY <2>5 DEF Deleter
    <3> QED BY <1>3, <2>1, <2>2, <2>5, <3>1, <3>2
  <2>6. CASE at[r] = "remove.routes" /\ Statement(r, [db EXCEPT !.routes = {}], "remove.instances")
    <3>1. [db EXCEPT !.routes = {}] = [nodes |-> db.nodes, insts |-> db.insts, routes |-> {}, outs |-> db.outs]
      BY <1>1, Tables4
    <3>2. ~ Deleter(r, i)
      BY <2>6 DEF Deleter
    <3> QED BY <1>3, <2>1, <2>2, <2>6, <3>1, <3>2
  <2>7. CASE at[r] = "remove.instances" /\ Statement(r, [db EXCEPT !.insts = {}], "remove.landing")
    <3>1. [db EXCEPT !.insts = {}] = [nodes |-> db.nodes, insts |-> {}, routes |-> db.routes, outs |-> db.outs]
      BY <1>1, Tables4
    <3>2. Deleter(r, i) => db.routes = {} \/ Two
      BY <2>7 DEF Deleter
    <3>3. Deleter(r, i) => Refers([db EXCEPT !.insts = {}]) \/ Two
      BY <2>3, <3>1, <3>2 DEF Refers
    <3>4. id[r] = Entry
      BY <2>7 DEF IInv, EntryRemoves
    <3> QED BY <1>3, <2>1, <2>2, <2>7, <3>1, <3>3, <3>4
  <2>8. CASE at[r] = "remove.landing" /\ Statement(r, [db EXCEPT !.outs = {o \in @ : o.landing # id[r]}], "remove.node")
    <3> DEFINE O == {o \in db.outs : o.landing # id[r]}
    <3>1. [db EXCEPT !.outs = O] = [nodes |-> db.nodes, insts |-> db.insts, routes |-> db.routes, outs |-> O]
      BY <1>1, Tables4
    <3>2. Deleter(r, i) => id[r] = Entry /\ (db.insts = {} \/ Two)
      BY <2>8 DEF Deleter
    <3>3. Refers([db EXCEPT !.outs = O])
      BY <1>1, <3>1 DEF Refers
    <3> QED BY <1>3, <2>1, <2>2, <2>8, <3>1, <3>2, <3>3
  <2>9. CASE at[r] = "remove.node" /\ Statement(r, [db EXCEPT !.nodes = @ \ {id[r]}], "remove.commit")
    <3>1. [db EXCEPT !.nodes = @ \ {id[r]}]
            = [nodes |-> db.nodes \ {id[r]}, insts |-> db.insts, routes |-> db.routes, outs |-> db.outs]
      BY <1>1, Tables4
    <3>2. Deleter(r, i) => id[r] = Entry /\ (db.insts = {} \/ Two)
      BY <2>9 DEF Deleter
    <3>3. Deleter(r, i) => Refers([db EXCEPT !.nodes = @ \ {id[r]}]) \/ Two
      BY <2>3, <2>4, <3>1, <3>2 DEF Refers
    <3> QED BY <1>3, <2>1, <2>2, <2>9, <3>1, <3>2, <3>3
  <2> QED BY <1>5, <2>5, <2>6, <2>7, <2>8, <2>9 DEF RemoveDeletes
<1>6. CASE RemoveCommits(r)
  <2>1. CommitAll /\ Go(r, "close") /\ UNCHANGED <<id, rows>>
    BY <1>6 DEF RemoveCommits, Commits, reqVars
  <2>2. \A q \in Request : at'[q] = at[q] \/ at'[q] \notin Inserting
    BY <2>1, Goes DEF Inserting
  <2> QED BY <2>1, <2>2, RoutesAfterCommit
<1> QED BY <1>2, <1>4, <1>5, <1>6 DEF Remove

\* A step leaves alone what an overlapping save has asked for.
LEMMA SavesAreKept ==
  ASSUME IInv, TypeInv, MixedInv, [Next]_vars
  PROVE  mixed \subseteq mixed' /\ \A q \in Begun : id'[q] = id[q] /\ list'[q] = list[q]
<1>1. ASSUME NEW r \in Request, Save(r) \/ Scan(r) \/ Purge(r) \/ Remove(r) \/ Close(r)
      PROVE  mixed \subseteq mixed' /\ \A q \in Begun : id'[q] = id[q] /\ list'[q] = list[q]
  <2>1. mixed \subseteq mixed'
    BY <1>1, RequestSteps DEF Begins
  <2>2. \/ UNCHANGED <<id, list>>
        \/ /\ at[r] = "idle"
           /\ \E j : id' = [id EXCEPT ![r] = j]
           /\ UNCHANGED list \/ \E p : list' = [list EXCEPT ![r] = p]
    <3>1. CASE Save(r)
      BY <3>1 DEF Save, BeginSave, SaveDeletesOuts, SaveDeletesRoutes, SaveInserts,
                  SaveInsertsLastOuts, SaveCommits, Commits, Begins, reqVars
    <3>2. CASE Scan(r)
      BY <3>2 DEF Scan, BeginScan, ScanError, ScanReads, ScanInserts, ScanUpdates, ScanCommits,
         ScanRefreshes, ScanFindsGone, ScanDisables, ScanEnds, ScanReturns, ScanUnwinds, Takes,
         Commits, reqVars
    <3>3. CASE Purge(r)
      BY <3>3 DEF Purge, BeginPurge, PurgeDeletes, PurgeCommits, Commits, Begins, reqVars
    <3>4. CASE Remove(r)
      BY <3>4 DEF Remove, BeginRemove, RemoveReads, RemoveDeletes, RemoveCommits, Commits, Begins, reqVars
    <3>5. CASE Close(r)
      BY <3>5 DEF Close, reqVars
    <3> QED BY <1>1, <3>1, <3>2, <3>3, <3>4, <3>5
  <2>3. PerRequest(id) /\ PerRequest(list)
    BY RequestMappings
  <2>4. \A q \in Begun : id'[q] = id[q] /\ list'[q] = list[q]
    <3>1. CASE UNCHANGED <<id, list>>
      BY <3>1
    <3>2. CASE /\ at[r] = "idle"
               /\ \E j : id' = [id EXCEPT ![r] = j]
               /\ UNCHANGED list \/ \E p : list' = [list EXCEPT ![r] = p]
      <4>1. \A q \in Begun : q \in Request /\ q # r
        BY <3>2 DEF Begun
      <4> QED BY <2>3, <3>2, <4>1 DEF PerRequest
    <3> QED BY <2>2, <3>1, <3>2
  <2> QED BY <2>1, <2>4
<1>2. CASE OtherSessionEnds \/ PanelCrash \/ UNCHANGED vars
  BY <1>2 DEF OtherSessionEnds, PanelCrash, vars, reqVars
<1> QED BY <1>1, <1>2 DEF Next

LEMMA FallbackNext ==
  ASSUME IInv, TypeInv, TypeInv', MixedInv, FallbackInv, [Next]_vars
  PROVE  FallbackInv'
<1> SUFFICES ASSUME ~ torn', NEW i \in Nat, Single(i)' PROVE OneRoute(i)'
  BY DEF FallbackInv
<1>1. Savers(i) \subseteq Savers(i)' /\ Single(i)
  BY SavesAreKept, SaversGrow
<1>2. torn => torn'
  <2>1. UNCHANGED torn \/ (\E u : RollbackAll(u))
    <3>1. ASSUME NEW r \in Request, Save(r) \/ Purge(r) \/ Remove(r) \/ Close(r)
          PROVE  UNCHANGED torn \/ (\E u : RollbackAll(u))
      BY <3>1 DEF Save, BeginSave, SaveDeletesOuts, SaveDeletesRoutes, SaveInserts,
         SaveInsertsLastOuts, SaveCommits, Purge, BeginPurge, PurgeDeletes, PurgeCommits,
         Remove, BeginRemove, RemoveReads, RemoveDeletes, RemoveCommits, Close, Discards,
         Begins, Statement, Flush, Fails, Commits, CommitAll, connVars
    <3>2. ASSUME NEW r \in Request, Scan(r)
          PROVE  UNCHANGED torn \/ (\E u : RollbackAll(u))
      BY <3>2 DEF Scan, BeginScan, ScanError, ScanReads, ScanInserts, ScanUpdates, ScanCommits,
         ScanRefreshes, ScanFindsGone, ScanDisables, ScanEnds, ScanReturns, ScanUnwinds, Discards,
         Begins, Statement, Flush, Fails, Commits, CommitAll, connVars
    <3>3. CASE OtherSessionEnds \/ PanelCrash \/ UNCHANGED vars
      BY <3>3 DEF OtherSessionEnds, PanelCrash, Reopen, CommitAll, vars, connVars
    <3> QED BY <3>1, <3>2, <3>3 DEF Next
  <2> QED BY <2>1 DEF RollbackAll
<1>3. OneRoute(i)
  BY <1>1, <1>2 DEF FallbackInv
<1>4. ASSUME NEW r \in Request, Save(r) \/ Scan(r) \/ Purge(r) \/ Remove(r) PROVE OneRoute(i)'
  BY <1>1, <1>3, <1>4, SaveKeepsRoutes, ScanKeepsRoutes, PurgeKeepsRoutes, RemoveKeepsRoutes
<1>5. ASSUME NEW r \in Request, Close(r) PROVE OneRoute(i)'
  <2>1. RollbackAll(r) /\ Go(r, "done") /\ UNCHANGED <<id, rows>> /\ at[r] \in {"failed"} \cup Clean
    BY <1>5 DEF Close, Discards, reqVars, Clean
  <2>2. \A q \in Request : at'[q] = at[q] \/ at'[q] \notin Inserting
    BY <2>1, Goes DEF Inserting
  <2> QED BY <1>1, <1>3, <2>1, <2>2, RoutesAfterRollback
<1>6. CASE OtherSessionEnds
  <2>1. UNCHANGED <<at, id, rows>> /\ (RollbackAll(None) \/ CommitAll)
    BY <1>6 DEF OtherSessionEnds, reqVars
  <2>2. None \notin dirty
    BY StoreAssumption DEF IInv, FolderInv
  <2> QED BY <1>1, <1>3, <2>1, <2>2, RoutesAfterCommit, RoutesAfterRollback
<1>7. CASE PanelCrash
  <2>1. db' = disk' /\ disk' = disk /\ dirty' = {}
    BY <1>7 DEF PanelCrash, Reopen
  <2>2. \A q \in Request : at'[q] \notin Inserting
    <3>1. Inserting \subseteq Step /\ "done" \notin Inserting
      BY DEF Inserting, Step, SaveStep
    <3> QED BY <1>7, <3>1 DEF PanelCrash, Active
  <2>3. Singular(Fallbacks(disk, i))'
    BY <1>3, <2>1 DEF OneRoute, Singular, Fallbacks, RoutesOf
  <2> QED BY <2>1, <2>2, <2>3, RoutesAgree DEF Inserting
<1>8. CASE UNCHANGED vars
  <2>1. UNCHANGED <<db, disk, dirty, at, id, list, rows, mixed>>
    BY <1>8 DEF vars, connVars, reqVars
  <2>2. Savers(i)' = Savers(i) /\ (Held(i) => Held(i)')
    BY <2>1 DEF Savers, Saver, Held, Deleter, Two, RoutesOf
  <2>3. NoStale(i) => NoStale(i)'
    BY <2>1 DEF NoStale, Saver, Two, RoutesOf, Ids
  <2> QED BY <1>3, <2>1, <2>2, <2>3 DEF OneRoute, Saver, Covered, Singular, Fallbacks, RoutesOf, Ids
<1> QED BY <1>4, <1>5, <1>6, <1>7, <1>8 DEF Next

LEMMA FallbackInit ==
  ASSUME Init
  PROVE  MixedInv /\ FallbackInv
<1>1. PICK enabled \in BOOLEAN, f \in Folder, l \in Landing :
        DatabaseInit([nodes  |-> Landing \cup {Entry},
                      insts  |-> {Row(1, f, enabled)},
                      routes |-> {[id |-> 1, inst |-> 1, pos |-> 1, fallback |-> TRUE]},
                      outs   |-> {[route |-> 1, landing |-> l]}])
  BY DEF Init
<1>2. /\ db = disk /\ dirty = {} /\ torn = FALSE
      /\ db.routes = {[id |-> 1, inst |-> 1, pos |-> 1, fallback |-> TRUE]}
  BY <1>1 DEF DatabaseInit
<1>3. mixed = {} /\ \A q \in Request : at[q] = "idle"
  BY DEF Init
<1>4. Begun = {} /\ Active = {}
  BY <1>3, OpenSteps DEF Begun, Active
<1>5. MixedInv
  BY <1>2, <1>3, <1>4, FS_EmptySet DEF MixedInv
<1>6. ASSUME NEW i \in Nat PROVE OneRoute(i)
  <2>1. \A x, y \in db.routes : x = y
    BY <1>2
  <2>2. NoStale(i)
    BY <1>2, <1>3, <2>1 DEF NoStale, RoutesOf
  <2>3. Singular(Fallbacks(db, i)) /\ Fallbacks(db, i) \subseteq db.routes
    BY <2>1 DEF Singular, Fallbacks, RoutesOf
  <2> QED BY <1>2, <1>3, <2>2, <2>3 DEF OneRoute, Inserting
<1> QED BY <1>5, <1>6 DEF FallbackInv

(***************************************************************************)
(* An instance has at most one fallback route, however many saves fail     *)
(* half way and are committed by another session, unless two saves of it   *)
(* overlapped or a rollback discarded what another session had flushed.    *)
(***************************************************************************)
THEOREM FallbackIsSingle == Spec => []OneFallback
<1>1. Init => MixedInv
  BY FallbackInit
<1>2. IInv /\ MixedInv /\ [Next]_vars => MixedInv'
  BY MixedNext
<1>3. Spec => []MixedInv
  BY <1>1, <1>2, Invariance, PTL DEF Spec
<1>4. Init => FallbackInv
  BY FallbackInit
<1>5. IInv /\ TypeInv /\ TypeInv' /\ MixedInv /\ FallbackInv /\ [Next]_vars => FallbackInv'
  BY FallbackNext
<1>6. IInv /\ TypeInv /\ MixedInv /\ FallbackInv => OneFallback
  <2> SUFFICES ASSUME TypeInv, MixedInv, FallbackInv, NEW i \in Ids(db.insts), ~ torn,
                      Cardinality({r \in mixed : id[r] = i /\ list[r] # <<>>}) <= 1
               PROVE  Cardinality(Fallbacks(db, i)) <= 1
    BY DEF OneFallback
  <2>1. i \in Nat
    BY TableTypes DEF TypeInv, DataOK, TablesOK, Ids
  <2>2. Savers(i) = {r \in mixed : id[r] = i /\ list[r] # <<>>}
    BY DEF Savers, Saver
  <2>3. IsFiniteSet(Savers(i))
    BY FS_Subset DEF MixedInv, Savers
  <2>4. Single(i)
    BY <2>2, <2>3, SingularSets DEF Single, Singular
  <2>5. Singular(Fallbacks(db, i))
    BY <2>1, <2>4 DEF FallbackInv, OneRoute
  <2>6. Fallbacks(db, i) = {} \/ \E x : Fallbacks(db, i) = {x}
    BY <2>5 DEF Singular
  <2>7. IsFiniteSet(Fallbacks(db, i))
    BY <2>6, FS_EmptySet, FS_Singleton
  <2> QED BY <2>5, <2>7, SingularSets
<1> QED BY <1>3, <1>4, <1>5, <1>6, Invariance, TypesInvariant, PTL DEF Spec

-----------------------------------------------------------------------------
(* What a request that has the database to itself makes durable.           *)

(***************************************************************************)
(* The draft of an open request that is alone: what the visible tables are *)
(* in terms of the stored ones, by where it stands.                        *)
(***************************************************************************)
OutsElse(t, i) == {o \in t.outs : o.route \notin Ids(RoutesOf(t, i))}

\* Nothing that belongs to another instance has changed.
OnlyOf(i, t, u) ==
  /\ u.nodes = t.nodes
  /\ {x \in u.routes : x.inst # i} = {x \in t.routes : x.inst # i}
  /\ OutsElse(u, i) = OutsElse(t, i)

Landings(t, x) == {o.landing : o \in OutsOf(t, {x.id})}

\* A route of the payload: the outs of the one inserted last are to follow.
Drafted(r, x) ==
  /\ x.pos \in 1..(pos[r] - 1)
  /\ x.fallback = (x.pos = Len(list[r]))
  /\ at[r] # "save.commit" => (x.pos = pos[r] - 1 <=> x.id = last[r])
  /\ Landings(db, x) = IF at[r] # "save.commit" /\ x.pos = pos[r] - 1 THEN {} ELSE list[r][x.pos]

SaveDraft(r) ==
  /\ at[r] \in SaveStep => db.insts = disk.insts /\ OnlyOf(id[r], disk, db)
  /\ at[r] \in {"save.outs", "save.routes"} => rows[r] = RoutesOf(db, id[r])
  /\ at[r] \in {"save.insert", "save.last", "save.commit"} =>
       /\ \A x \in RoutesOf(db, id[r]) : Drafted(r, x)
       /\ \A k \in 1..(pos[r] - 1) : \E x \in RoutesOf(db, id[r]) : x.pos = k
  /\ at[r] = "save.commit" => pos[r] = Len(list[r]) + 1

Handled(r) == seen[r] \ left[r]

\* A scan between two of its folders.
Folded(r) ==
  /\ left[r] \subseteq seen[r]
  /\ \A f \in Handled(r) : \E x \in db.insts : x.folder = f /\ x.enabled
  /\ \A x \in db.insts : x.folder \in Handled(r) \/ x \in rows[r]
  /\ \A x \in rows[r] : \E y \in db.insts : y.id = x.id /\ y.folder = x.folder

ScanDraft(r) ==
  /\ at[r] \in {"scan.read", "scan.folder", "scan.refresh", "scan.gone", "scan.disable", "scan.reconcile"} =>
       db = disk
  /\ at[r] = "scan.read" => left[r] = seen[r]
  /\ at[r] \in {"scan.folder", "scan.commit", "scan.refresh", "scan.gone"} => Folded(r)
  /\ at[r] = "scan.gone" => left[r] = {}
  /\ at[r] = "scan.commit" => Scanned(r, disk, db)
  /\ at[r] = "scan.disable" =>
       /\ \A f \in seen[r] : \E x \in db.insts : x.folder = f /\ x.enabled
       /\ \A x \in db.insts : x.folder \in seen[r] => x.id \notin Ids(rows[r])
       /\ \A x \in db.insts : x.folder \notin seen[r] /\ x.enabled => x.id \in Ids(rows[r])
  /\ at[r] = "scan.end" => ScannedAll(r, disk, db)

PurgeDraft(r) ==
  /\ at[r] \in PurgeStep => OnlyOf(id[r], disk, db)
  /\ at[r] \in PurgeStep \ {"purge.commit"} => db.insts = disk.insts
  /\ at[r] = "purge.commit" => db.insts = {x \in disk.insts : x.id # id[r]}

RemoveDraft(r) ==
  /\ at[r] \in {"remove.read", "remove.outs"} => db = disk
  /\ at[r] \in {"remove.routes", "remove.instances"} =>
       db.nodes = disk.nodes /\ db.insts = disk.insts
  /\ at[r] \in {"remove.landing", "remove.node"} =>
       /\ db.nodes = disk.nodes
       /\ IF id[r] = Entry THEN db.insts = {} /\ db.routes = {} /\ db.outs = {}
          ELSE /\ db.insts = disk.insts /\ db.routes = disk.routes
               /\ db.outs = IF at[r] = "remove.landing" THEN disk.outs
                            ELSE {o \in disk.outs : o.landing # id[r]}
  /\ at[r] = "remove.commit" => Removed(r, disk, db)

Draft(r) == SaveDraft(r) /\ ScanDraft(r) /\ PurgeDraft(r) /\ RemoveDraft(r)

DraftInv == \A r \in Request \ mixed : at[r] \in Step => Draft(r)

\* A step of r can only change the draft of r: whoever else was open has
\* not had the database to itself any more.
LEMMA OnlyItsDraft ==
  ASSUME IInv, MixedInv, LoneInv, DraftInv, NEW r \in Request,
         Save(r) \/ Scan(r) \/ Purge(r) \/ Remove(r) \/ Close(r),
         r \notin mixed' /\ at'[r] \in Step => Draft(r)'
  PROVE  DraftInv'
<1> SUFFICES ASSUME NEW q \in Request \ mixed', at'[q] \in Step PROVE Draft(q)'
  BY DEF DraftInv
<1>1. CASE q = r
  BY <1>1
<1>2. CASE q # r
  <2>1. (\E s : Go(r, s)) /\ mixed \subseteq mixed'
    BY RequestSteps DEF Begins
  <2>2. at'[q] = at[q] /\ q \notin mixed
    BY <1>2, <2>1, Goes
  <2>3. Active = {q}
    BY <2>2 DEF LoneInv, Alone
  <2>4. at[r] \notin Step
    BY <1>2, <2>3 DEF Active
  <2>5. PICK s : Begins(r, s)
    BY <2>4, RequestSteps
  <2>6. q \in mixed'
    BY <2>3, <2>5 DEF Begins
  <2> QED BY <2>6
<1> QED BY <1>1, <1>2

\* A request that begins alone finds the tables as they are stored.
LEMMA BeginsOnStored ==
  ASSUME IInv, MixedInv, NEW r \in Request, NEW s, Begins(r, s), r \notin mixed'
  PROVE  db' = db /\ disk' = disk /\ db = disk
<1>1. Active = {}
  BY DEF Begins
<1>2. dirty = {}
  BY <1>1, DirtyIsActive
<1> QED BY <1>2 DEF Begins, connVars, MixedInv

\* A statement of a request that is alone does what it says.
LEMMA LoneStatement ==
  ASSUME IInv, LoneInv', NEW r \in Request, NEW t, NEW next, Statement(r, t, next), r \notin mixed'
  PROVE  db' = t /\ disk' = disk /\ at'[r] = next
<1>1. at'[r] # "failed"
  BY OpenSteps DEF LoneInv, Alone
<1>2. ~ Fails(r)
  BY <1>1, Goes DEF Fails
<1> QED BY <1>2, Goes DEF Statement, Flush

LEMMA OnlyOfItself ==
  ASSUME NEW i, NEW t
  PROVE  OnlyOf(i, t, t)
BY DEF OnlyOf

\* What is stored under another instance stays as it is.
LEMMA OtherContent ==
  ASSUME NEW t, TablesOK(t), NEW u, TablesOK(u), NEW i, OnlyOf(i, t, u), NEW j, j # i
  PROVE  Content(u, j) = Content(t, j)
<1>1. RoutesOf(u, j) = RoutesOf(t, j)
  <2>1. \A x : x \in u.routes /\ x.inst # i <=> x \in t.routes /\ x.inst # i
    BY DEF OnlyOf
  <2> QED BY <2>1 DEF RoutesOf
<1>2. ASSUME NEW x \in RoutesOf(t, j) PROVE OutsOf(u, {x.id}) = OutsOf(t, {x.id})
  <2>1. x \in t.routes /\ x \in u.routes /\ x.inst = j
    BY <1>1, <1>2 DEF RoutesOf
  <2>2. x.id \notin Ids(RoutesOf(t, i)) /\ x.id \notin Ids(RoutesOf(u, i))
    BY <2>1 DEF TablesOK, Numbered, RoutesOf, Ids
  <2>3. \A o : o.route = x.id => (o \in u.outs <=> o \in OutsElse(u, i))
    BY <2>2 DEF OutsElse
  <2>4. \A o : o.route = x.id => (o \in t.outs <=> o \in OutsElse(t, i))
    BY <2>2 DEF OutsElse
  <2>5. OutsElse(u, i) = OutsElse(t, i)
    BY DEF OnlyOf
  <2> QED BY <2>3, <2>4, <2>5 DEF OutsOf
<1> QED BY <1>1, <1>2 DEF Content

\* Deleting all routes of an instance whose outs are gone.
LEMMA DeletingRoutes ==
  ASSUME NEW t, NEW i, NEW R, R = {x \in t.routes : x.inst # i},
         \A o \in t.outs : o.route \notin Ids(RoutesOf(t, i)),
         NEW u, u.nodes = t.nodes, u.routes = R, u.outs = t.outs
  PROVE  OnlyOf(i, t, u) /\ RoutesOf(u, i) = {}
<1>1. RoutesOf(u, i) = {}
  BY DEF RoutesOf
<1>2. OutsElse(u, i) = t.outs
  BY <1>1 DEF OutsElse, Ids
<1>3. OutsElse(t, i) = t.outs
  BY DEF OutsElse
<1> QED BY <1>1, <1>2, <1>3 DEF OnlyOf

\* Deleting their outs.
LEMMA DeletingOuts ==
  ASSUME NEW t, NEW i, NEW u, u.nodes = t.nodes, u.routes = t.routes, u.outs = OutsElse(t, i)
  PROVE  OnlyOf(i, t, u)
<1>1. RoutesOf(u, i) = RoutesOf(t, i)
  BY DEF RoutesOf
<1>2. OutsElse(u, i) = OutsElse(t, i)
  BY <1>1 DEF OutsElse
<1> QED BY <1>2 DEF OnlyOf

LEMMA OnlyOfBoth ==
  ASSUME NEW i, NEW s, NEW t, NEW u, OnlyOf(i, s, t), OnlyOf(i, t, u)
  PROVE  OnlyOf(i, s, u)
BY DEF OnlyOf

\* The outs of the route inserted last come with the next statement.
LEMMA OutsFollow ==
  ASSUME NEW r, at[r] \in {"save.insert", "save.last"}, SaveDraft(r), pos[r] \in Nat \ {0},
         NEW u, Shaped(u), u.outs = db.outs
  PROVE  LET t == WithOuts(r, u) IN
         /\ t.nodes = u.nodes /\ t.insts = u.insts /\ t.routes = u.routes
         /\ \A x \in RoutesOf(db, id[r]) : Landings(t, x) = list[r][x.pos]
         /\ \A o \in t.outs : o \in db.outs \/ (pos[r] # 1 /\ o.route = last[r])
         /\ db.outs \subseteq t.outs
         /\ pos[r] # 1 => last[r] \in Ids(RoutesOf(db, id[r]))
<1> DEFINE O == IF pos[r] = 1 THEN {} ELSE {[route |-> last[r], landing |-> l] : l \in list[r][pos[r] - 1]}
           t == WithOuts(r, u)
<1>1. t = [nodes |-> u.nodes, insts |-> u.insts, routes |-> u.routes, outs |-> db.outs \cup O]
  BY Tables4 DEF WithOuts
<1>2. \A o \in O : pos[r] # 1 /\ o.route = last[r]
  OBVIOUS
<1>3. t.outs = db.outs \cup O /\ t.nodes = u.nodes /\ t.insts = u.insts /\ t.routes = u.routes
  BY <1>1
<1>4. at[r] # "save.commit" /\ \A x \in RoutesOf(db, id[r]) : Drafted(r, x)
  BY DEF SaveDraft
<1> HIDE DEF t
<1>5. ASSUME NEW x \in RoutesOf(db, id[r]) PROVE Landings(t, x) = list[r][x.pos]
  <2>1. Drafted(r, x)
    BY <1>4
  <2>2. CASE x.pos = pos[r] - 1
    <3>1. x.id = last[r] /\ Landings(db, x) = {} /\ pos[r] # 1
      BY <1>4, <2>1, <2>2 DEF Drafted
    <3>2. \A o \in db.outs : o.route # x.id
      BY <3>1 DEF Landings, OutsOf
    <3>3. OutsOf(t, {x.id}) = O
      BY <1>2, <1>3, <3>1, <3>2 DEF OutsOf
    <3>4. Landings(t, x) = {o.landing : o \in O}
      BY <3>3 DEF Landings
    <3>5. O = {[route |-> last[r], landing |-> l] : l \in list[r][pos[r] - 1]}
      BY <3>1
    <3> DEFINE L == list[r][pos[r] - 1]
               P == {[route |-> last[r], landing |-> l] : l \in L}
    <3>6. {o.landing : o \in P} = L
      <4> HIDE DEF L
      <4>1. \A l \in L : [route |-> last[r], landing |-> l] \in P /\ [route |-> last[r], landing |-> l].landing = l
        OBVIOUS
      <4>2. \A o \in P : o.landing \in L
        OBVIOUS
      <4> HIDE DEF P
      <4> QED BY <4>1, <4>2
    <3>7. O = P /\ list[r][x.pos] = L
      BY <2>2, <3>5
    <3> HIDE DEF L, P, O
    <3> QED BY <3>4, <3>6, <3>7
  <2>3. CASE x.pos # pos[r] - 1
    <3>1. x.id # last[r] /\ Landings(db, x) = list[r][x.pos]
      BY <1>4, <2>1, <2>3 DEF Drafted
    <3>2. OutsOf(t, {x.id}) = OutsOf(db, {x.id})
      BY <1>2, <1>3, <3>1 DEF OutsOf
    <3> QED BY <3>1, <3>2 DEF Landings
  <2> QED BY <2>2, <2>3
<1>6. pos[r] # 1 => last[r] \in Ids(RoutesOf(db, id[r]))
  <2> SUFFICES ASSUME pos[r] # 1 PROVE last[r] \in Ids(RoutesOf(db, id[r]))
    OBVIOUS
  <2>1. pos[r] - 1 \in 1..(pos[r] - 1)
    OBVIOUS
  <2>2. PICK x \in RoutesOf(db, id[r]) : x.pos = pos[r] - 1
    BY <2>1 DEF SaveDraft
  <2>3. x.id = last[r]
    BY <1>4, <2>2 DEF Drafted
  <2> QED BY <2>3 DEF Ids
<1> HIDE DEF O
<1> QED BY <1>2, <1>3, <1>5, <1>6 DEF t

LEMMA SaveKeepsDraft ==
  ASSUME IInv, TypeInv, MixedInv, LoneInv, LoneInv', NEW r \in Request, Save(r), r \notin mixed',
         at[r] \in Step => Draft(r) /\ Alone(r)
  PROVE  Draft(r)'
<1>0. ASSUME at'[r] \in SaveStep \cup {"close"}, SaveDraft(r)' PROVE Draft(r)'
  BY <1>0 DEF Draft, ScanDraft, PurgeDraft, RemoveDraft, SaveStep, PurgeStep
<1>1. Shaped(db) /\ Refers(db) /\ Numbered(db.routes) /\ \A x \in db.routes : x.id \in Nat
  BY TableTypes DEF IInv, FolderInv, TypeInv, DataOK, TablesOK
<1>2. at[r] \in SaveStep => SaveDraft(r) /\ SaveShape(r) /\ SaveWork(r)
  BY DEF Step, Draft, Alone, Shapes, TypeInv, WorkOK
<1>3. CASE BeginSave(r)
  <2>1. PICK j \in Ids(db.insts), p \in Payload :
          /\ Begins(r, "save.outs")
          /\ id' = [id EXCEPT ![r] = j]
          /\ rows' = [rows EXCEPT ![r] = RoutesOf(db, j)]
    BY <1>3 DEF BeginSave
  <2>2. db' = db /\ disk' = disk /\ db = disk
    BY <2>1, BeginsOnStored
  <2>3. at'[r] = "save.outs" /\ id'[r] = j /\ rows'[r] = RoutesOf(db, j)
    BY <2>1, Goes, RequestMappings DEF Begins, PerRequest
  <2>4. SaveDraft(r)'
    BY <2>2, <2>3, OnlyOfItself DEF SaveDraft
  <2> QED BY <1>0, <2>3, <2>4 DEF SaveStep
<1>4. CASE SaveDeletesOuts(r)
  <2> DEFINE X == db.outs \ OutsOf(db, Ids(rows[r]))
             t == [db EXCEPT !.outs = X]
  <2>1. at[r] = "save.outs" /\ UNCHANGED <<id, rows>> /\ Statement(r, t, "save.routes")
    BY <1>4 DEF SaveDeletesOuts, reqVars
  <2>2. t = [nodes |-> db.nodes, insts |-> db.insts, routes |-> db.routes, outs |-> X]
    BY <1>1, Tables4
  <2>3. rows[r] = RoutesOf(db, id[r]) /\ db.insts = disk.insts /\ OnlyOf(id[r], disk, db)
    BY <1>2, <2>1 DEF SaveDraft, SaveStep
  <2>4. X = OutsElse(db, id[r])
    BY <2>3 DEF OutsElse, OutsOf
  <2>5. t.nodes = db.nodes /\ t.insts = db.insts /\ t.routes = db.routes /\ t.outs = OutsElse(db, id[r])
    BY <2>2, <2>4
  <2> HIDE DEF t
  <2>6. db' = t /\ disk' = disk /\ at'[r] = "save.routes"
    BY <2>1, LoneStatement
  <2>7. OnlyOf(id[r], db, t) /\ RoutesOf(t, id[r]) = RoutesOf(db, id[r])
    BY <2>5, DeletingOuts DEF RoutesOf
  <2>8. SaveDraft(r)'
    BY <2>1, <2>3, <2>5, <2>6, <2>7, OnlyOfBoth DEF SaveDraft
  <2> QED BY <1>0, <2>6, <2>8 DEF SaveStep
<1>5. CASE SaveDeletesRoutes(r)
  <2> DEFINE R == {x \in db.routes : x.id \notin Ids(rows[r])}
             t == [db EXCEPT !.routes = R]
  <2>1. at[r] = "save.routes" /\ UNCHANGED <<id, list, pos, rows>> /\ Statement(r, t, "save.insert")
    BY <1>5 DEF SaveDeletesRoutes, reqVars
  <2>2. t = [nodes |-> db.nodes, insts |-> db.insts, routes |-> R, outs |-> db.outs]
    BY <1>1, Tables4
  <2>3. /\ rows[r] = RoutesOf(db, id[r]) /\ db.insts = disk.insts /\ OnlyOf(id[r], disk, db)
        /\ pos[r] = 1 /\ \A o \in db.outs : o.route \notin Ids(RoutesOf(db, id[r]))
    BY <1>2, <2>1 DEF SaveDraft, SaveStep, SaveShape
  <2>4. R = {x \in db.routes : x.inst # id[r]}
    <3>1. \A x \in db.routes : x.id \in Ids(RoutesOf(db, id[r])) <=> x.inst = id[r]
      BY <1>1 DEF Numbered, RoutesOf, Ids
    <3> QED BY <2>3, <3>1
  <2>5. t.nodes = db.nodes /\ t.insts = db.insts /\ t.routes = R /\ t.outs = db.outs
    BY <2>2
  <2> HIDE DEF t, R
  <2>6. db' = t /\ disk' = disk /\ at'[r] = "save.insert"
    BY <2>1, LoneStatement
  <2>7. OnlyOf(id[r], db, t) /\ RoutesOf(t, id[r]) = {}
    BY <2>3, <2>4, <2>5, DeletingRoutes
  <2>8. SaveDraft(r)'
    BY <2>1, <2>3, <2>5, <2>6, <2>7, OnlyOfBoth DEF SaveDraft
  <2> QED BY <1>0, <2>6, <2>8 DEF SaveStep
<1>6. CASE SaveInserts(r)
  <2> DEFINE k == pos[r]
             new == [id |-> NewId(db.routes), inst |-> id[r], pos |-> k, fallback |-> k = Len(list[r])]
             u == [db EXCEPT !.routes = @ \cup {new}]
             t == WithOuts(r, u)
             next == IF k = Len(list[r]) THEN "save.last" ELSE "save.insert"
  <2>1. /\ at[r] = "save.insert" /\ UNCHANGED <<id, list, rows>>
        /\ last' = [last EXCEPT ![r] = new.id] /\ pos' = [pos EXCEPT ![r] = k + 1]
        /\ Statement(r, t, next) \/ Fails(r)
    BY <1>6 DEF SaveInserts
  <2>2. last'[r] = new.id /\ pos'[r] = k + 1
    BY <2>1 DEF TypeInv, WorkOK
  <2>3. new.inst = id[r] /\ new.pos = k /\ new.fallback = (k = Len(list[r])) /\ new.id = NewId(db.routes)
    OBVIOUS
  <2>4. \A y \in db.routes : y.id # new.id
    <3> DEFINE n == NewId(db.routes)
    <3>1. n \in Nat /\ \A y \in db.routes : y.id < n
      BY <1>1, NewIdIsNew
    <3> HIDE DEF n
    <3>2. \A y \in db.routes : y.id # n
      BY <1>1, <3>1
    <3> QED BY <3>2 DEF n
  <2> HIDE DEF new
  <2>5. u = [nodes |-> db.nodes, insts |-> db.insts, routes |-> db.routes \cup {new}, outs |-> db.outs]
    BY <1>1, Tables4
  <2>6. Shaped(u) /\ u.nodes = db.nodes /\ u.insts = db.insts /\ u.routes = db.routes \cup {new} /\ u.outs = db.outs
    BY <2>5 DEF Shaped
  <2>7. SaveDraft(r) /\ k \in Nat \ {0} /\ k <= Len(list[r]) /\ Len(list[r]) \in Nat
    BY <1>2, <2>1, PayloadTypes DEF SaveWork, SaveStep
  <2> HIDE DEF u
  <2>71. pos'[r] - 1 = k /\ k \in 1..k /\ k \notin 1..(k - 1) /\ 1..(k - 1) \subseteq 1..k
    BY <2>2, <2>7
  <2>8. /\ t.nodes = db.nodes /\ t.insts = db.insts /\ t.routes = db.routes \cup {new}
        /\ \A x \in RoutesOf(db, id[r]) : Landings(t, x) = list[r][x.pos]
        /\ \A o \in t.outs : o \in db.outs \/ (k # 1 /\ o.route = last[r])
        /\ db.outs \subseteq t.outs
        /\ k # 1 => last[r] \in Ids(RoutesOf(db, id[r]))
    BY <2>1, <2>6, <2>7, OutsFollow
  <2> HIDE DEF t
  <2>9. db' = t /\ disk' = disk /\ at'[r] = next
    <3>1. at'[r] # "failed"
      BY OpenSteps DEF LoneInv, Alone
    <3>2. ~ Fails(r)
      BY <3>1, Goes DEF Fails
    <3> QED BY <2>1, <3>2, LoneStatement
  <2>10. \A o \in t.outs : o.route # new.id
    BY <1>1, <2>4, <2>8 DEF Refers, Ids, RoutesOf
  <2>11. RoutesOf(t, id[r]) = RoutesOf(db, id[r]) \cup {new}
    BY <2>3, <2>8 DEF RoutesOf
  <2>12. OnlyOf(id[r], db, t)
    <3>1. {x \in t.routes : x.inst # id[r]} = {x \in db.routes : x.inst # id[r]}
      BY <2>3, <2>8
    <3>2. Ids(RoutesOf(t, id[r])) = Ids(RoutesOf(db, id[r])) \cup {new.id}
      BY <2>11 DEF Ids
    <3>3. OutsElse(t, id[r]) = OutsElse(db, id[r])
      BY <2>8, <2>10, <3>2 DEF OutsElse
    <3> QED BY <2>8, <3>1, <3>3 DEF OnlyOf
  <2>13. at'[r] \in {"save.insert", "save.last"}
    BY <2>9
  <2>14. ASSUME NEW x \in RoutesOf(db', id'[r]) PROVE Drafted(r, x)'
    <3>1. CASE x = new
      <4>1. Landings(t, new) = {}
        BY <2>10 DEF Landings, OutsOf
      <4>2. Landings(db, x)' = {}
        BY <2>9, <3>1, <4>1 DEF Landings
      <4>3. x.id = last'[r] /\ x.pos = pos'[r] - 1 /\ x.pos \in 1..(pos'[r] - 1)
        BY <2>2, <2>3, <2>71, <3>1
      <4>4. x.fallback = (x.pos = Len(list'[r])) /\ at'[r] # "save.commit"
        BY <2>1, <2>3, <2>13, <3>1
      <4> QED BY <4>2, <4>3, <4>4 DEF Drafted
    <3>2. CASE x \in RoutesOf(db, id[r])
      <4>1. Drafted(r, x)
        BY <2>1, <2>7, <3>2 DEF SaveDraft
      <4>2. x.pos \in 1..(k - 1) /\ x.fallback = (x.pos = Len(list[r]))
        BY <4>1 DEF Drafted
      <4>3. x.pos \in 1..k /\ x.pos # k
        BY <2>71, <4>2
      <4>4. x.id # new.id
        BY <2>4, <3>2 DEF RoutesOf
      <4>5. Landings(t, x) = list[r][x.pos]
        BY <2>8, <3>2
      <4>6. Landings(db, x)' = list'[r][x.pos]
        BY <2>1, <2>9, <4>5 DEF Landings
      <4>7. x.id # last'[r] /\ x.pos # pos'[r] - 1 /\ x.pos \in 1..(pos'[r] - 1)
        BY <2>2, <2>71, <4>3, <4>4
      <4>8. x.fallback = (x.pos = Len(list'[r]))
        BY <2>1, <4>2
      <4> QED BY <4>6, <4>7, <4>8 DEF Drafted
    <3> QED BY <2>1, <2>9, <2>11, <2>14, <3>1, <3>2
  <2>15. ASSUME NEW m \in 1..(pos'[r] - 1) PROVE \E x \in RoutesOf(db', id'[r]) : x.pos = m
    <3>1. CASE m = k
      BY <2>1, <2>3, <2>9, <2>11, <3>1
    <3>2. CASE m # k
      <4>1. m \in 1..(k - 1)
        BY <2>2, <2>7, <3>2
      <4>2. \E x \in RoutesOf(db, id[r]) : x.pos = m
        BY <2>1, <2>7, <4>1 DEF SaveDraft
      <4> QED BY <2>1, <2>9, <2>11, <4>2
    <3> QED BY <3>1, <3>2
  <2>16. db.insts = disk.insts /\ OnlyOf(id[r], disk, db)
    BY <2>1, <2>7 DEF SaveDraft, SaveStep
  <2>17. SaveDraft(r)'
    BY <2>1, <2>8, <2>9, <2>12, <2>13, <2>14, <2>15, <2>16, OnlyOfBoth DEF SaveDraft
  <2> QED BY <1>0, <2>13, <2>17 DEF SaveStep
<1>7. CASE SaveInsertsLastOuts(r)
  <2> DEFINE t == WithOuts(r, db)
  <2>1. at[r] = "save.last" /\ UNCHANGED <<id, list, pos>> /\ Statement(r, t, "save.commit")
    BY <1>7 DEF SaveInsertsLastOuts, reqVars
  <2>2. /\ SaveDraft(r) /\ pos[r] = Len(list[r]) + 1 /\ pos[r] \in Nat \ {0, 1}
    BY <1>2, <2>1, PayloadTypes DEF SaveWork, SaveStep
  <2>3. /\ t.nodes = db.nodes /\ t.insts = db.insts /\ t.routes = db.routes
        /\ \A x \in RoutesOf(db, id[r]) : Landings(t, x) = list[r][x.pos]
        /\ \A o \in t.outs : o \in db.outs \/ o.route = last[r]
        /\ db.outs \subseteq t.outs
        /\ last[r] \in Ids(RoutesOf(db, id[r]))
    BY <1>1, <2>1, <2>2, OutsFollow
  <2> HIDE DEF t
  <2>4. db' = t /\ disk' = disk /\ at'[r] = "save.commit"
    BY <2>1, LoneStatement
  <2>5. RoutesOf(t, id[r]) = RoutesOf(db, id[r])
    BY <2>3 DEF RoutesOf
  <2>6. OnlyOf(id[r], db, t)
    <3>1. OutsElse(t, id[r]) = OutsElse(db, id[r])
      BY <2>3, <2>5 DEF OutsElse
    <3> QED BY <2>3, <3>1 DEF OnlyOf
  <2>7. ASSUME NEW x \in RoutesOf(db', id'[r]) PROVE Drafted(r, x)'
    <3>1. x \in RoutesOf(db, id[r]) /\ Landings(t, x) = list[r][x.pos]
      BY <2>1, <2>3, <2>4, <2>5, <2>7
    <3>2. Drafted(r, x)
      BY <2>1, <2>2, <3>1 DEF SaveDraft
    <3> QED BY <2>1, <2>4, <3>1, <3>2 DEF Drafted, Landings
  <2>8. \A m \in 1..(pos'[r] - 1) : \E x \in RoutesOf(db', id'[r]) : x.pos = m
    BY <2>1, <2>2, <2>4, <2>5 DEF SaveDraft
  <2>9. db.insts = disk.insts /\ OnlyOf(id[r], disk, db)
    BY <2>1, <2>2 DEF SaveDraft, SaveStep
  <2>10. SaveDraft(r)'
    BY <2>1, <2>2, <2>3, <2>4, <2>6, <2>7, <2>8, <2>9, OnlyOfBoth DEF SaveDraft
  <2> QED BY <1>0, <2>4, <2>10 DEF SaveStep
<1>8. CASE SaveCommits(r)
  <2>1. at'[r] = "close"
    BY <1>8, Goes DEF SaveCommits, Commits
  <2>2. SaveDraft(r)'
    BY <2>1 DEF SaveDraft, SaveStep
  <2> QED BY <1>0, <2>1, <2>2
<1> QED BY <1>3, <1>4, <1>5, <1>6, <1>7, <1>8 DEF Save

LEMMA PurgeKeepsDraft ==
  ASSUME IInv, TypeInv, MixedInv, LoneInv, LoneInv', NEW r \in Request, Purge(r), r \notin mixed',
         at[r] \in Step => Draft(r) /\ Alone(r)
  PROVE  Draft(r)'
<1>0. ASSUME at'[r] \in PurgeStep \cup {"close"}, PurgeDraft(r)' PROVE Draft(r)'
  BY <1>0 DEF Draft, SaveDraft, ScanDraft, RemoveDraft, SaveStep, PurgeStep
<1>1. Shaped(db)
  BY DEF IInv, FolderInv
<1>2. at[r] \in PurgeStep => PurgeDraft(r) /\ PurgeShape(r)
  BY DEF Step, Draft, Alone, Shapes
<1>3. CASE BeginPurge(r)
  <2>1. Begins(r, "purge.outs")
    BY <1>3 DEF BeginPurge
  <2>2. db' = db /\ disk' = disk /\ db = disk
    BY <2>1, BeginsOnStored
  <2>3. at'[r] = "purge.outs"
    BY <2>1, Goes DEF Begins
  <2>4. PurgeDraft(r)'
    BY <2>2, <2>3, OnlyOfItself DEF PurgeDraft
  <2> QED BY <1>0, <2>3, <2>4 DEF PurgeStep
<1>4. CASE PurgeDeletes(r)
  <2>0. id' = id
    BY <1>4 DEF PurgeDeletes, reqVars
  \* What one of the three deletions has to leave.
  <2>1. ASSUME NEW t, NEW next \in {"purge.routes", "purge.instance", "purge.commit"},
               Statement(r, t, next), OnlyOf(id[r], db, t), at[r] \in PurgeStep \ {"purge.commit"},
               t.insts = IF next = "purge.commit" THEN {x \in db.insts : x.id # id[r]} ELSE db.insts
        PROVE  Draft(r)'
    <3>1. db' = t /\ disk' = disk /\ at'[r] = next
      BY <2>1, LoneStatement
    <3>2. OnlyOf(id[r], disk, t) /\ db.insts = disk.insts
      BY <1>2, <2>1, OnlyOfBoth DEF PurgeDraft
    <3>3. PurgeDraft(r)'
      BY <2>0, <2>1, <3>1, <3>2 DEF PurgeDraft
    <3> QED BY <1>0, <2>1, <3>1, <3>3 DEF PurgeStep
  <2>2. CASE at[r] = "purge.outs"
    <3> DEFINE X == {o \in db.outs : o.route \notin Ids(RoutesOf(db, id[r]))}
               t == [db EXCEPT !.outs = X]
    <3>1. t = [nodes |-> db.nodes, insts |-> db.insts, routes |-> db.routes, outs |-> X]
      BY <1>1, Tables4
    <3>2. Statement(r, t, "purge.routes")
      BY <1>4, <2>2 DEF PurgeDeletes
    <3>3. X = OutsElse(db, id[r])
      BY DEF OutsElse
    <3>4. t.nodes = db.nodes /\ t.insts = db.insts /\ t.routes = db.routes /\ t.outs = OutsElse(db, id[r])
      BY <3>1, <3>3
    <3> HIDE DEF t
    <3>5. OnlyOf(id[r], db, t)
      BY <3>4, DeletingOuts
    <3> QED BY <2>1, <2>2, <3>2, <3>4, <3>5 DEF PurgeStep
  <2>3. CASE at[r] = "purge.routes"
    <3> DEFINE X == {x \in db.routes : x.inst # id[r]}
               t == [db EXCEPT !.routes = X]
    <3>1. t = [nodes |-> db.nodes, insts |-> db.insts, routes |-> X, outs |-> db.outs]
      BY <1>1, Tables4
    <3>2. Statement(r, t, "purge.instance")
      BY <1>4, <2>3 DEF PurgeDeletes
    <3>3. t.nodes = db.nodes /\ t.insts = db.insts /\ t.routes = X /\ t.outs = db.outs
      BY <3>1
    <3>4. \A o \in db.outs : o.route \notin Ids(RoutesOf(db, id[r]))
      BY <1>2, <2>3 DEF PurgeShape, PurgeStep
    <3> HIDE DEF t
    <3>5. OnlyOf(id[r], db, t)
      BY <3>3, <3>4, DeletingRoutes
    <3> QED BY <2>1, <2>3, <3>2, <3>3, <3>5 DEF PurgeStep
  <2>4. CASE at[r] = "purge.instance"
    <3> DEFINE X == {x \in db.insts : x.id # id[r]}
               t == [db EXCEPT !.insts = X]
    <3>1. t = [nodes |-> db.nodes, insts |-> X, routes |-> db.routes, outs |-> db.outs]
      BY <1>1, Tables4
    <3>2. Statement(r, t, "purge.commit")
      BY <1>4, <2>4 DEF PurgeDeletes
    <3>3. t.nodes = db.nodes /\ t.insts = X /\ t.routes = db.routes /\ t.outs = db.outs
      BY <3>1
    <3> HIDE DEF t
    <3>4. OnlyOf(id[r], db, t)
      BY <3>3 DEF OnlyOf, OutsElse, RoutesOf
    <3> QED BY <2>1, <2>4, <3>2, <3>3, <3>4 DEF PurgeStep
  <2> QED BY <1>4, <2>2, <2>3, <2>4 DEF PurgeDeletes
<1>5. CASE PurgeCommits(r)
  <2>1. at'[r] = "close"
    BY <1>5, Goes DEF PurgeCommits, Commits
  <2>2. PurgeDraft(r)'
    BY <2>1 DEF PurgeDraft, PurgeStep
  <2> QED BY <1>0, <2>1, <2>2
<1> QED BY <1>3, <1>4, <1>5 DEF Purge

LEMMA RemoveKeepsDraft ==
  ASSUME IInv, TypeInv, MixedInv, LoneInv, LoneInv', NEW r \in Request, Remove(r), r \notin mixed',
         at[r] \in Step => Draft(r) /\ Alone(r)
  PROVE  Draft(r)'
<1>0. ASSUME at'[r] \in RemoveStep \cup {"close"}, RemoveDraft(r)' PROVE Draft(r)'
  BY <1>0 DEF Draft, SaveDraft, ScanDraft, PurgeDraft, SaveStep, PurgeStep, RemoveStep
<1>1. Shaped(db) /\ Refers(db)
  BY DEF IInv, FolderInv
<1>2. at[r] \in RemoveStep => RemoveDraft(r) /\ RemoveShape(r)
  BY DEF Step, Draft, Alone, Shapes
<1>3. CASE BeginRemove(r)
  <2>1. Begins(r, "remove.read")
    BY <1>3 DEF BeginRemove
  <2>2. db' = db /\ disk' = disk /\ db = disk
    BY <2>1, BeginsOnStored
  <2>3. at'[r] = "remove.read"
    BY <2>1, Goes DEF Begins
  <2>4. RemoveDraft(r)'
    BY <2>2, <2>3 DEF RemoveDraft
  <2> QED BY <1>0, <2>3, <2>4 DEF RemoveStep
<1>4. CASE RemoveReads(r)
  <2>1. /\ at[r] = "remove.read" /\ UNCHANGED <<db, disk, id>>
        /\ Go(r, IF id[r] = Entry /\ db.insts # {} THEN "remove.outs" ELSE "remove.landing")
    BY <1>4 DEF RemoveReads, connVars, reqVars
  <2>2. at'[r] = IF id[r] = Entry /\ db.insts # {} THEN "remove.outs" ELSE "remove.landing"
    BY <2>1, Goes
  <2>3. db = disk
    BY <1>2, <2>1 DEF RemoveDraft, RemoveStep
  \* Without instances there are no routes, and without routes no outs.
  <2>4. db.insts = {} => db.routes = {} /\ db.outs = {}
    BY <1>1 DEF Refers, Ids
  <2>5. RemoveDraft(r)'
    BY <2>1, <2>2, <2>3, <2>4 DEF RemoveDraft
  <2> QED BY <1>0, <2>2, <2>5 DEF RemoveStep
<1>5. CASE RemoveDeletes(r)
  <2>0. id' = id
    BY <1>5 DEF RemoveDeletes, reqVars
  <2>1. CASE at[r] = "remove.outs"
    <3> DEFINE t == [db EXCEPT !.outs = {}]
    <3>1. t = [nodes |-> db.nodes, insts |-> db.insts, routes |-> db.routes, outs |-> {}]
      BY <1>1, Tables4
    <3>2. Statement(r, t, "remove.routes")
      BY <1>5, <2>1 DEF RemoveDeletes
    <3> HIDE DEF t
    <3>3. db' = t /\ disk' = disk /\ at'[r] = "remove.routes"
      BY <3>2, LoneStatement
    <3>4. db = disk
      BY <1>2, <2>1 DEF RemoveDraft, RemoveStep
    <3>5. RemoveDraft(r)'
      BY <3>1, <3>3, <3>4 DEF RemoveDraft
    <3> QED BY <1>0, <3>3, <3>5 DEF RemoveStep
  <2>2. CASE at[r] = "remove.routes"
    <3> DEFINE t == [db EXCEPT !.routes = {}]
    <3>1. t = [nodes |-> db.nodes, insts |-> db.insts, routes |-> {}, outs |-> db.outs]
      BY <1>1, Tables4
    <3>2. Statement(r, t, "remove.instances")
      BY <1>5, <2>2 DEF RemoveDeletes
    <3> HIDE DEF t
    <3>3. db' = t /\ disk' = disk /\ at'[r] = "remove.instances"
      BY <3>2, LoneStatement
    <3>4. db.nodes = disk.nodes /\ db.insts = disk.insts
      BY <1>2, <2>2 DEF RemoveDraft, RemoveStep
    <3>5. RemoveDraft(r)'
      BY <3>1, <3>3, <3>4 DEF RemoveDraft
    <3> QED BY <1>0, <3>3, <3>5 DEF RemoveStep
  <2>3. CASE at[r] = "remove.instances"
    <3> DEFINE t == [db EXCEPT !.insts = {}]
    <3>1. t = [nodes |-> db.nodes, insts |-> {}, routes |-> db.routes, outs |-> db.outs]
      BY <1>1, Tables4
    <3>2. Statement(r, t, "remove.landing")
      BY <1>5, <2>3 DEF RemoveDeletes
    <3> HIDE DEF t
    <3>3. db' = t /\ disk' = disk /\ at'[r] = "remove.landing"
      BY <3>2, LoneStatement
    <3>4. /\ db.nodes = disk.nodes /\ db.routes = {} /\ db.outs = {} /\ id[r] = Entry
      BY <1>2, <2>3 DEF RemoveDraft, RemoveStep, RemoveShape, IInv, EntryRemoves
    <3>5. RemoveDraft(r)'
      BY <2>0, <3>1, <3>3, <3>4 DEF RemoveDraft
    <3> QED BY <1>0, <3>3, <3>5 DEF RemoveStep
  <2>4. CASE at[r] = "remove.landing"
    <3> DEFINE X == {o \in db.outs : o.landing # id[r]}
               t == [db EXCEPT !.outs = X]
    <3>1. t = [nodes |-> db.nodes, insts |-> db.insts, routes |-> db.routes, outs |-> X]
      BY <1>1, Tables4
    <3>2. Statement(r, t, "remove.node")
      BY <1>5, <2>4 DEF RemoveDeletes
    <3>3. t.nodes = db.nodes /\ t.insts = db.insts /\ t.routes = db.routes /\ t.outs = X
      BY <3>1
    <3> HIDE DEF t
    <3>4. db' = t /\ disk' = disk /\ at'[r] = "remove.node"
      BY <3>2, LoneStatement
    <3>5. /\ db.nodes = disk.nodes
          /\ IF id[r] = Entry THEN db.insts = {} /\ db.routes = {} /\ db.outs = {}
             ELSE db.insts = disk.insts /\ db.routes = disk.routes /\ db.outs = disk.outs
      BY <1>2, <2>4 DEF RemoveDraft, RemoveStep
    <3>6. IF id[r] = Entry THEN X = {} ELSE X = {o \in disk.outs : o.landing # id[r]}
      BY <3>5
    <3>7. RemoveDraft(r)'
      BY <2>0, <3>3, <3>4, <3>5, <3>6 DEF RemoveDraft
    <3> QED BY <1>0, <3>4, <3>7 DEF RemoveStep
  <2>5. CASE at[r] = "remove.node"
    <3> DEFINE X == db.nodes \ {id[r]}
               t == [db EXCEPT !.nodes = X]
    <3>1. t = [nodes |-> X, insts |-> db.insts, routes |-> db.routes, outs |-> db.outs]
      BY <1>1, Tables4
    <3>2. Statement(r, t, "remove.commit")
      BY <1>5, <2>5 DEF RemoveDeletes
    <3>3. t.nodes = X /\ t.insts = db.insts /\ t.routes = db.routes /\ t.outs = db.outs
      BY <3>1
    <3> HIDE DEF t
    <3>4. db' = t /\ disk' = disk /\ at'[r] = "remove.commit"
      BY <3>2, LoneStatement
    <3>5. /\ db.nodes = disk.nodes
          /\ IF id[r] = Entry THEN db.insts = {} /\ db.routes = {} /\ db.outs = {}
             ELSE /\ db.insts = disk.insts /\ db.routes = disk.routes
                  /\ db.outs = {o \in disk.outs : o.landing # id[r]}
      BY <1>2, <2>5 DEF RemoveDraft, RemoveStep
    <3>6. db.outs = {o \in disk.outs : id[r] # Entry /\ o.landing # id[r]}
      BY <3>5
    <3>7. Removed(r, disk, t)
      BY <3>3, <3>5, <3>6 DEF Removed
    <3>8. Removed(r, disk, db)'
      BY <2>0, <3>4, <3>7 DEF Removed
    <3>9. RemoveDraft(r)'
      BY <3>4, <3>8 DEF RemoveDraft
    <3> QED BY <1>0, <3>4, <3>9 DEF RemoveStep
  <2> QED BY <1>5, <2>1, <2>2, <2>3, <2>4, <2>5 DEF RemoveDeletes
<1>6. CASE RemoveCommits(r)
  <2>1. at'[r] = "close"
    BY <1>6, Goes DEF RemoveCommits, Commits
  <2>2. RemoveDraft(r)'
    BY <2>1 DEF RemoveDraft
  <2> QED BY <1>0, <2>1, <2>2
<1> QED BY <1>3, <1>4, <1>5, <1>6 DEF Remove

\* What the scan's UPDATEs write, row by row.
LEMMA EnabledRows ==
  ASSUME NEW t, NEW I, NEW b, Shaped(t)
  PROVE  LET u == Enabled(t, I, b) IN
         /\ SameButInstances(t, u)
         /\ \A y \in u.insts : \E z \in t.insts :
              (z.id \in I /\ y = Row(z.id, z.folder, b)) \/ (z.id \notin I /\ y = z)
         /\ \A z \in t.insts :
              (z.id \in I /\ Row(z.id, z.folder, b) \in u.insts) \/ (z.id \notin I /\ z \in u.insts)
<1> DEFINE row(y) == IF y.id \in I THEN Row(y.id, y.folder, b) ELSE y
           X == {row(y) : y \in t.insts}
           u == Enabled(t, I, b)
<1>1. u = [nodes |-> t.nodes, insts |-> X, routes |-> t.routes, outs |-> t.outs]
  BY Tables4 DEF Enabled
<1>2. \A y \in X : \E z \in t.insts : (z.id \in I /\ y = Row(z.id, z.folder, b)) \/ (z.id \notin I /\ y = z)
  OBVIOUS
<1>3. \A z \in t.insts : row(z) \in X
  OBVIOUS
<1>4. \A z \in t.insts : (z.id \in I /\ Row(z.id, z.folder, b) \in X) \/ (z.id \notin I /\ z \in X)
  BY <1>3
<1> HIDE DEF X, row
<1>5. u.insts = X /\ SameButInstances(t, u)
  BY <1>1 DEF SameButInstances
<1> QED BY <1>2, <1>4, <1>5

LEMMA ScanKeepsDraft ==
  ASSUME IInv, TypeInv, MixedInv, LoneInv, LoneInv', NEW r \in Request, Scan(r), r \notin mixed',
         at[r] \in Step => Draft(r) /\ Alone(r)
  PROVE  Draft(r)'
<1>0. ASSUME at'[r] \in ScanStep \cup {"close"}, ScanDraft(r)' PROVE Draft(r)'
  BY <1>0 DEF Draft, SaveDraft, PurgeDraft, RemoveDraft, SaveStep, PurgeStep, ScanStep
<1>1. /\ Shaped(db) /\ PerRequest(rows) /\ PerRequest(left) /\ PerRequest(seen) /\ PerRequest(last)
      /\ \A x, y \in db.insts : x.id = y.id => x = y
  BY DEF IInv, FolderInv, TypeInv, DataOK, WorkOK, TablesOK, Numbered, PerRequest
<1>2. at[r] \in ScanStep => ScanDraft(r) /\ ScanShape(r)
  BY DEF Step, Draft, Alone, Shapes
<1>3. at'[r] # "failed"
  BY OpenSteps DEF LoneInv, Alone
<1>4. ~ Fails(r)
  BY <1>3, Goes DEF Fails
<1>5. at[r] \in {"scan.folder", "scan.commit", "scan.refresh", "scan.gone"} => Folded(r)
  BY <1>2 DEF ScanDraft, ScanStep, Folded
<1>6. CASE BeginScan(r)
  <2>1. PICK F \in SUBSET Folder :
          seen' = [seen EXCEPT ![r] = F] /\ left' = [left EXCEPT ![r] = F]
    BY <1>6 DEF BeginScan
  <2>2. Begins(r, "scan.read")
    BY <1>6 DEF BeginScan
  <2>3. db' = db /\ disk' = disk /\ db = disk
    BY <2>2, BeginsOnStored
  <2>4. at'[r] = "scan.read" /\ left'[r] = seen'[r]
    BY <1>1, <2>1, <2>2, Goes DEF Begins, PerRequest
  <2>5. ScanDraft(r)'
    BY <2>3, <2>4 DEF ScanDraft
  <2> QED BY <1>0, <2>4, <2>5 DEF ScanStep
<1>7. CASE ScanError(r)
  <2>1. at'[r] = "scan.error"
    BY <1>7, Goes DEF ScanError
  <2>2. ScanDraft(r)'
    BY <2>1 DEF ScanDraft
  <2> QED BY <1>0, <2>1, <2>2 DEF ScanStep
\* A step that leaves what is visible to where the next folder is looked for.
<1>8. ASSUME at'[r] = AfterFolder(r), UNCHANGED <<db, disk, seen, left>>, db = disk, Folded(r)'
      PROVE  Draft(r)'
  <2>1. at'[r] \in {"scan.folder", "scan.gone"} /\ (at'[r] = "scan.gone" => left'[r] = {})
    BY <1>8 DEF AfterFolder
  <2>2. ScanDraft(r)'
    BY <1>8, <2>1 DEF ScanDraft, Folded
  <2> QED BY <1>0, <2>1, <2>2 DEF ScanStep
<1>9. CASE ScanReads(r)
  <2>1. /\ at[r] = "scan.read" /\ rows' = [rows EXCEPT ![r] = db.insts] /\ Go(r, AfterFolder(r))
        /\ UNCHANGED <<db, disk, seen, left>>
    BY <1>9 DEF ScanReads, connVars
  <2>2. at'[r] = AfterFolder(r) /\ rows'[r] = db.insts
    BY <1>1, <2>1, Goes DEF PerRequest
  <2>3. db = disk /\ left[r] = seen[r]
    BY <1>2, <2>1 DEF ScanDraft, ScanStep
  <2>4. Folded(r)'
    BY <2>1, <2>2, <2>3 DEF Folded, Handled
  <2> QED BY <1>8, <2>1, <2>2, <2>3, <2>4
<1>10. CASE ScanInserts(r)
  <2> DEFINE i == NewId(db.insts)
  <2>1. PICK f \in left[r] :
          /\ Statement(r, [db EXCEPT !.insts = @ \cup {Row(i, f, TRUE)}], "scan.commit")
          /\ Takes(r, f, i)
    BY <1>10 DEF ScanInserts
  <2> HIDE DEF i
  <2> DEFINE new == Row(i, f, TRUE)
             X == db.insts \cup {new}
             t == [db EXCEPT !.insts = X]
  <2>2. t = [nodes |-> db.nodes, insts |-> X, routes |-> db.routes, outs |-> db.outs]
    BY <1>1, Tables4
  <2>3. Statement(r, t, "scan.commit")
    BY <2>1
  <2>4. new.id = i /\ new.folder = f /\ new.enabled
    BY DEF Row
  <2>5. t.insts = X /\ SameButInstances(db, t)
    BY <2>2 DEF SameButInstances
  <2> HIDE DEF t, new
  <2>6. db' = t /\ disk' = disk /\ at'[r] = "scan.commit"
    BY <2>3, LoneStatement
  <2>7. at[r] = "scan.folder" /\ left'[r] = left[r] \ {f} /\ last'[r] = i /\ UNCHANGED <<seen, rows>>
    BY <1>1, <1>10, <2>1 DEF ScanInserts, Takes, PerRequest
  <2>8. Folded(r) /\ db = disk
    BY <1>2, <1>5, <2>7 DEF ScanDraft, ScanStep
  <2>9. f \in seen[r] \ left'[r] /\ Handled(r)' = Handled(r) \cup {f} /\ left'[r] \subseteq seen'[r]
    BY <2>1, <2>7, <2>8 DEF Folded, Handled
  <2>10. Folded(r)'
    BY <2>4, <2>5, <2>6, <2>7, <2>8, <2>9 DEF Folded
  <2>11. Scanned(r, disk, db)'
    <3>1. {x \in X : x.id # i} = {x \in db.insts : x.id # i}
      BY <2>4
    <3>2. new \in X /\ new.folder \in seen'[r] \ left'[r]
      BY <2>4, <2>7, <2>9
    <3> QED BY <2>4, <2>5, <2>6, <2>7, <2>8, <3>1, <3>2 DEF Scanned
  <2>12. ScanDraft(r)'
    BY <2>6, <2>10, <2>11 DEF ScanDraft, Folded
  <2> QED BY <1>0, <2>6, <2>12 DEF ScanStep
<1>11. CASE ScanUpdates(r)
  <2>1. PICK x \in rows[r] :
          /\ x.folder \in left[r]
          /\ Flush(r, [db EXCEPT !.insts =
               {IF y.id = x.id THEN Row(y.id, y.folder, TRUE) ELSE y : y \in @}])
          /\ Go(r, "scan.commit")
          /\ Takes(r, x.folder, x.id)
    BY <1>4, <1>11 DEF ScanUpdates
  <2> DEFINE u == Enabled(db, {x.id}, TRUE)
             f == x.folder
  <2>2. u = [db EXCEPT !.insts = {IF y.id = x.id THEN Row(y.id, y.folder, TRUE) ELSE y : y \in @}]
    BY DEF Enabled
  <2> DEFINE I == {x.id}
  <2>3. /\ SameButInstances(db, u)
        /\ \A y \in u.insts : \E z \in db.insts :
             (z.id \in I /\ y = Row(z.id, z.folder, TRUE)) \/ (z.id \notin I /\ y = z)
        /\ \A z \in db.insts :
             (z.id \in I /\ Row(z.id, z.folder, TRUE) \in u.insts) \/ (z.id \notin I /\ z \in u.insts)
    BY <1>1, EnabledRows
  <2>30. x.id \in I /\ \A z \in db.insts : z.id \in I <=> z.id = x.id
    OBVIOUS
  <2> HIDE DEF u, I
  <2>4. db' = u /\ disk' = disk /\ at'[r] = "scan.commit"
    BY <2>1, <2>2, Goes DEF Flush
  <2>5. at[r] = "scan.folder" /\ left'[r] = left[r] \ {f} /\ last'[r] = x.id /\ UNCHANGED <<seen, rows>>
    BY <1>1, <1>11, <2>1 DEF ScanUpdates, Takes, PerRequest
  <2>6. Folded(r) /\ db = disk
    BY <1>2, <1>5, <2>5 DEF ScanDraft, ScanStep
  <2>7. f \in seen[r] \ left'[r] /\ Handled(r)' = Handled(r) \cup {f} /\ left'[r] \subseteq seen'[r]
    BY <2>1, <2>5, <2>6 DEF Folded, Handled
  <2>8. PICK w \in db.insts : w.id = x.id /\ w.folder = f
    BY <2>6 DEF Folded
  <2>9. \A z \in db.insts : z.id = x.id => z = w
    BY <1>1, <2>8
  <2>10. \A a, b : Row(a, b, TRUE).id = a /\ Row(a, b, TRUE).folder = b /\ Row(a, b, TRUE).enabled
    BY DEF Row
  <2> DEFINE new == Row(x.id, f, TRUE)
  <2>11. new \in u.insts /\ new.id = x.id /\ new.folder = f /\ new.enabled
    <3>1. w.id \in I /\ Row(w.id, w.folder, TRUE) = new
      BY <2>8, <2>30
    <3>2. new \in u.insts
      BY <2>3, <3>1
    <3> QED BY <2>10, <3>2
  <2>12. \A y \in u.insts : y = new \/ (y \in db.insts /\ y.id # x.id)
    <3> TAKE y \in u.insts
    <3>1. PICK z \in db.insts :
            (z.id \in I /\ y = Row(z.id, z.folder, TRUE)) \/ (z.id \notin I /\ y = z)
      BY <2>3
    <3>2. CASE z.id \in I
      BY <2>8, <2>9, <2>30, <3>1, <3>2
    <3>3. CASE z.id \notin I
      BY <2>30, <3>1, <3>3
    <3> QED BY <3>2, <3>3
  <2>13. \A z \in db.insts : z = w \/ (z \in u.insts /\ z.id # x.id)
    BY <2>3, <2>9, <2>30
  <2> HIDE DEF new
  <2>14. Folded(r)'
    <3>1. ASSUME NEW g \in Handled(r)' PROVE \E y \in u.insts : y.folder = g /\ y.enabled
      <4>1. CASE g = f
        BY <2>11, <4>1
      <4>2. CASE g # f
        <5>1. PICK z \in db.insts : z.folder = g /\ z.enabled
          BY <2>6, <2>7, <3>1, <4>2 DEF Folded
        <5> QED BY <2>8, <2>13, <4>2, <5>1
      <4> QED BY <4>1, <4>2
    <3>2. ASSUME NEW y \in u.insts PROVE y.folder \in Handled(r)' \/ y \in rows[r]
      BY <2>6, <2>7, <2>11, <2>12 DEF Folded
    <3>3. ASSUME NEW z \in rows[r] PROVE \E y \in u.insts : y.id = z.id /\ y.folder = z.folder
      <4>1. PICK y \in db.insts : y.id = z.id /\ y.folder = z.folder
        BY <2>6 DEF Folded
      <4> QED BY <2>8, <2>11, <2>13, <4>1
    <3> QED BY <2>4, <2>5, <2>7, <3>1, <3>2, <3>3 DEF Folded
  <2>15. Scanned(r, disk, db)'
    <3>1. {y \in u.insts : y.id # x.id} = {y \in db.insts : y.id # x.id}
      BY <2>8, <2>11, <2>12, <2>13
    <3>2. new.folder \in seen'[r] \ left'[r]
      BY <2>5, <2>7, <2>11
    <3> QED BY <2>3, <2>4, <2>5, <2>6, <2>11, <3>1, <3>2 DEF Scanned
  <2>16. ScanDraft(r)'
    BY <2>4, <2>14, <2>15 DEF ScanDraft, Folded
  <2> QED BY <1>0, <2>4, <2>16 DEF ScanStep
<1>12. CASE ScanCommits(r)
  <2>1. /\ at[r] = "scan.commit" /\ Go(r, "scan.refresh") /\ db' = db /\ disk' = db
        /\ UNCHANGED <<seen, left, rows>>
    BY <1>12 DEF ScanCommits, Commits, CommitAll, reqVars
  <2>2. at'[r] = "scan.refresh"
    BY <2>1, Goes
  <2>3. Folded(r)'
    BY <1>5, <2>1 DEF Folded, Handled
  <2>4. ScanDraft(r)'
    BY <2>1, <2>2, <2>3 DEF ScanDraft, Folded
  <2> QED BY <1>0, <2>2, <2>4 DEF ScanStep
<1>13. CASE ScanRefreshes(r)
  <2>1. /\ at[r] = "scan.refresh" /\ UNCHANGED <<db, disk, seen, left, rows>>
        /\ Go(r, IF last[r] \in Ids(db.insts) THEN AfterFolder(r) ELSE "failed")
    BY <1>13 DEF ScanRefreshes, connVars, reqVars
  <2>2. at'[r] = AfterFolder(r)
    BY <1>3, <2>1, Goes
  <2>3. Folded(r)' /\ db = disk
    BY <1>2, <1>5, <2>1 DEF Folded, Handled, ScanDraft, ScanStep
  <2> QED BY <1>8, <2>1, <2>2, <2>3
<1>14. CASE ScanFindsGone(r)
  <2> DEFINE gone    == {x \in rows[r] : x.folder \notin seen[r]}
             enabled == {x \in (IF seen[r] = {} THEN gone ELSE db.insts) :
                           x.enabled /\ x.id \in Ids(gone)}
  <2>1. /\ at[r] = "scan.gone" /\ UNCHANGED <<db, disk, seen, left>>
        /\ \/ rows' = [rows EXCEPT ![r] = enabled] /\ Go(r, "scan.disable")
           \/ Go(r, "failed")
    BY <1>14 DEF ScanFindsGone, connVars
  <2>2. rows'[r] = enabled /\ at'[r] = "scan.disable"
    BY <1>1, <1>3, <2>1, Goes DEF PerRequest
  <2>3. Folded(r) /\ db = disk /\ Handled(r) = seen[r]
    BY <1>2, <1>5, <2>1 DEF ScanDraft, ScanStep, Handled
  <2>4. \A f \in seen[r] : \E x \in db.insts : x.folder = f /\ x.enabled
    BY <2>3 DEF Folded
  <2>5. ASSUME NEW x \in db.insts, x.folder \in seen[r], x.id \in Ids(enabled) PROVE FALSE
    <3>1. PICK g \in rows[r] : g.folder \notin seen[r] /\ g.id = x.id
      BY <2>5 DEF Ids
    <3>2. PICK y \in db.insts : y.id = g.id /\ y.folder = g.folder
      BY <2>3 DEF Folded
    <3> QED BY <1>1, <2>5, <3>1, <3>2
  <2>6. ASSUME NEW x \in db.insts, x.folder \notin seen[r], x.enabled PROVE x.id \in Ids(enabled)
    <3>1. x \in gone
      BY <2>3, <2>6 DEF Folded
    <3>2. x \in enabled
      BY <2>6, <3>1 DEF Ids
    <3> QED BY <3>2 DEF Ids
  <2> HIDE DEF enabled
  <2>7. ScanDraft(r)'
    BY <2>1, <2>2, <2>3, <2>4, <2>5, <2>6 DEF ScanDraft
  <2> QED BY <1>0, <2>2, <2>7 DEF ScanStep
<1>15. CASE ScanDisables(r)
  <2> DEFINE I == Ids(rows[r])
             u == Enabled(db, I, FALSE)
  <2>1. /\ at[r] = "scan.disable" /\ Flush(r, u) /\ Go(r, "scan.end") /\ UNCHANGED <<seen, rows>>
    BY <1>4, <1>15 DEF ScanDisables, Enabled, reqVars
  <2>2. /\ SameButInstances(db, u)
        /\ \A y \in u.insts : \E z \in db.insts :
             (z.id \in I /\ y = Row(z.id, z.folder, FALSE)) \/ (z.id \notin I /\ y = z)
        /\ \A z \in db.insts : (z.id \in I /\ Row(z.id, z.folder, FALSE) \in u.insts) \/ (z.id \notin I /\ z \in u.insts)
    BY <1>1, EnabledRows
  <2>3. Ids(u.insts) = Ids(db.insts)
    BY <1>1, EnabledKeepsIds
  <2> HIDE DEF u
  <2>4. db' = u /\ disk' = disk /\ at'[r] = "scan.end"
    BY <2>1, Goes DEF Flush
  <2>5. /\ db = disk
        /\ \A f \in seen[r] : \E x \in db.insts : x.folder = f /\ x.enabled
        /\ \A x \in db.insts : x.folder \in seen[r] => x.id \notin I
        /\ \A x \in db.insts : x.folder \notin seen[r] /\ x.enabled => x.id \in I
    BY <1>2, <2>1 DEF ScanDraft, ScanStep
  <2> HIDE DEF I
  <2>6. \A a, b : ~ Row(a, b, FALSE).enabled
    BY DEF Row
  <2>7. ASSUME NEW y \in u.insts, y.enabled PROVE y.folder \in seen[r]
    <3>1. PICK z \in db.insts : (z.id \in I /\ y = Row(z.id, z.folder, FALSE)) \/ (z.id \notin I /\ y = z)
      BY <2>2
    <3>2. z.id \notin I /\ y = z
      BY <2>6, <2>7, <3>1, Zenon
    <3>3. z.enabled
      BY <2>7, <3>2, Zenon
    <3> QED BY <2>5, <3>2, <3>3, Zenon
  <2>8. \A f \in seen[r] : \E y \in u.insts : y.enabled /\ y.folder = f
    <3> TAKE f \in seen[r]
    <3>1. PICK x \in db.insts : x.folder = f /\ x.enabled
      BY <2>5
    <3>2. x \in u.insts
      BY <2>2, <2>5, <3>1
    <3> WITNESS x \in u.insts
    <3> QED BY <3>1
  <2>9. {x.folder : x \in {y \in u.insts : y.enabled}} = seen[r]
    BY <2>7, <2>8
  <2>10. ScannedAll(r, disk, db)'
    BY <2>1, <2>2, <2>3, <2>4, <2>5, <2>9 DEF ScannedAll
  <2>11. ScanDraft(r)'
    BY <2>4, <2>10 DEF ScanDraft
  <2> QED BY <1>0, <2>4, <2>11 DEF ScanStep
<1>16. CASE ScanEnds(r)
  <2>1. Go(r, "scan.reconcile") /\ db' = db /\ disk' = db
    BY <1>16 DEF ScanEnds, Commits, CommitAll
  <2>2. at'[r] = "scan.reconcile"
    BY <2>1, Goes
  <2>3. ScanDraft(r)'
    BY <2>1, <2>2 DEF ScanDraft
  <2> QED BY <1>0, <2>2, <2>3 DEF ScanStep
<1>17. CASE ScanReturns(r) \/ ScanUnwinds(r)
  <2>1. at'[r] = "close"
    BY <1>17, Goes DEF ScanReturns, ScanUnwinds
  <2>2. ScanDraft(r)'
    BY <2>1 DEF ScanDraft
  <2> QED BY <1>0, <2>1, <2>2
<1> QED
  BY <1>6, <1>7, <1>9, <1>10, <1>11, <1>12, <1>13, <1>14, <1>15, <1>16, <1>17 DEF Scan

LEMMA DraftInit ==
  ASSUME Init
  PROVE  DraftInv
BY OpenSteps DEF Init, DraftInv

LEMMA DraftNext ==
  ASSUME IInv, TypeInv, MixedInv, LoneInv, LoneInv', DraftInv, [Next]_vars
  PROVE  DraftInv'
<1>1. ASSUME NEW r \in Request, Save(r) \/ Scan(r) \/ Purge(r) \/ Remove(r) \/ Close(r)
      PROVE  DraftInv'
  <2>1. ASSUME r \notin mixed', at'[r] \in Step PROVE Draft(r)'
    <3>1. mixed \subseteq mixed'
      BY <1>1, RequestSteps DEF Begins
    <3>2. at[r] \in Step => Draft(r) /\ Alone(r)
      BY <2>1, <3>1 DEF DraftInv, LoneInv
    <3>3. ~ Close(r)
      <4>1. "done" \notin Step
        BY DEF Step, SaveStep, ScanStep, PurgeStep, RemoveStep
      <4> QED BY <2>1, <4>1, Goes DEF Close
    <3> QED
      BY <1>1, <2>1, <3>2, <3>3, SaveKeepsDraft, ScanKeepsDraft, PurgeKeepsDraft, RemoveKeepsDraft
  <2> QED BY <1>1, <2>1, OnlyItsDraft
<1>2. CASE OtherSessionEnds
  <2>1. mixed' = mixed \cup Active /\ at' = at
    BY <1>2 DEF OtherSessionEnds
  <2>2. \A q \in Request \ mixed' : at'[q] \notin Step
    BY <2>1 DEF Active
  <2> QED BY <2>2 DEF DraftInv
<1>3. CASE PanelCrash
  <2>1. at' = [r \in Request |-> IF r \in Active THEN "done" ELSE at[r]]
    BY <1>3 DEF PanelCrash
  <2>2. "done" \notin Step
    BY DEF Step, SaveStep, ScanStep, PurgeStep, RemoveStep
  <2>3. \A q \in Request : at'[q] \notin Step
    BY <2>1, <2>2 DEF Active
  <2> QED BY <2>3 DEF DraftInv
<1>4. CASE UNCHANGED vars
  <2>1. UNCHANGED <<db, disk, at, id, list, pos, seen, left, rows, last, mixed>>
    BY <1>4 DEF vars, connVars, reqVars
  <2>2. ASSUME NEW q \in Request, Draft(q) PROVE Draft(q)'
    <3>1. SaveDraft(q)'
      BY <2>1, <2>2 DEF Draft, SaveDraft, Drafted, Landings
    <3>2. ScanDraft(q)'
      BY <2>1, <2>2 DEF Draft, ScanDraft, Folded, Handled, Scanned, ScannedAll
    <3>3. PurgeDraft(q)' /\ RemoveDraft(q)'
      BY <2>1, <2>2 DEF Draft, PurgeDraft, RemoveDraft, Removed
    <3> QED BY <3>1, <3>2, <3>3 DEF Draft
  <2> QED BY <2>1, <2>2 DEF DraftInv
<1> QED BY <1>1, <1>2, <1>3, <1>4 DEF Next

\* A save whose draft is complete has written what the payload asks for.
LEMMA DraftIsAsked ==
  ASSUME NEW r, at[r] = "save.commit", SaveDraft(r), Len(list[r]) \in Nat
  PROVE  Content(db, id[r]) = Asked(list[r])
<1> DEFINE L == Len(list[r])
           entry(x) == [pos |-> x.pos, fallback |-> x.fallback, outs |-> {o.landing : o \in OutsOf(db, {x.id})}]
           item(k) == [pos |-> k, fallback |-> k = L, outs |-> list[r][k]]
<1>1. pos[r] - 1 = L
  BY DEF SaveDraft
<1>2. ASSUME NEW x \in RoutesOf(db, id[r]) PROVE x.pos \in 1..L /\ entry(x) = item(x.pos)
  <2>1. Drafted(r, x)
    BY DEF SaveDraft
  <2>2. x.pos \in 1..L /\ x.fallback = (x.pos = L)
    BY <1>1, <2>1 DEF Drafted
  <2>3. {o.landing : o \in OutsOf(db, {x.id})} = list[r][x.pos]
    BY <2>1 DEF Drafted, Landings
  <2> QED BY <2>2, <2>3
<1>3. ASSUME NEW k \in 1..L PROVE \E x \in RoutesOf(db, id[r]) : entry(x) = item(k)
  <2>1. PICK x \in RoutesOf(db, id[r]) : x.pos = k
    BY <1>1 DEF SaveDraft
  <2> QED BY <1>2, <2>1
<1>4. Content(db, id[r]) = {entry(x) : x \in RoutesOf(db, id[r])}
  BY DEF Content
<1>5. Asked(list[r]) = {item(k) : k \in 1..L}
  BY DEF Asked
<1> HIDE DEF entry, item, L
<1> QED BY <1>2, <1>3, <1>4, <1>5

(***************************************************************************)
(* What a request that has the database to itself makes durable is what    *)
(* was asked for, whole, and nothing else: the payload of a save, the      *)
(* folders a scan was told of, the instance of a purge with its routes,    *)
(* the node of a deletion with all that refers to it.                      *)
(***************************************************************************)
THEOREM LoneCommitsWhole == Spec => LoneCommitsAreWhole
<1>1. Init => MixedInv /\ LoneInv /\ DraftInv
  BY FallbackInit, DraftInit, OpenSteps DEF Init, LoneInv, LoneMappings, PerRequest
<1>2. IInv /\ MixedInv /\ LoneInv /\ [Next]_vars => MixedInv' /\ LoneInv'
  BY MixedNext, LoneNext
<1>3. IInv /\ TypeInv /\ MixedInv /\ LoneInv /\ LoneInv' /\ DraftInv /\ [Next]_vars => DraftInv'
  BY DraftNext
<1>4. IInv /\ TypeInv /\ LoneInv /\ DraftInv => \A r \in Request \ mixed : LoneCommits(r)
  <2> SUFFICES ASSUME IInv, TypeInv, LoneInv, DraftInv, NEW r \in Request \ mixed
               PROVE  LoneCommits(r)
    OBVIOUS
  <2>1. at[r] \in Step => Draft(r) /\ Alone(r)
    BY DEF DraftInv, LoneInv
  <2>2. TablesOK(db) /\ TablesOK(disk)
    BY DEF TypeInv, DataOK
  <2>3. ASSUME SaveCommits(r) PROVE Saved(r, disk, disk')
    <3>1. disk' = db /\ at[r] = "save.commit"
      BY <2>3 DEF SaveCommits, Commits, CommitAll
    <3>2. SaveDraft(r) /\ SaveWork(r)
      BY <2>1, <3>1 DEF Draft, Step, SaveStep, TypeInv, WorkOK
    <3>3. Content(db, id[r]) = Asked(list[r])
      BY <3>1, <3>2, PayloadTypes, DraftIsAsked DEF SaveWork, SaveStep
    <3>4. db.insts = disk.insts /\ OnlyOf(id[r], disk, db)
      BY <3>1, <3>2 DEF SaveDraft, SaveStep
    <3>5. \A i \in Ids(disk.insts) \ {id[r]} : Content(db, i) = Content(disk, i)
      BY <2>2, <3>4, OtherContent
    <3> QED BY <3>1, <3>3, <3>4, <3>5 DEF Saved, OnlyOf
  <2>4. ASSUME ScanCommits(r) PROVE Scanned(r, disk, disk')
    <3>1. disk' = db /\ at[r] = "scan.commit"
      BY <2>4 DEF ScanCommits, Commits, CommitAll
    <3> QED BY <2>1, <3>1 DEF Draft, ScanDraft, Step, ScanStep
  <2>5. ASSUME ScanEnds(r) PROVE ScannedAll(r, disk, disk')
    <3>1. disk' = db /\ at[r] = "scan.end"
      BY <2>5 DEF ScanEnds, Commits, CommitAll
    <3> QED BY <2>1, <3>1 DEF Draft, ScanDraft, Step, ScanStep
  <2>6. ASSUME PurgeCommits(r) PROVE Purged(r, disk, disk')
    <3>1. disk' = db /\ at[r] = "purge.commit"
      BY <2>6 DEF PurgeCommits, Commits, CommitAll
    <3>2. OnlyOf(id[r], disk, db) /\ db.insts = {x \in disk.insts : x.id # id[r]}
      BY <2>1, <3>1 DEF Draft, PurgeDraft, Step, PurgeStep
    <3>3. id[r] \notin Ids(db.insts)
      BY <3>2 DEF Ids
    <3>4. \A i \in Ids(db.insts) : Content(db, i) = Content(disk, i)
      BY <2>2, <3>2, <3>3, OtherContent
    <3> QED BY <3>1, <3>2, <3>4 DEF Purged, OnlyOf
  <2>7. ASSUME RemoveCommits(r) PROVE Removed(r, disk, disk')
    <3>1. disk' = db /\ at[r] = "remove.commit"
      BY <2>7 DEF RemoveCommits, Commits, CommitAll
    <3> QED BY <2>1, <3>1 DEF Draft, RemoveDraft, Step, RemoveStep
  <2> QED BY <2>3, <2>4, <2>5, <2>6, <2>7 DEF LoneCommits
<1>5. Spec => [](MixedInv /\ LoneInv)
  BY <1>1, <1>2, Invariance, PTL DEF Spec
<1>6. Spec => []DraftInv
  BY <1>1, <1>3, <1>5, Invariance, TypesInvariant, PTL DEF Spec
<1> QED BY <1>4, <1>5, <1>6, Invariance, TypesInvariant, PTL DEF Spec, LoneCommitsAreWhole

=============================================================================
