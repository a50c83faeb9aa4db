----------------------------- MODULE SogaStore -----------------------------
(***************************************************************************)
(* The three Soga tables under concurrent requests: POST scan, PUT routes, *)
(* DELETE instance (backend/api/soga.py) and DELETE node with its cascade  *)
(* (backend/api/nodes.py), for one entry node and the landing nodes.       *)
(*                                                                         *)
(* Requests run in worker threads; one action is one SQL statement or the  *)
(* reads between two writes of a request.  Names, probes, sort orders and  *)
(* rules are left out; a route has a position, whether it is the fallback, *)
(* and the set of landing nodes it goes out through.                       *)
(***************************************************************************)
EXTENDS SharedDatabase, Naturals, Sequences, FiniteSets, FiniteSetsExt

CONSTANTS
  Request,  \* HTTP requests, each used at most once
  Entry,    \* the entry node
  Landing,  \* landing nodes
  Folder,   \* names of directories /etc/soga/<folder>/
  Payload,  \* route lists a client sends: for each route its landing nodes
  None

ASSUME StoreAssumption ==
  /\ Entry \notin Landing
  /\ None \notin Request
  /\ Payload \subseteq Seq((SUBSET Landing) \ {{}}) \ {<<>>}

VARIABLES
  at,     \* the next step of a request
  id,     \* the instance or node the request names
  list,   \* the payload of a PUT routes
  pos,    \* the position of the route it inserts next
  seen,   \* the folders a scan was told of; a stat that fails hides one
  left,   \* those it has not handled yet
  rows,   \* the rows a request has read: old routes, existing instances
  last,   \* the row it inserted or updated last
  lock,   \* the scan that holds the node's scan lock
  mixed   \* the requests that did not have the database to themselves

reqVars == <<id, list, pos, seen, left, rows, last>>
vars    == <<connVars, at, reqVars, lock, mixed>>

SaveStep   == {"save.outs", "save.routes", "save.insert", "save.last", "save.commit"}
ScanStep   == {"scan.read", "scan.folder", "scan.commit", "scan.refresh",
               "scan.gone", "scan.disable", "scan.end", "scan.reconcile", "scan.error"}
PurgeStep  == {"purge.outs", "purge.routes", "purge.instance", "purge.commit"}
RemoveStep == {"remove.read", "remove.outs", "remove.routes", "remove.instances",
               "remove.landing", "remove.node", "remove.commit"}
Step       == SaveStep \cup ScanStep \cup PurgeStep \cup RemoveStep \cup {"failed", "close"}
Active     == {r \in Request : at[r] \in Step}

-----------------------------------------------------------------------------
(* The tables (backend/models/soga.py).                                    *)

Ids(table) == {row.id : row \in table}

\* SQLite gives a new row the highest rowid plus one; ids come back.
NewId(table) == IF table = {} THEN 1 ELSE Max(Ids(table)) + 1

RoutesOf(t, i) == {r \in t.routes : r.inst = i}
OutsOf(t, R) == {o \in t.outs : o.route \in R}

\* The foreign keys of the models.
Refers(t) ==
  /\ t.insts # {} => Entry \in t.nodes
  /\ \A r \in t.routes : r.inst \in Ids(t.insts)
  /\ \A o \in t.outs : o.route \in Ids(t.routes) /\ o.landing \in t.nodes

\* Mutated form: SQLite's default, no enforcement.
ForeignKeysHold_Off(t) == TRUE

\* PRAGMA foreign_keys=ON: a statement that breaks one fails.
ForeignKeysHold(t) == Refers(t)

\* The routes a client sees under an instance.
Content(t, i) ==
  {[pos |-> r.pos, fallback |-> r.fallback, outs |-> {o.landing : o \in OutsOf(t, {r.id})}] :
     r \in RoutesOf(t, i)}

\* What a payload asks for; validation leaves exactly one fallback, the last.
Asked(p) == {[pos |-> k, fallback |-> k = Len(p), outs |-> p[k]] : k \in 1..Len(p)}

Row(i, folder, enabled) == [id |-> i, folder |-> folder, enabled |-> enabled]

Init ==
  /\ \E enabled \in BOOLEAN, f \in Folder, l \in Landing :
       DatabaseInit([nodes  |-> Landing \cup {Entry},
                     insts  |-> {Row(1, f, enabled)},
                     routes |-> {[id |-> 1, inst |-> 1, pos |-> 1, fallback |-> TRUE]},
                     outs   |-> {[route |-> 1, landing |-> l]}])
  /\ at = [r \in Request |-> "idle"]
  /\ id = [r \in Request |-> None]
  /\ list = [r \in Request |-> <<>>]
  /\ pos = [r \in Request |-> 0]
  /\ seen = [r \in Request |-> {}]
  /\ left = [r \in Request |-> {}]
  /\ rows = [r \in Request |-> {}]
  /\ last = [r \in Request |-> 0]
  /\ lock = None
  /\ mixed = {}

-----------------------------------------------------------------------------
(* Steps that all requests share.                                          *)

Go(r, step) == at' = [at EXCEPT ![r] = step]

\* A request that starts while another is open, and that one, overlap.
Begins(r, step) ==
  /\ at[r] = "idle"
  /\ Go(r, step)
  /\ mixed' = IF Active = {} THEN mixed ELSE mixed \cup Active \cup {r}
  /\ UNCHANGED connVars

Fails(r) == Go(r, "failed") /\ UNCHANGED connVars

\* One SQL statement of r with the result t, or the error that ends r.
Statement(r, t, next) ==
  \/ ForeignKeysHold(t) /\ Flush(r, t) /\ Go(r, next)
  \/ ~ ForeignKeysHold(t) /\ Fails(r)

Commits(r, next) ==
  /\ CommitAll
  /\ Go(r, next)
  /\ UNCHANGED <<reqVars, mixed>>

Discards(r) ==
  /\ RollbackAll(r)
  /\ mixed' = IF dirty \ {r} = {} THEN mixed ELSE mixed \cup Active

\* The request is answered and its session closed.
Close(r) ==
  /\ at[r] = "close" \/ (at[r] = "failed" /\ lock # r)
  /\ Discards(r)
  /\ Go(r, "done")
  /\ UNCHANGED <<reqVars, lock>>

(***************************************************************************)
(* Any other session of the process ends: the middleware's of some HTTP    *)
(* request, with a rollback, or an agent's ping, with a commit.            *)
(***************************************************************************)
OtherSessionEnds ==
  /\ dirty # {}
  /\ RollbackAll(None) \/ CommitAll
  /\ mixed' = mixed \cup Active
  /\ UNCHANGED <<at, reqVars, lock>>

PanelCrash ==
  /\ Active # {}
  /\ Reopen
  /\ at' = [r \in Request |-> IF r \in Active THEN "done" ELSE at[r]]
  /\ lock' = None
  /\ UNCHANGED <<reqVars, mixed>>

-----------------------------------------------------------------------------
(* PUT /instances/{id}/routes.                                             *)

\* Everything up to the first DELETE: the checks and the read of the old routes.
BeginSave(r) ==
  \E i \in Ids(db.insts), p \in Payload :
    /\ UNION {p[k] : k \in 1..Len(p)} \subseteq db.nodes
    /\ Begins(r, "save.outs")
    /\ id' = [id EXCEPT ![r] = i]
    /\ list' = [list EXCEPT ![r] = p]
    /\ rows' = [rows EXCEPT ![r] = RoutesOf(db, i)]
    /\ pos' = [pos EXCEPT ![r] = 1]
    /\ UNCHANGED <<seen, left, last, lock>>

SaveDeletesOuts(r) ==
  /\ at[r] = "save.outs"
  /\ Statement(r, [db EXCEPT !.outs = @ \ OutsOf(db, Ids(rows[r]))], "save.routes")
  /\ UNCHANGED <<reqVars, lock, mixed>>

\* Mutated form: the old fallback route is kept.
SaveDeletesRoutes_KeepsFallback(r) ==
  /\ at[r] = "save.routes"
  /\ Statement(r, [db EXCEPT !.routes = {x \in @ : x.id \notin Ids(rows[r]) \/ x.fallback}],
               "save.insert")
  /\ UNCHANGED <<reqVars, lock, mixed>>

\* session.flush(); a row that is gone already is only warned about.
SaveDeletesRoutes(r) ==
  /\ at[r] = "save.routes"
  /\ Statement(r, [db EXCEPT !.routes = {x \in @ : x.id \notin Ids(rows[r])}],
               "save.insert")
  /\ UNCHANGED <<reqVars, lock, mixed>>

\* The outs of the route inserted last, which are flushed with what comes next.
WithOuts(r, t) ==
  [t EXCEPT !.outs = @ \cup (IF pos[r] = 1 THEN {} ELSE
     {[route |-> last[r], landing |-> l] : l \in list[r][pos[r] - 1]})]

(***************************************************************************)
(* A route is flushed together with the outs of the one before it, in      *)
(* either order: the mappers have no relationship to sort them by.         *)
(***************************************************************************)
SaveInserts(r) ==
  LET k   == pos[r]
      new == [id |-> NewId(db.routes), inst |-> id[r], pos |-> k, fallback |-> k = Len(list[r])]
  IN
  /\ at[r] = "save.insert"
  /\ \/ Statement(r, WithOuts(r, [db EXCEPT !.routes = @ \cup {new}]),
                  IF k = Len(list[r]) THEN "save.last" ELSE "save.insert")
     \/ ~ ForeignKeysHold(WithOuts(r, db)) /\ Fails(r)
  /\ last' = [last EXCEPT ![r] = new.id]
  /\ pos' = [pos EXCEPT ![r] = k + 1]
  /\ UNCHANGED <<id, list, seen, left, rows, lock, mixed>>

SaveInsertsLastOuts(r) ==
  /\ at[r] = "save.last"
  /\ Statement(r, WithOuts(r, db), "save.commit")
  /\ UNCHANGED <<reqVars, lock, mixed>>

SaveCommits(r) ==
  /\ at[r] = "save.commit"
  /\ Commits(r, "close")
  /\ UNCHANGED lock

Save(r) ==
  \/ BeginSave(r) \/ SaveDeletesOuts(r) \/ SaveDeletesRoutes(r)
  \/ SaveInserts(r) \/ SaveInsertsLastOuts(r) \/ SaveCommits(r)

-----------------------------------------------------------------------------
(* POST /{node_id}/scan.                                                   *)

\* Mutated form: without the lock.
BeginScan_NoLock(r) ==
  /\ Entry \in db.nodes
  /\ Begins(r, "scan.read")
  /\ lock' = r
  /\ \E F \in SUBSET Folder :
       /\ seen' = [seen EXCEPT ![r] = F]
       /\ left' = [left EXCEPT ![r] = F]
  /\ UNCHANGED <<id, list, pos, rows, last>>

\* The lock is taken and the node asked for its folders.
BeginScan(r) ==
  /\ lock = None
  /\ Entry \in db.nodes
  /\ Begins(r, "scan.read")
  /\ lock' = r
  /\ \E F \in SUBSET Folder :
       /\ seen' = [seen EXCEPT ![r] = F]
       /\ left' = [left EXCEPT ![r] = F]
  /\ UNCHANGED <<id, list, pos, rows, last>>

\* The node is offline or cannot list the directory.
ScanError(r) ==
  /\ at[r] = "scan.read"
  /\ Go(r, "scan.error")
  /\ UNCHANGED <<connVars, reqVars, lock, mixed>>

AfterFolder(r) == IF left[r] = {} THEN "scan.gone" ELSE "scan.folder"

ScanReads(r) ==
  /\ at[r] = "scan.read"
  /\ rows' = [rows EXCEPT ![r] = db.insts]
  /\ Go(r, AfterFolder(r))
  /\ UNCHANGED <<connVars, id, list, pos, seen, left, last, lock, mixed>>

Takes(r, f, i) ==
  /\ left' = [left EXCEPT ![r] = @ \ {f}]
  /\ last' = [last EXCEPT ![r] = i]
  /\ UNCHANGED <<id, list, pos, seen, rows, lock, mixed>>

\* A folder without an instance among those read.
ScanInserts(r) ==
  LET i == NewId(db.insts) IN
  /\ at[r] = "scan.folder"
  /\ \E f \in left[r] :
       /\ \A x \in rows[r] : x.folder # f
       /\ Statement(r, [db EXCEPT !.insts = @ \cup {Row(i, f, TRUE)}], "scan.commit")
       /\ Takes(r, f, i)

\* Mutated form: an instance that comes back is not enabled again.
ScanUpdates_KeepsEnabled(r) ==
  /\ at[r] = "scan.folder"
  /\ \E x \in rows[r] :
       /\ x.folder \in left[r]
       /\ \/ x.id \in Ids(db.insts) /\ Go(r, "scan.commit") /\ Flush(r, db)
          \/ x.id \notin Ids(db.insts) /\ Fails(r)
       /\ Takes(r, x.folder, x.id)

\* The UPDATE goes by id; one that matches no row is an error.
ScanUpdates(r) ==
  /\ at[r] = "scan.folder"
  /\ \E x \in rows[r] :
       /\ x.folder \in left[r]
       /\ \/ /\ x.id \in Ids(db.insts)
             /\ Flush(r, [db EXCEPT !.insts =
                  {IF y.id = x.id THEN Row(y.id, y.folder, TRUE) ELSE y : y \in @}])
             /\ Go(r, "scan.commit")
          \/ x.id \notin Ids(db.insts) /\ Fails(r)
       /\ Takes(r, x.folder, x.id)

ScanCommits(r) ==
  /\ at[r] = "scan.commit"
  /\ Commits(r, "scan.refresh")
  /\ UNCHANGED lock

\* The row is read again, for the answer (a second commit has nothing to write).
ScanRefreshes(r) ==
  /\ at[r] = "scan.refresh"
  /\ Go(r, IF last[r] \in Ids(db.insts) THEN AfterFolder(r) ELSE "failed")
  /\ UNCHANGED <<connVars, reqVars, lock, mixed>>

(***************************************************************************)
(* Which of the instances that were read have no folder any more and are   *)
(* enabled.  Their attributes are read again when a commit has expired     *)
(* them, that is, unless no folder was seen.                               *)
(***************************************************************************)
ScanFindsGone(r) ==
  LET gone    == {x \in rows[r] : x.folder \notin seen[r]}
      enabled == {x \in (IF seen[r] = {} THEN gone ELSE db.insts) :
                    x.enabled /\ x.id \in Ids(gone)}
  IN
  /\ at[r] = "scan.gone"
  /\ \/ /\ seen[r] = {} \/ Ids(gone) \subseteq Ids(db.insts)
        /\ rows' = [rows EXCEPT ![r] = enabled]
        /\ Go(r, "scan.disable")
     \/ /\ seen[r] # {} /\ ~ Ids(gone) \subseteq Ids(db.insts)
        /\ Go(r, "failed")
        /\ UNCHANGED rows
  /\ UNCHANGED <<connVars, id, list, pos, seen, left, last, lock, mixed>>

\* Those are disabled, and the node gets the time of the scan.
ScanDisables(r) ==
  /\ at[r] = "scan.disable"
  /\ \/ /\ Ids(rows[r]) \subseteq Ids(db.insts) /\ Entry \in db.nodes
        /\ Flush(r, [db EXCEPT !.insts =
             {IF y.id \in Ids(rows[r]) THEN Row(y.id, y.folder, FALSE) ELSE y : y \in @}])
        /\ Go(r, "scan.end")
     \/ ~ (Ids(rows[r]) \subseteq Ids(db.insts) /\ Entry \in db.nodes) /\ Fails(r)
  /\ UNCHANGED <<reqVars, lock, mixed>>

ScanEnds(r) ==
  /\ at[r] = "scan.end"
  /\ Commits(r, "scan.reconcile")
  /\ UNCHANGED lock

\* _auto_reconcile_routes_url (its commits are OtherSessionEnds), then the lock.
ScanReturns(r) ==
  /\ at[r] = "scan.reconcile"
  /\ Go(r, "close")
  /\ lock' = None
  /\ UNCHANGED <<connVars, reqVars, mixed>>

\* Mutated form: an error leaves the lock taken.
ScanUnwinds_KeepsLock(r) ==
  /\ at[r] = "scan.error" \/ (at[r] = "failed" /\ lock = r)
  /\ Discards(r)
  /\ Go(r, "close")
  /\ UNCHANGED <<reqVars, lock>>

\* An error: the session is rolled back before the lock is released.
ScanUnwinds(r) ==
  /\ at[r] = "scan.error" \/ (at[r] = "failed" /\ lock = r)
  /\ Discards(r)
  /\ Go(r, "close")
  /\ lock' = None
  /\ UNCHANGED reqVars

Scan(r) ==
  \/ BeginScan(r) \/ ScanError(r) \/ ScanReads(r) \/ ScanInserts(r) \/ ScanUpdates(r)
  \/ ScanCommits(r) \/ ScanRefreshes(r) \/ ScanFindsGone(r) \/ ScanDisables(r)
  \/ ScanEnds(r) \/ ScanReturns(r) \/ ScanUnwinds(r)

-----------------------------------------------------------------------------
(* DELETE /instances/{id}: raw SQL, after one look at "enabled".           *)

BeginPurge(r) ==
  \E x \in db.insts :
    /\ ~ x.enabled
    /\ Begins(r, "purge.outs")
    /\ id' = [id EXCEPT ![r] = x.id]
    /\ UNCHANGED <<list, pos, seen, left, rows, last, lock>>

PurgeDeletes(r) ==
  LET mine == Ids(RoutesOf(db, id[r])) IN
  /\ \/ /\ at[r] = "purge.outs"
        /\ Statement(r, [db EXCEPT !.outs = {o \in @ : o.route \notin mine}], "purge.routes")
     \/ /\ at[r] = "purge.routes"
        /\ Statement(r, [db EXCEPT !.routes = {x \in @ : x.inst # id[r]}], "purge.instance")
     \/ /\ at[r] = "purge.instance"
        /\ Statement(r, [db EXCEPT !.insts = {x \in @ : x.id # id[r]}], "purge.commit")
  /\ UNCHANGED <<reqVars, lock, mixed>>

PurgeCommits(r) ==
  /\ at[r] = "purge.commit"
  /\ Commits(r, "close")
  /\ UNCHANGED lock

Purge(r) == BeginPurge(r) \/ PurgeDeletes(r) \/ PurgeCommits(r)

-----------------------------------------------------------------------------
(* DELETE /api/nodes/{id}: _cascade_delete_node_soga, then the node.       *)

\* Up to the await of disconnect_node.
BeginRemove(r) ==
  \E n \in db.nodes :
    /\ Begins(r, "remove.read")
    /\ id' = [id EXCEPT ![r] = n]
    /\ UNCHANGED <<list, pos, seen, left, rows, last, lock>>

\* Mutated form: the routes are deleted before their outs.
RemoveReads_RoutesFirst(r) ==
  /\ at[r] = "remove.read"
  /\ Go(r, IF id[r] = Entry /\ db.insts # {} THEN "remove.routes" ELSE "remove.landing")
  /\ UNCHANGED <<connVars, reqVars, lock, mixed>>

\* Only an entry node has instances.
RemoveReads(r) ==
  /\ at[r] = "remove.read"
  /\ Go(r, IF id[r] = Entry /\ db.insts # {} THEN "remove.outs" ELSE "remove.landing")
  /\ UNCHANGED <<connVars, reqVars, lock, mixed>>

RemoveDeletes(r) ==
  /\ \/ /\ at[r] = "remove.outs"
        /\ Statement(r, [db EXCEPT !.outs = {}], "remove.routes")
     \/ /\ at[r] = "remove.routes"
        /\ Statement(r, [db EXCEPT !.routes = {}], "remove.instances")
     \/ /\ at[r] = "remove.instances"
        /\ Statement(r, [db EXCEPT !.insts = {}], "remove.landing")
     \/ /\ at[r] = "remove.landing"
        /\ Statement(r, [db EXCEPT !.outs = {o \in @ : o.landing # id[r]}], "remove.node")
     \/ /\ at[r] = "remove.node"
        /\ Statement(r, [db EXCEPT !.nodes = @ \ {id[r]}], "remove.commit")
  /\ UNCHANGED <<reqVars, lock, mixed>>

RemoveCommits(r) ==
  /\ at[r] = "remove.commit"
  /\ Commits(r, "close")
  /\ UNCHANGED lock

Remove(r) == BeginRemove(r) \/ RemoveReads(r) \/ RemoveDeletes(r) \/ RemoveCommits(r)

-----------------------------------------------------------------------------
Next ==
  \/ \E r \in Request : Save(r) \/ Scan(r) \/ Purge(r) \/ Remove(r) \/ Close(r)
  \/ OtherSessionEnds
  \/ PanelCrash

Spec == Init /\ [][Next]_vars

-----------------------------------------------------------------------------
(***************************************************************************)
(* Types, and that neither the visible nor the stored tables ever hold a   *)
(* reference to a row that does not exist, whatever is committed half way. *)
(***************************************************************************)
Tables ==
  [nodes  : SUBSET (Landing \cup {Entry}),
   insts  : SUBSET [id : Nat, folder : Folder, enabled : BOOLEAN],
   routes : SUBSET [id : Nat, inst : Nat, pos : Nat, fallback : BOOLEAN],
   outs   : SUBSET [route : Nat, landing : Landing]]

TypeOK ==
  /\ db \in Tables /\ disk \in Tables
  /\ Refers(db) /\ Refers(disk)
  /\ dirty \subseteq Active
  /\ torn \in BOOLEAN
  /\ at \in [Request -> Step \cup {"idle", "done"}]
  /\ list \in [Request -> Payload \cup {<<>>}]
  /\ pos \in [Request -> Nat] /\ last \in [Request -> Nat]
  /\ seen \in [Request -> SUBSET Folder] /\ left \in [Request -> SUBSET Folder]
  /\ lock \in Request \cup {None}
  /\ mixed \subseteq Request

(***************************************************************************)
(* The scan lock is held by the request that is scanning and by no other,  *)
(* and an error gives it back.                                             *)
(***************************************************************************)
LockFollowsScan ==
  /\ \A r \in Request : at[r] \in ScanStep => lock = r
  /\ lock # None => at[lock] \in ScanStep \cup {"failed"}

(***************************************************************************)
(* "A folder that exists reuses its instance": no two instances of one     *)
(* folder, through any overlap of scans, purges and node deletions, unless *)
(* some session's rollback brought a deleted row back.                     *)
(***************************************************************************)
FoldersAreUnique ==
  ~ torn => \A x, y \in db.insts : x.folder = y.folder => x = y

(***************************************************************************)
(* An instance has at most one fallback route, although a save that fails  *)
(* half way may have been committed by another session; unless two saves   *)
(* of it overlapped or a rollback discarded what another had flushed.      *)
(***************************************************************************)
Fallbacks(t, i) == {x \in RoutesOf(t, i) : x.fallback}

OneFallback ==
  \A i \in Ids(db.insts) :
    Cardinality({r \in mixed : id[r] = i /\ list[r] # <<>>}) <= 1 /\ ~ torn =>
      Cardinality(Fallbacks(db, i)) <= 1

(***************************************************************************)
(* A request that has the database to itself never fails on a foreign key  *)
(* or a vanished row: the deletes are in an order that SQLite accepts,     *)
(* whatever interrupted requests have left behind.                         *)
(***************************************************************************)
LoneNeverFails == \A r \in Request \ mixed : at[r] # "failed"

(***************************************************************************)
(* What a request that has the database to itself makes durable is what    *)
(* was asked for, whole, and nothing else.                                 *)
(***************************************************************************)
SameButInstances(t, u) == t.nodes = u.nodes /\ t.routes = u.routes /\ t.outs = u.outs

Saved(r, t, u) ==
  /\ Content(u, id[r]) = Asked(list[r])
  /\ u.nodes = t.nodes /\ u.insts = t.insts
  /\ \A i \in Ids(t.insts) \ {id[r]} : Content(u, i) = Content(t, i)

Scanned(r, t, u) ==
  /\ SameButInstances(t, u)
  /\ {x \in u.insts : x.id # last[r]} = {x \in t.insts : x.id # last[r]}
  /\ \E x \in u.insts : x.id = last[r] /\ x.enabled /\ x.folder \in seen[r] \ left[r]

ScannedAll(r, t, u) ==
  /\ SameButInstances(t, u)
  /\ Ids(u.insts) = Ids(t.insts)
  /\ {x.folder : x \in {y \in u.insts : y.enabled}} = seen[r]

Purged(r, t, u) ==
  /\ u.insts = {x \in t.insts : x.id # id[r]} /\ u.nodes = t.nodes
  /\ \A i \in Ids(u.insts) : Content(u, i) = Content(t, i)

Removed(r, t, u) ==
  /\ u.nodes = t.nodes \ {id[r]}
  /\ u.insts = (IF id[r] = Entry THEN {} ELSE t.insts)
  /\ u.routes = (IF id[r] = Entry THEN {} ELSE t.routes)
  /\ u.outs = {o \in t.outs : id[r] # Entry /\ o.landing # id[r]}

LoneCommits(r) ==
  /\ SaveCommits(r) => Saved(r, disk, disk')
  /\ ScanCommits(r) => Scanned(r, disk, disk')
  /\ ScanEnds(r) => ScannedAll(r, disk, disk')
  /\ PurgeCommits(r) => Purged(r, disk, disk')
  /\ RemoveCommits(r) => Removed(r, disk, disk')

LoneCommitsAreWhole == [][\A r \in Request \ mixed : LoneCommits(r)]_vars

(***************************************************************************)
(* Why folders stay unique.  UnseenAreKnown: a folder that a scan has      *)
(* still to handle is present only if the scan has read its instance.      *)
(* DeletedByOpen: an instance that is stored but not visible was deleted   *)
(* by a request that is still open and cannot fail any more, unless it     *)
(* meets the flushed insert of a scan; so its deletion is not rolled back  *)
(* without discarding another session's statement.                         *)
(***************************************************************************)
Folders(t) == {x.folder : x \in t.insts}
Unique(t)  == \A x, y \in t.insts : x.folder = y.folder => x = y

ScanIsDirty == \E q \in dirty : at[q] = "scan.commit"

HasDeleted(q) ==
  \/ at[q] = "purge.commit"
  \/ at[q] = "remove.commit" /\ id[q] = Entry
  \/ /\ at[q] \in {"remove.landing", "remove.node"} /\ id[q] = Entry
     /\ db.insts = {} \/ ScanIsDirty
  \/ at[q] = "failed" /\ ScanIsDirty

UnseenAreKnown ==
  \A r \in Request : at[r] \in {"scan.folder", "scan.commit", "scan.refresh"} =>
    left[r] \cap Folders(db) \subseteq {x.folder : x \in rows[r]}

DeletedByOpen ==
  ~ Folders(disk) \subseteq Folders(db) => \E q \in dirty : HasDeleted(q)

Shaped(t) ==
  t = [nodes |-> t.nodes, insts |-> t.insts, routes |-> t.routes, outs |-> t.outs]
\* Where a request has nothing to commit.
Clean == {"close", "scan.read", "scan.reconcile", "scan.error"}

\* Only the deletion of an entry node deletes instances.
EntryRemoves ==
  \A r \in Request : at[r] \in {"remove.outs", "remove.routes", "remove.instances"} =>
    id[r] = Entry

PerRequest(f) == f = [q \in Request |-> f[q]]

FolderInv ==
  /\ Shaped(db) /\ Shaped(disk) /\ Refers(db) /\ Refers(disk)
  /\ PerRequest(id) /\ PerRequest(left) /\ PerRequest(rows)
  /\ \A q \in dirty : q \in Request /\ at[q] \in Step \ Clean
  /\ ~ torn => Unique(db) /\ Unique(disk) /\ UnseenAreKnown /\ DeletedByOpen

(***************************************************************************)
(* soga.py:683, on the routes that are stored: "exactly one fallback".     *)
(***************************************************************************)
StoredOneFallback == \A i \in Ids(disk.insts) : Cardinality(Fallbacks(disk, i)) <= 1

=============================================================================
