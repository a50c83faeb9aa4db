# MeshPanel: verification development

MeshPanel is a control panel (Python, FastAPI, SQLite) for a set of VPS nodes, with a small agent
(Go) on each node. The panel installs nodes over SSH; afterwards it talks to them only through a
WebSocket that the agent opens and keeps open. This directory holds TLA+ models of the parts of
that system where several actors meet, the TLC configurations that check them on small instances,
and TLAPS proofs of the safety properties for instances of any size.

Paths below are relative to the repository (`src/` in `PROJECT.json`).

## 1. Inventory

| component | state it keeps | operations | talks to |
|---|---|---|---|
| agent hub, `backend/ws/agents.py` | `_connections`, `_write_locks`, `_metrics` (by node id); the row's `agent_status`, `agent_last_seen` | `node_ws` (accept, replace an old connection, register, `set_iface`, ping/pong, metrics, replies, finally), `disconnect_node`, `send_cmd`, `sweep_offline_loop` | agents (frames), RPC channel (`handle_response`, `fail_all_for_node`), database |
| agent RPC, `backend/deploy/agent_rpc.py`, `remote.py` | `_pending`: request id to future and node | `call`, `call_sync` (from threads), `handle_response`, `fail_all_for_node` | the hub's tables and locks |
| agent, `agent/ws.go`, `rpc.go`, `main.go` | one connection, backoff delay, chosen interface | `runLoop`, `serveConn`, `handleRPC` (`shell.exec`, `fs.*`), `handleCmd` | the panel, systemd, the node's files |
| agent metrics, `agent/metrics.go` | previous counters and `hasPrev` | `metricsLoop` | `/proc`, the connection |
| SS configuration, `backend/api/ss_config.py`, `deploy/config_push.py` | `ss_config`, `ss_apply_status`; on the node `config.json`, `config.json.new`, the sing-box process | put, preview, apply | RPC channel, `send_cmd`, sing-box |
| configuration rules, `deploy/singbox_config.py` | none | validate, render | SS configuration |
| nodes, `backend/api/nodes.py`, `models/node.py` | the `nodes` row: `deploy_status`, versions, token | create, patch, order, delete, uninstall, deploy, reset, redeploy, reload, cascade | hub (`disconnect_node`), installer, Soga tables |
| installer, `deploy/installer.py`, `scripts.py`, `uninstaller.py` | files and units on the node | deploy, push env, uninstall | SSH, systemd |
| Soga routes, `backend/api/soga.py`, `deploy/soga_push.py`, `soga_scan.py` | `soga_instances`, `soga_routes`, `soga_route_outs`; `soga.conf` on the node; one scan lock per node | scan with reconcile, save routes, push, put conf, delete instance, serve `routes.toml` | RPC channel, database, nodes |
| authentication, `api/auth.py`, `firstrun.py` | administrator, JWT secret (row and process cache) | setup, login, change password, first run | database |
| credentials, `security/crypto.py` | key file, ciphertexts in `nodes` | encrypt, decrypt, migrate at start | database, disk |
| settings, `api/settings.py` | key/value rows, certificate files | read, patch, upload | database, disk |
| database, `database.py` | one SQLite connection that all sessions share | sessions | everything |
| panel installer, `install.sh` | binary, backup, unit, database | install, update with rollback, port change, uninstall | systemd |
| frontend, packaging, GeoIP, SSH client | none that the panel depends on | | |

What is hard here, and what would be wrong if it went wrong:

* **One event loop, many awaits.** Handlers of two connections of one node, calls, requests and the
  sweep interleave at every `await` and share dictionaries keyed by node id. The tables must agree,
  a lock must belong to the connection it guards, no caller may be forgotten, nobody may wait on a
  handler that has ended, and a node's shown status must follow its connection in the end.
* **Calls that outlive their caller.** A timeout says nothing about the agent: the command may have
  run, or may run later, in the middle of what is done next. A file on the node must not be
  installed unless it was written and checked, and a result must not be claimed that did not happen.
* **Worker threads.** Synchronous endpoints run in a thread pool, one SQLAlchemy session per
  request, all on one SQLite connection; rows are read, then a remote call takes seconds, then they
  are written back.
* **Crashes.** Of the panel between two commits, of the install scripts between two steps, of the
  agent and the node at any time.

`PROJECT.json` lists each hazard at its line with the property that covers it, or the reason why none does.

## 2. The modules

```
            RpcService              what a caller of agent_rpc may rely on
           /          \
  (implemented by)   (used by)
   AgentHub            SSApply      save-and-apply of a configuration, with the node's files
      |
   AgentRpc                         calls, futures, the pending table

   SSRules                          what a configuration says: validate, render, what sing-box makes of it

   NodeInstall                      deploy, uninstall, delete, reset, push of agent.env
      |
   NodeHost                         the node under the SSH scripts and systemd

   PanelProcess                     start, restart and crash of the panel, its two caches
     /        \
AdminAccount   CredentialKey        account and JWT secret; key file and stored credentials
     \        /
   PanelThread       SogaStore      scan, save, purge and cascade over the Soga tables
          \            /
          SharedDatabase            one SQLite connection under all sessions
```

`AgentRpc` and `AgentHub` model `agent_rpc.py` and `agents.py`. `RpcService` is the abstract
specification of a remote call; `AgentHub` is shown to implement it (`ImplementsService`, model-checked
and proved), and `SSApply` is written on top of it with `INSTANCE`, so what is shown about an apply
does not assume more of the channel than was shown of the hub. `MCSSRules` puts the two halves of a
configuration together: what is applied in `SSApply` there are the configurations `SSRules` renders.
`SogaStore` and `PanelProcess` are on the other side of the panel: worker threads and the database, both on
top of `SharedDatabase`. `NodeInstall` is what happens over SSH, before the agent is there and beside it.

### AgentRpc, AgentHub

The panel runs this code on one event loop, so one action is the code between two awaits, with every
call it makes. Opening, committing and closing a database session without an await is part of the
action; only the sweep holds a session across awaits.

| model | code |
|---|---|
| `conns`, `locks`, `metrics`, `pending` | `_connections`, `_write_locks`, `_metrics`, `_pending` |
| `locked[c]` | state of the `asyncio.Lock` made when `c` registered; a lock is named by that connection |
| `pc[c]`, `wlock[c]` | the await at which the `node_ws` coroutine of `c` stands, the lock it waits for or holds |
| `sock[c]` | open; `half` (peer gone, panel does not know); `eof` (noticed); closed by the panel |
| `cpc`, `req`, `fut`, `out`, `reply` | where `call` stands, the connection and lock it captured, its future, what its caller got, what the agent answered |
| `row`, `online`, `fresh` | the row exists, `agent_status`, `agent_last_seen` within `HEARTBEAT_TIMEOUT` |
| `op[n]` | a delete/uninstall that awaits `disconnect_node` |
| `sweep` | the sweep between its awaits: where, what is left, which rows its session has marked |
| `Finally` | the finally block, and uvicorn closing what is still open |

Abstracted: the contents of samples and frames, `os_pretty`, ack (only logged), the identifiers of
calls (a call is its own id), `call_sync`'s extra five seconds. Calls and connections are used once,
a new one is a new element of the set.

### RpcService, SSApply

`SSApply` has any number of overlapping `POST /ss-config/apply` of one deployed node. An apply
captures the stored configuration and the loaded status (`BeginApply`), makes the calls `mkdir`,
`write`, `check`, then `rm` or `mv`, then `reload` (`CallNext`, `CallEnds`, `Continue`), and commits
a status. The agent carries out a command at any time after it was issued, even when the caller
was already told "timeout" (`AgentRuns`), may kill it half way, or tear the file; `PanelCrash` ends all
requests without a commit; `ServiceRestarts` is any restart of sing-box, which takes the file
as it is. `CommitStatus` keeps SQLAlchemy's rule that a column assigned its loaded value is not
written. Abstracted: a configuration is a value that sing-box accepts or not; `os.WriteFile` is one
step; `deploy_status` stays `deployed`.

### SharedDatabase, SogaStore

`database.py` gives every session the same SQLite connection (`StaticPool`), so a session has no
transaction of its own. `SharedDatabase` states what that means: `db` is what every session sees, `disk`
what is committed; `CommitAll` and `RollbackAll` act on everything that was flushed, by whomever. Two
ghost variables record what the properties need: `dirty`, the sessions with flushed statements, and
`torn`, that a session has discarded what another one had flushed.

`SogaStore` runs any number of requests on it. Synchronous endpoints run in worker threads, so one action is
one SQL statement, or the reads between two statements.

| model | code |
|---|---|
| `db.insts`, `.routes`, `.outs`, `.nodes` | the tables of `models/soga.py` and `nodes`; a route has a position, a fallback flag and its landing nodes, an instance its folder and `enabled` |
| `BeginSave` .. `SaveCommits` | `save_instance_routes`: read the old routes, delete outs, delete routes, insert one by one, commit |
| `BeginScan` .. `ScanUnwinds` | `scan_instances`, `_do_scan_inner`: the node's lock, read, one commit per folder, disable what is gone, commit; an error rolls back and releases the lock |
| `BeginPurge` .. `PurgeCommits` | `delete_instance` |
| `BeginRemove` .. `RemoveCommits` | `delete_node` with `_cascade_delete_node_soga` |
| `Statement` | a statement that breaks a foreign key fails (`PRAGMA foreign_keys=ON`) and ends its request |
| `NewId` | SQLite hands out the id of a deleted last row again |
| `seen` | what the scan was told: any set of folders, because a failed `stat` hides one that exists |
| `OtherSessionEnds` | any other session of the process; `host_guard_middleware` opens and closes one for every HTTP request, and a returned connection is rolled back |
| `mixed` | ghost: the requests that overlapped another one or the end of another session |

Abstracted: names, probes, rules, sort orders; validation of a payload is in what `Payload` contains; the
routes_url reconciliation at the end of a scan, whose commits are `OtherSessionEnds`.

### SSRules

`singbox_config.py` as operators: `Load` (`_load_ss`), `Valid` (`validate_ss_config`), `Render`
(`render_singbox_config`) with `Servers`, `Default`, `Rules`, `Inbound`. A payload is a function from the keys
it happens to have, so that absent keys and their several defaults are in the model. The reference
definitions are external: `Starts`, what sing-box needs to start with a configuration, `Admits`, its
first-match rule, and `Named`, the plain meaning of an allowlist line: the address itself, or the same first bits. The
code instead turns every line into a network whose host bits are cut off (`Network`), and sing-box cuts off the
source's (`Covers`). An address is its bits; how many a family has is the constant `Bits`. `ss` is the payload that
`PUT /ss-config` has stored. A flag is what Python takes it for. Abstracted: strings that are only passed on, NTP,
the listen address.

### NodeHost, NodeInstall

`NodeHost` is the node: the files the panel installs (`files`), the services enabled at boot, what the running agent
and sing-box were started from, and one remote script for each request. A step of a script is one command
that changes something lasting; between any two it may be killed (`Dies`), a command may fail (`Aborts`,
`InstallFails`), and it goes on when the panel has given up on it. `Respawns` and `Reboots` are systemd's.

| model | code |
|---|---|
| `SwapStops`, `SwapMoves` | the remote command of `_upload_agent` |
| `InstallVersion` .. `InstallAgentStart` | `INSTALL_SH`, with its shell variables `fresh` and `changed` |
| `Uninstall`, `PushEnv` | `UNINSTALL_SH`; `push_agent_env` |
| `row`, `seen[r]` | the row of `nodes`, and the copy a request's session has loaded: only columns that differ from it are written |
| `BeginDeploy` .. `DeployEnds` | `deploy` and `deploy_node`: two commits, with the upload and the script in between |
| `BeginUninstall`, `UninstallEnds` | `uninstall_node_endpoint`, which waits for a worker thread; purge, keep, or no answer in time |
| `ResetDeploy`, `DeleteNode`, `BeginPush`, `ApplySS`, `SetEndpoint` | the other requests that touch a node; `ApplySS` is an apply of `SSApply` in one step |
| `PanelCrashes` | the panel dies under its requests; their scripts go on or not |
| `overlap`, `crashed`, `trouble` | ghosts: what the properties are qualified by |

Abstracted: downloads, architectures, versions of sing-box, log and README files, the removal of the agent's
predecessor.

### PanelThread, AdminAccount, CredentialKey, PanelProcess

`PanelThread` states how a thread of the panel works: a request takes a worker thread, runs statement by
statement on the shared connection, and ends its session. `AdminAccount` (`auth.py`, `firstrun.py`) and
`CredentialKey` (`crypto.py`) are two components of the same shape: the truth is on the disk, a copy is cached
in a variable of the process (`cache`, `fernet`), and several threads may fill it at once. `PanelProcess`
starts the process (`lifespan`: first administrator, migration of plain credentials, then serving), stops it
at rest, and kills it at any step.

A token is the secret that signed it, a stored credential is the key it was encrypted with, or `"plain"`.
`revoked` is a ghost: the secrets that had signed before a password change that was answered with ok.
`amiss` records by name what has gone wrong so far (a session that ended inside another's statements, a cache
fill overtaken by another, a commit that failed, a crash before the first password was written, a lost
key file, a table that could not be read, a race for the key), so that each property says exactly
which of them it does not survive. Abstracted: expiry, user names, lengths; two tokens of one secret.

## 3. What the runs show

Constants in the configurations are model values. The bounds: one node, since the tables of one node
are never touched for another, and two where the sweep must be between two; two connections,
an old one and its replacement, which is what an identity check by node id can get wrong; two calls, so
that an answer can meet the other's future; two applies, a configuration that sing-box accepts and one
it refuses; two requests of the Soga tables, since each hazard listed there is between two, with payloads
on both sides of the multi-route loop (simulation with three requests found nothing new, and the
theorems of section 4 hold for any number). `MaxTrouble` bounds how often something dies, fails or (in
`NodeInstall`) begins beside another request: one is enough to reach each hazard listed for these modules.
Requests, reboots and restarts of processes are not bounded. `OneThingAmiss`
stops a run of `panel_process` once two kinds of things have gone amiss, which no property speaks of together. Three secrets
are the one before, the one of a change, and a fresh one; two keys are a lost one and its replacement. The payloads of `ss_live` are those
that differ in at most two keys from a complete one of either protocol, a key being changed, invalid or
left out, with allowlists of up to two lines and addresses of 2 bits (IPv4) or 3 (IPv6), which has
networks of no, some and all bits; the theorem about the allowlist holds for any width and any list. The runs use the symmetry of nodes, connections, calls and applies where only
safety is checked; `ss_overlap` also merges states that differ in what nothing reads any more (`View`).

| run | instance | shows |
|---|---|---|
| `hub_safe` | 1 node, 2 connections, 2 calls | tables, locks, samples and waiting calls through every overlap of reconnects; the pending table is exact, answers go to their own callers once, the channel implements `RpcService` |
| `hub_live_calls` | 1 node, 2 connections, 1 call | every call returns |
| `hub_live_nodes` | 1 node, 2 connections, delete/reset/kick, the sweep | a row left online without a handler turns offline; a served connection that lost its registration ends |
| `ss_overlap` | 2 applies, a good and a bad configuration | `LoneApplyIsSafe`, `InstallFollowsCheck`, `FirstResultIsStored` |
| `ss_live` | 1 apply of a rendered configuration; some 6,800 stored payloads, each in a state of its own | `ApplyEnds`: an apply ends even if nothing is ever answered. `ValidConfigStarts`: what validation lets through, sing-box starts with (but for two kinds of DNS address, below); `QueriesUsePrimary`; `AllowlistIsExact`: exactly the sources that a line names are admitted |
| `soga_store` | 2 requests of any kind, 2 folders, 2 landing nodes, payloads of one and of two routes | `LoneCommitsAreWhole`, `LoneNeverFails`: a request with the database to itself does what was asked for, whatever interrupted ones left behind; `FoldersAreUnique`, `OneFallback`: what survives overlaps; `LockFollowsScan` |
| `node_install` | 1 node, new or deployed earlier, 2 request slots used again and again, 1 endpoint, `MaxTrouble` = 1 | `DeployingIsAtWork` through every overlap; without overlaps, wherever one thing died: `BinaryIsCurrent`, `UninstalledStaysDown`, `RedeployRepairs` (what a rerun of the script repairs); with nothing amiss: `DeployedIsRunning`, `AppliedIsInstalled` |
| `panel_process` | 2 worker threads and the main thread, 1 node, 2 passwords, 3 secrets, 2 keys, `MaxTrouble` = 1 | `OldTokensStayDead`, `RestartKeepsSessions`, `AccountIsWhole`, `CredentialsAreReadable`, `LostKeyIsNotReplaced`, through concurrent requests, restarts and crashes |

Runs that refute a statement of the docs or comments (each is in `findings` with the line):

| run | statement | what happens |
|---|---|---|
| `hub_offline_means_gone` | `RemoteOffline` means the agent is not online | the finally block of a replaced connection fails the calls just sent on the new one |
| `hub_turns_green` | a node that comes back turns green | the sweep's commit, delayed by an await, writes offline over a reconnect |
| `ss_node_stays_up` | a broken configuration never brings a node down | two applies share `config.json.new` |
| `soga_one_fallback` | the stored routes of an instance have exactly one fallback | the end of another session restores the old routes between the delete and the inserts of one save |

Some more things are known not to hold and have no run, because the models show them in a few steps:

* `_write_locks` is said to serialise writing (`agents.py:26`). The pong looks its lock up by node
  id; after two overlapping reconnects that lock belongs to another connection, and two coroutines
  write to one socket.
* A node that is deleted is not always disconnected: a handshake already past its checks registers
  after `disconnect_node` and is served until the agent leaves.
* "applied" (docs/04:86, "after the ack") is committed when the reload was written to the socket; the ack
  is only logged.
* Deleting a landing node leaves routes without any out, which a save would refuse (`nodes.py:63`).
* `delete_instance` checks `enabled` once; a scan in between may have found the instance alive.
* A `stat` that fails for an offline agent hides a folder, and the scan disables a live instance.
* With three overlapping requests a save may write its routes under another folder's instance, because the
  id of a deleted instance was given out again.
* The row need not hold the result of the last of several overlapping applies: a column assigned the value
  its session had loaded is not written. `FirstResultIsStored` is what does hold.
* Validation does not parse `dns_primary`: a host that cannot be parsed is stored and makes preview and apply
  raise. A name reached by plain TCP or UDP gets no resolver, and sing-box refuses the configuration.
* "Deploying is idempotent" (`README.md:16`) has two exceptions, both after a script that died at the wrong place: between
  the replacement of agent.env (or of a unit) and the restart, a rerun finds nothing changed, so the
  agent keeps its old environment and a service that was not yet enabled stays so. `RedeployRepairs` is what holds.
* Overlapping deploys, uninstalls and applies of one node overwrite each other's results in the row; two first
  deploys may both make a token. `redeploy-config` asks for no status and writes agent.env on an uninstalled
  node.
* "All old tokens die at once" (`auth.py:73`) fails when a fill of the cache that began before the change is
  overtaken by it: the old secret is cached again. A login checked against the old password may be
  signed with the new secret. A commit that fails after the secret was rotated leaves a cache that differs from the
  database until the next restart.
* A password change is a sequence of statements; a session of another request that ends in between commits or
  discards a part of it.
* A first start that dies after the commit and before the password was written leaves an account nobody can enter.
* "The panel refuses to start when the key is lost" (`crypto.py:32`, `main.py:36`): with nothing left in plain text the
  migration never asks for the key, so the panel starts; it still refuses to make a new one (`LostKeyIsNotReplaced`).
* Two threads that encrypt for the first time at once both make a key; what was stored under the one that is
  overwritten is lost at the next start.

Fairness. `LiveSpec` of the hub assumes what the event loop, uvicorn and the clock give: a runnable
coroutine runs; a send returns or raises and a close returns (uvicorn's keepalive bounds both); timers
fire; a dead peer is noticed; `asyncio.Lock` is FIFO, so a waiter is served (strong fairness);
an agent pings while its connection stands. It assumes nothing that makes an agent dial, answer or stay.
`LiveSpec` of `SSApply` assumes that threads run and that calls end, which is `CallsReturn` of the hub.

Deadlock checking is off where connections, calls or applies are used up: the model, not the system,
stops there. `NodeInstall` and `PanelProcess` claim safety only: their requests are bounded by timeouts, but nothing makes an
operator repeat one.

## 4. What is proved

Every safety property that a passing run checks is also a theorem, for any sets of nodes, connections, calls, applies,
configurations, payloads, requests, folders, endpoints, threads, passwords, secrets and keys and any number of
faults. The runs show that the statements are met by interesting behaviours and that mutated forms of the code break
them; the proofs show that the small instances hide nothing.

| module | theorems about |
|---|---|
| `AgentHubProofs` | `AgentHub` with `AgentRpc`, and that it implements `RpcService` |
| `SSApplyProofs` | `SSApply` |
| `SSRulesProofs` | `SSRules` |
| `SogaStoreProofs` | `SogaStore` with `SharedDatabase` |
| `NodeInstallProofs` | `NodeInstall` with `NodeHost` |
| `PanelProcessProofs` | the types of `PanelProcess`, and where its threads are |
| `AdminAccountProofs`, `CredentialKeyProofs` | the account and the key, on top of `PanelProcessProofs` |

The only assumptions are the named ones on constants, which TLC evaluates in every run. Most say that the placeholders
of a model (`None`, `Main`, `"plain"`, `"torn"`, `"none"`) are none of the values they stand beside, as in the code,
where they are `None`, the absence of a row or file, or text that no generated value equals. `Good` and `First` are
configurations (`SSAssumption`), a payload has at least one route and each route a landing node, which the code checks
before anything is written (`StoreAssumption`), `MaxTrouble` is a number of any size, and `RulesAssumption` says what
kind of value an allowlist, a flag and an address is.

**Hub.** The safety properties are not inductive by themselves. `IInv` adds: a handler, a captured
pair and an entry of the lock table refer only to connections that got as far as registering
(`HandlersRefer`, `LocksRefer`, `CallsRefer`), so the lock that `Register` makes is one nobody holds; and
a call's position determines the state of its future (`CallShape`). `Invariance` proves
`Spec => []IInv`, one step per action; helper lemmas say what `Register`, `Finally`, `FailAll` and the
sweep do. From it: `TypeCorrect`, `TablesAlwaysAgree`, `LocksStayExclusive`, `PendingStaysExact`,
`NobodyIsLeftWaiting`, `MetricsStayLive`, `AnswersReachCallers`, `FuturesSettleOnce` (an action property),
and `HubImplementsService`, the refinement: each step of the hub is a step of `RpcService` or a stutter.

**Apply.** `IInv` adds what is known of an apply's earlier calls from where it stands (`CallsInOrder`), what
the service guarantees of each call (`CallsAreServed`) and what the temporary file holds while only
one apply has written (`FilesOfLone`). From it: `TypeCorrect`, `LoneAppliesAreSafe`,
`InstallsFollowChecks`. `FirstResultsAreStored` has an invariant of its own, `LoadedIsCurrent`: until a
result is written, every open session has loaded the stored status.

**Soga tables.** `LockHeldByScan`: the scan lock, from `LockInv`. `FoldersStayUnique` needs two facts about
the past: a folder that a scan has still to handle is present only if the scan has read its
instance (`UnseenAreKnown`), which the lock protects against other scans; and an instance that is stored
but no longer visible was deleted by an open request that cannot fail any more unless it meets the
flushed insert of a scan (`DeletedByOpen`), so its rollback would discard another session's statement, which is
what `torn` records. Both also rest on the foreign keys (`Refers`), proved for the visible and
the stored tables. `Invariance` proves `Spec => []IInv`; the lemmas `KeepsFolders`, `DeletesFolders`,
`InsertKeepsFolders`, `CommitKeepsFolders` and `RollbackKeepsFolders` are the five ways a step can touch the tables.
`TypesHold` adds `TypeInv`: what rows, payloads and positions a request holds at each step. A new id is new because a
finite set of numbers has a largest one (`Largest`). `FallbackIsSingle` rests on `FallbackInv`: for an instance no two saves of
which overlapped, not only have the visible and the stored routes at most one fallback each, but the fallbacks that are
there before the last insert of a save are rows it has read and is about to delete (`Covered`), a stored fallback is missing from
the visible routes only while somebody's deletion is not committed (`Held`), and no save of another instance holds ids of
its routes (`NoStale`), although SQLite gives ids out again. `MixedInv` says who is in `mixed`.

`LoneSucceeds` and `LoneCommitsWhole` are about a request that has the database to itself. `LoneInv` says
that no other request is open and which rows are gone already at each of its steps (`Shapes`), so that no foreign key can
break and what it has read is still there. `DraftInv` says, for each step of each kind of request,
what the visible tables are in terms of the stored ones: all but the outs of the old routes, then all but the old
routes, then the first `pos` routes of the payload with their outs (`SaveDraft`); after each folder the tables with the
handled folders folded in (`ScanDraft`, `Folded`); and likewise `PurgeDraft` and `RemoveDraft`. The last step of the
request commits that, which is what the property states. TLC has checked these invariants on the instance of
`soga_store`, `FallbackInv` also with three requests.

**Node.** `TypeCorrect` has one lemma for each group of steps. `DeployingStaysAtWork` rests on `AtWork`: some deploy has yet
to load the row, or has loaded "deploying", so its result differs from its copy and will be
written; a reset or another deploy in between breaks that for one request, never for all. `BinaryStaysCurrent` and
`UninstalledNodesStayDown` share `HostInv`: as long as nothing overlapped, at most one request or script works on
the node (`Alone`), what it has stopped or removed so far follows from its step (`ScriptShape`), and an
uninstalled node is left alone until a deploy commits (`UninstalledShape`, `UninstalledWork`). With `Lone(r)` and `Shape(r)`
the step lemmas speak of one request only; `ShapeIsEnough` brings the others back.

`DeploysRepair`, `DeployedNodesRun` and `AppliedStaysInstalled` need two more invariants, together `DeployInv`.
`InstallInv`, while nothing overlapped: what an install script has put in place by each of its steps (`InstallShape`),
that sing-box runs the file that is there (`SingboxShape`), and that a request's copy of the row is still right where it
will be used (`DeployedWork`, `LoadedWork`). `PromiseInv`, while nothing died either: units are enabled and the agent has
read the files as they are (`AgentShape`, `AgentUnitShape`, `SingboxUnitShape`), unless the one script on the node is
about to see to it (`PendingShape`); and what "deployed" and "applied" say of the files (`DeployedShape`,
`AppliedShape`). `RedeployRepairs` is an action property: it follows from the first of the two alone, so it holds
whatever had died before. TLC has checked all of them on the instance of `node_install`.

**Panel process.** `TypesHold` proves the types with `Control`: the main thread is alone until it serves, and a call of
`get_jwt_secret` or `_get_fernet`, which several requests make, returns to where it was made from.

* Credentials (`KeyInv`). A key in hand is a key, and who encrypts has a cached one (`KeysInHand`); who makes a key is
  alone with it while no other is in use (`OneMaker`), and nothing is stored under a key by then (`NothingStored`); all
  that is stored, cached or in hand is the key on the disk (`OneKey`). Each conjunct says which faults it does not
  survive, and the faults are those the property names.
* Account (`AccountInv`). Flushed statements belong to sessions that are still at work on them (`Flushed`), and what
  such a session has made of the account follows from its step (`Draft`), so that each commit stores it whole (`Whole`).
* Secrets (`SecInv`). A secret that nobody has seen is in no cache, row or hand; a revoked one is neither stored nor
  cached nor about to be (`DeadInv`); and a secret in use is the stored one, or a session is still to store it
  (`KeepInv`). `OldTokensAreDead` and `RestartThrowsNobodyOut` follow.

TLC has checked these invariants on the instance of `panel_process`.

**Configuration rules.** `SSRules` has no steps of its own, so its theorems are about every accepted payload.
`ConfigsStart` goes key by key: a key that is absent gets the default that validation had assumed for it (`SameDefault`), or
validation would have refused its absence (`SameValue`), so what was accepted stays accepted when completed
(`LoadedIsValid`); then each thing `Starts` asks for is found in the rendered configuration. `AllowlistHolds` rests on
`CoversIsNamed`, that cutting off host bits on both sides is the same as comparing the first bits, and on
`RulesDecide`, what the first deciding rule is in each of the four lists of rules there can be.

Only model-checked: the liveness properties (`CallsReturn`, `StaleOnlineIsSwept`, `OrphanEnds`, `ApplyEnds`), because
fairness and ENABLED are outside the prover; and the runs that refute a statement, where a single behaviour is the point.

## 5. Not modelled, and the plan

Not modelled, with the reason:

* `soga.conf` on the node (`soga_push.py`, the routes_url reconciliation of a scan): a read-modify-write of a text file
  over the channel. Next in line, as `SogaConf` over `RpcService`, with two pushes and an edit: no edit is
  lost, the token in the file is the one in the row.
* The agent's own loops: `prev`/`hasPrev` of `metricsLoop` and the backoff of `runLoop`; two small sequential
  machines, next in line as `AgentLoops`.
* `install.sh`: update with backup and rollback, port change, uninstall of the panel itself; a shell script
  beside the panel, of the same kind as `NodeHost`.
* The two-file upload of a certificate, schema upgrades of old databases, a full disk, worker threads that
  share the SQLite connection with the event loop inside one of the hub's short sessions (the hub takes them as
  one step).
* The frontend, packaging, GeoIP and the SSH client hold no state the panel depends on.

Worth stating and proving next: what holds of the row after overlapping deploys and applies beyond `DeployingIsAtWork`
and `FirstResultIsStored`; and, for each module above when it is written, its types and its main invariant.
