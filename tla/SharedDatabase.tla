--------------------------- MODULE SharedDatabase ---------------------------
(***************************************************************************)
(* backend/database.py: one SQLite connection (StaticPool) under every     *)
(* session of every thread.  A session has no transaction of its own: what *)
(* one flushes all others see, the commit of any session makes everything  *)
(* flushed so far durable, and the rollback of any session discards it.    *)
(* Every session ends with a rollback, because the pool resets the         *)
(* connection when it is returned; also one that only read.                *)
(***************************************************************************)
VARIABLES
  db,     \* the tables as every session sees them
  disk,   \* the tables as last committed
  dirty,  \* the sessions with flushed, uncommitted statements
  torn    \* a session has discarded what another one had flushed

connVars == <<db, disk, dirty, torn>>

DatabaseInit(tables) ==
  /\ db = tables
  /\ disk = tables
  /\ dirty = {}
  /\ torn = FALSE

Flush(session, tables) ==
  /\ db' = tables
  /\ dirty' = dirty \cup {session}
  /\ UNCHANGED <<disk, torn>>

CommitAll ==
  /\ disk' = db
  /\ dirty' = {}
  /\ UNCHANGED <<db, torn>>

RollbackAll(session) ==
  /\ db' = disk
  /\ dirty' = {}
  /\ torn' = (torn \/ dirty \ {session} # {})
  /\ UNCHANGED disk

\* The process dies and is started again.
Reopen ==
  /\ db' = disk
  /\ dirty' = {}
  /\ UNCHANGED <<disk, torn>>

=============================================================================
