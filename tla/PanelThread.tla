---------------------------- MODULE PanelThread ----------------------------
(***************************************************************************)
(* The threads of the panel process: the main thread, which starts the     *)
(* panel (lifespan in backend/main.py), and the worker threads, which each *)
(* run one HTTP request after another with a session on the connection     *)
(* they all share.  What a request remembers is kept in my[t].             *)
(***************************************************************************)
EXTENDS SharedDatabase, Naturals, FiniteSets

CONSTANTS
  Thread,     \* worker threads
  Node,       \* rows of the nodes table
  Password,   \* passwords the administrator chooses
  Secret,     \* JWT secrets
  Key,        \* Fernet keys
  MaxTrouble, \* how often the process dies or something outside fails
  None

VARIABLES
  at,      \* the next step of a thread
  my,      \* what its request remembers
  amiss,   \* what has gone wrong so far, see the properties
  trouble  \* how often something from outside did

threadVars == <<at, my, amiss, trouble>>

Main    == "main"
First   == "first"  \* the password made by the first start
Session == Thread \cup {Main}

\* The tags are not among the values they stand beside.
ASSUME ThreadAssumption ==
  /\ None \notin Thread \cup Password \cup Secret \cup Key
             \cup {Main, First, "plain", "torn", "0", "1"}
  /\ Main \notin Thread /\ First \notin Password /\ {"plain", "torn"} \cap Key = {}
  /\ MaxTrouble \in Nat

\* settings: admin_username, admin_password_hash, admin_must_change_password,
\* jwt_secret; nodes: a stored credential, under a key or still in plain text.
Tables ==
  [admin : BOOLEAN, pwd : Password \cup {First, None}, must : {None, "0", "1"},
   secret : Secret \cup {None}, cred : [Node -> Key \cup {"plain", None}]]

Ciphers(t) == {n \in Node : t.cred[n] \in Key}

Memory ==
  [kind : {"none", "login", "setup", "change", "save", "use"},
   back : {"none", "token", "auth", "save.encrypt", "use", "migrate"},  \* where a call returns to
   cookie : Secret \cup {None}, pwd : Password \cup {First, None},
   sec : Secret \cup {None}, row : BOOLEAN, olds : SUBSET Secret,
   node : Node \cup {None}, key : Key \cup {None}]

Blank == [kind |-> "none", back |-> "none", cookie |-> None, pwd |-> None,
          sec |-> None, row |-> FALSE, olds |-> {}, node |-> None, key |-> None]

ThreadInit ==
  /\ at = [p \in Session |-> IF p = Main THEN "down" ELSE "idle"]
  /\ my = [p \in Session |-> Blank]
  /\ amiss = {}
  /\ trouble = 0

Serving == at[Main] = "serving"
Quiet   == Serving /\ \A t \in Thread : at[t] = "idle"

-----------------------------------------------------------------------------
Goto(p, step) == at' = [at EXCEPT ![p] = step]
Trouble       == trouble < MaxTrouble /\ trouble' = trouble + 1

\* A step of p that leaves the database alone.
Runs(p, step) == Goto(p, step) /\ UNCHANGED <<connVars, amiss, trouble>>

\* A request begins, with what it was sent.
Begins(t, step, memory) ==
  /\ Serving /\ at[t] = "idle"
  /\ my' = [my EXCEPT ![t] = memory]
  /\ Runs(t, step)

\* A statement of p's session.
Writes(p, tables, step) == Flush(p, tables) /\ Goto(p, step) /\ UNCHANGED <<amiss, trouble>>

\* An INSERT for a row that is there by now, or an UPDATE for one that is gone, fails.
Fits(p, column) == my[p].row = (column # None)

Besides(p) == amiss' = IF dirty \ {p} = {} THEN amiss ELSE amiss \cup {"shared"}

Commits(p, step) == CommitAll /\ Besides(p) /\ Goto(p, step) /\ UNCHANGED trouble
Forgets(t)       == my' = [my EXCEPT ![t] = Blank]

\* The session of a short read ends.
Reads(p, step) == RollbackAll(p) /\ Besides(p) /\ Goto(p, step) /\ UNCHANGED trouble

\* An exception or the answer: the session ends, and with it the request.
Ends(t) == Reads(t, "idle") /\ Forgets(t)

\* The main thread does not survive an exception: the process exits.
Fails(p) ==
  /\ Goto(p, "failed")
  /\ UNCHANGED <<connVars, my, amiss, trouble>>

Close(t) == t \in Thread /\ at[t] \in {"failed", "close"} /\ Ends(t)

\* The commit of p fails; its request ends with an exception.
CommitFails(p) ==
  /\ Goto(p, "failed")
  /\ Trouble /\ amiss' = amiss \cup {"unsaved"}
  /\ UNCHANGED <<connVars, my>>

(***************************************************************************)
(* Any other session ends: the middleware's of some HTTP request, with a   *)
(* rollback, or an agent's ping, with a commit.                            *)
(***************************************************************************)
OtherSessionEnds ==
  /\ Serving
  /\ RollbackAll(None) \/ CommitAll
  /\ Besides(None)
  /\ dirty # {}
  /\ UNCHANGED <<at, my, trouble>>

=============================================================================
