---------------------------- MODULE PanelProcess ----------------------------
(***************************************************************************)
(* The panel process: started by lifespan (backend/main.py), it makes the  *)
(* first administrator, encrypts what is still in plain text, and serves;  *)
(* it can be restarted at rest and die at any step.  AdminAccount and      *)
(* CredentialKey are the two components whose caches live as long as the   *)
(* process and whose truth is on the disk.                                 *)
(***************************************************************************)
EXTENDS AdminAccount, CredentialKey

vars == <<connVars, threadVars, adminVars, keyVars>>

MainStep == {"down", "admin", "tell", "migrate", "migrate.commit", "serving"}

TypeOK ==
  /\ {db, disk} \subseteq Tables
  /\ dirty \subseteq Session
  /\ torn \in BOOLEAN
  /\ at \in [Session -> {"idle", "close", "failed", "auth", "token", "use"} \cup JwtStep
               \cup SetupStep \cup ChangeStep \cup KeyStep \cup SaveStep \cup MainStep]
  /\ my \in [Session -> Memory]
  /\ amiss \subseteq {"shared", "overtaken", "unsaved", "untold", "lost", "unread", "raced"}
  /\ trouble \in 0..MaxTrouble
  /\ AdminTypeOK
  /\ KeyTypeOK

\* A new installation, or one from before credentials were encrypted.
Init ==
  /\ \E cred \in [Node -> {"plain", None}] :
       DatabaseInit([admin |-> FALSE, pwd |-> None, must |-> None, secret |-> None, cred |-> cred])
  /\ ThreadInit
  /\ AdminInit
  /\ KeyInit

-----------------------------------------------------------------------------
\* Only the cookie's secret matters; the panel has to have signed it.
BeginRequest(t) ==
  /\ \E kind \in {"change", "save", "use"}, c \in signed, n \in Node :
       /\ kind = "use" => db.cred[n] # None
       /\ Begins(t, "auth", [Blank EXCEPT !.kind = kind, !.cookie = c,
                                !.node = IF kind = "change" THEN None ELSE n])
  /\ UNCHANGED <<adminVars, keyVars>>

Start ==
  /\ at[Main] = "down"
  /\ Runs(Main, "admin")
  /\ UNCHANGED <<my, adminVars, keyVars>>

\* Everything the process held is gone.
Exits ==
  /\ Reopen
  /\ at' = [p \in Session |-> IF p = Main THEN "down" ELSE "idle"]
  /\ my' = [p \in Session |-> Blank]
  /\ cache' = None /\ fernet' = None
  /\ UNCHANGED <<signed, revoked, told, keyFile>>

\* systemctl restart of a panel at rest, or sys.exit(1) of one that could not start.
Stops ==
  /\ Quiet \/ at[Main] = "failed"
  /\ Exits
  /\ UNCHANGED <<amiss, trouble>>

Crashes ==
  /\ ~ Quiet /\ at[Main] \notin {"down", "failed"}
  /\ Exits
  /\ amiss' = IF at[Main] = "tell" THEN amiss \cup {"untold"} ELSE amiss
  /\ Trouble

AdminStep(t) ==
  /\ \/ BeginLogin(t) \/ BeginSetup(t) \/ Signs(t) \/ Authenticates(t)
     \/ GetsSecret(t) \/ SetupRuns(t) \/ Change(t)
  /\ UNCHANGED keyVars

Next ==
  \/ \E t \in Thread : BeginRequest(t) \/ AdminStep(t)
  \/ \E t \in Thread : (SaveEncrypts(t) \/ SaveCommits(t) \/ Uses(t)) /\ UNCHANGED adminVars
  \/ \E p \in Session : GetsFernet(p) /\ UNCHANGED adminVars
  \/ \E t \in Thread : Close(t) /\ UNCHANGED <<adminVars, keyVars>>
  \/ (FirstAdmin(Main) \/ TellsPassword(Main)) /\ UNCHANGED keyVars
  \/ (Migrates(Main) \/ MigrateLoads(Main) \/ KeyIsLost) /\ UNCHANGED adminVars
  \/ OtherSessionEnds /\ UNCHANGED <<adminVars, keyVars>>
  \/ Start \/ Stops \/ Crashes

Spec == Init /\ [][Next]_vars

-----------------------------------------------------------------------------
(***************************************************************************)
(* Everything below is said of runs in which nothing of the named kind has *)
(* gone amiss so far:                                                      *)
(*   shared     a session ended while statements of another were flushed   *)
(*   overtaken  a thread filled the secret cache after another had         *)
(*   unsaved    a commit failed that others, or the cache, already relied on*)
(*   untold     the first start died before the password was written       *)
(*   lost       the key file was deleted                                   *)
(*   unread     the nodes could not be read when the key was missing       *)
(*   raced      a thread found no key file beside another's new key        *)
(***************************************************************************)
Without(kinds) == amiss \cap kinds = {}

(***************************************************************************)
(* auth.py: a password change makes all old tokens invalid at once.  None  *)
(* that was signed before the change is accepted again, by this process or *)
(* by one started later from the disk, wherever a crash cuts in.           *)
(***************************************************************************)
OldTokensStayDead ==
  Without({"shared", "overtaken"}) => cache \notin revoked /\ disk.secret \notin revoked

(***************************************************************************)
(* auth.py: a restart throws nobody out.  At rest the cached secret is the *)
(* stored one, so the tokens accepted now are accepted after a restart.    *)
(***************************************************************************)
RestartKeepsSessions ==
  Quiet /\ Without({"shared", "overtaken", "unsaved"}) => cache \in {None, disk.secret}

(***************************************************************************)
(* The rows of the account are stored together: a served panel has an      *)
(* administrator with a password or asks for one; the first password was   *)
(* written down, and the panel insists on its change until it is changed.  *)
(***************************************************************************)
AccountIsWhole ==
  Without({"shared"}) =>
    /\ disk.admin <=> disk.pwd # None
    /\ disk.must = "1" <=> disk.pwd = First
    /\ Serving /\ disk.pwd = First => told \/ "untold" \in amiss

(***************************************************************************)
(* Whatever dies in between, a stored credential can be read with the key  *)
(* on the disk.                                                            *)
(***************************************************************************)
CredentialsAreReadable ==
  Without({"lost", "raced"}) =>
    \A n \in Ciphers(disk) : disk.cred[n] = keyFile

(***************************************************************************)
(* crypto.py: a new key never silently replaces one that credentials are   *)
(* stored under, also not after the file was lost (unless the stored ones  *)
(* could not be read just then, or two threads make a key at once).        *)
(***************************************************************************)
LostKeyIsNotReplaced ==
  [][Without({"unread", "raced"}) /\ keyFile' \in Key \ {keyFile} => Ciphers(disk) = {}]_vars

=============================================================================
