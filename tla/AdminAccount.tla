---------------------------- MODULE AdminAccount ----------------------------
(***************************************************************************)
(* backend/api/auth.py and firstrun.py: the administrator's account in the *)
(* settings table, the JWT secret and the copy of it the process caches,   *)
(* and the tokens signed with it.                                          *)
(*                                                                         *)
(* A token is the secret that signed it; expiry (30 days), the user's name *)
(* and the checks of lengths are left out.                                 *)
(***************************************************************************)
EXTENDS PanelThread

VARIABLES
  cache,    \* _JWT_SECRET_CACHE
  signed,   \* the secrets that have signed tokens
  revoked,  \* those of them from before a password change that was confirmed
  told      \* the first password has been written down

adminVars == <<cache, signed, revoked, told>>

JwtStep    == {"jwt.read", "jwt.again", "jwt.flush", "jwt.commit", "jwt.fill"}
SetupStep  == {"setup.user", "setup.pwd", "setup.commit"}
ChangeStep == {"change.verify", "change.pwd", "change.must", "change.rotate",
               "change.secret", "change.commit"}

AdminTypeOK ==
  /\ cache \in Secret \cup {None}
  /\ signed \subseteq Secret
  /\ revoked \subseteq Secret
  /\ told \in BOOLEAN

AdminInit == cache = None /\ signed = {} /\ revoked = {} /\ told = FALSE

\* secrets.token_urlsafe gives a secret nobody has.
Fresh(s) ==
  /\ s \notin {cache, db.secret, disk.secret} \cup signed
  /\ \A p \in Session : s # my[p].sec

-----------------------------------------------------------------------------
(* jwt_secret and get_jwt_secret.                                          *)

NeedsSecret(t, back) ==
  /\ cache = None
  /\ my' = [my EXCEPT ![t].back = back]
  /\ Runs(t, "jwt.read")
  /\ UNCHANGED adminVars

\* Mutated form: a new secret is used without being stored.
JwtReads_NotStored(t) ==
  /\ at[t] = "jwt.read"
  /\ UNCHANGED adminVars
  /\ Runs(t, "jwt.fill")
  /\ IF db.secret # None THEN my' = [my EXCEPT ![t].sec = db.secret]
     ELSE \E s \in Secret : Fresh(s) /\ my' = [my EXCEPT ![t].sec = s]

JwtReads(t) ==
  /\ at[t] = "jwt.read"
  /\ UNCHANGED adminVars
  /\ IF db.secret # None
     THEN Runs(t, "jwt.fill") /\ my' = [my EXCEPT ![t].sec = db.secret]
     ELSE /\ Runs(t, "jwt.again")
          /\ \E s \in Secret : Fresh(s) /\ my' = [my EXCEPT ![t].sec = s]

\* The row is looked up once more, then inserted or updated.
JwtStores(t) ==
  /\ UNCHANGED adminVars
  /\ \/ /\ at[t] = "jwt.again"
        /\ my' = [my EXCEPT ![t].row = db.secret # None]
        /\ Runs(t, "jwt.flush")
     \/ /\ at[t] = "jwt.flush"
        /\ IF Fits(t, db.secret)
           THEN Writes(t, [db EXCEPT !.secret = my[t].sec], "jwt.commit") /\ UNCHANGED my
           ELSE Fails(t)
     \/ at[t] = "jwt.commit" /\ ((Commits(t, "jwt.fill") /\ UNCHANGED my) \/ CommitFails(t))

\* The cache may have been filled, or changed, since it was found empty.
JwtFills(t) ==
  /\ at[t] = "jwt.fill"
  /\ cache' = my[t].sec
  /\ amiss' = IF cache \in {None, my[t].sec} THEN amiss ELSE amiss \cup {"overtaken"}
  /\ my' = [my EXCEPT ![t].sec = None, ![t].row = FALSE, ![t].back = "none"]
  /\ Goto(t, my[t].back)
  /\ UNCHANGED <<connVars, trouble, signed, revoked, told>>

GetsSecret(t) == JwtReads(t) \/ JwtStores(t) \/ JwtFills(t)

\* _make_token, the last thing a login, a setup or a change does.
Signs(t) ==
  /\ at[t] = "token"
  /\ \/ NeedsSecret(t, "token")
     \/ /\ cache # None
        /\ signed' = signed \cup {cache}
        /\ Runs(t, "close")
        /\ UNCHANGED <<my, cache, revoked, told>>

\* auth_middleware and _require_user: the cookie must verify under the cache.
Authenticates(t) ==
  /\ at[t] = "auth"
  /\ \/ NeedsSecret(t, "auth")
     \/ /\ cache # None
        /\ Runs(t, IF my[t].cookie # cache THEN "close"
                   ELSE CASE my[t].kind = "change" -> "change.verify"
                          [] my[t].kind = "save"   -> "save.encrypt"
                          [] my[t].kind = "use"    -> "use")
        /\ my' = [my EXCEPT ![t].cookie = None]
        /\ UNCHANGED adminVars

-----------------------------------------------------------------------------
(* login, setup.                                                           *)

BeginLogin(t) ==
  /\ db.admin /\ db.pwd # None
  /\ Begins(t, "token", [Blank EXCEPT !.kind = "login"])
  /\ UNCHANGED adminVars

\* The password is hashed between the check and the first statement.
BeginSetup(t) ==
  /\ ~ db.admin
  /\ \E p \in Password : Begins(t, "setup.user", [Blank EXCEPT !.kind = "setup", !.pwd = p])
  /\ UNCHANGED adminVars

\* The look-up of the password's row flushes the name.
SetupRuns(t) ==
  /\ UNCHANGED adminVars
  /\ \/ /\ at[t] = "setup.user"
        /\ Writes(t, [db EXCEPT !.admin = TRUE], "setup.pwd")
        /\ my' = [my EXCEPT ![t].row = db.pwd # None]
     \/ /\ at[t] = "setup.pwd"
        /\ IF Fits(t, db.pwd)
           THEN Writes(t, [db EXCEPT !.pwd = my[t].pwd], "setup.commit") /\ UNCHANGED my
           ELSE Fails(t)
     \/ at[t] = "setup.commit" /\ ((Commits(t, "token") /\ Forgets(t)) \/ CommitFails(t))

-----------------------------------------------------------------------------
(* change-password: each look-up of a row flushes what was set before it.  *)

ChangeVerifies(t) ==
  /\ at[t] = "change.verify"
  /\ UNCHANGED adminVars
  /\ IF db.pwd # None
     THEN \E p \in Password \ {db.pwd} :
            my' = [my EXCEPT ![t].pwd = p] /\ Runs(t, "change.pwd")
     ELSE Runs(t, "close") /\ UNCHANGED my

ChangeSetsPassword(t) ==
  /\ at[t] = "change.pwd"
  /\ UNCHANGED adminVars
  /\ IF db.pwd # None
     THEN /\ Writes(t, [db EXCEPT !.pwd = my[t].pwd], "change.must")
          /\ my' = [my EXCEPT ![t].row = db.must # None]
     ELSE Fails(t)

\* Mutated form: the flag stays.
ChangeClearsMust_Not(t) ==
  /\ at[t] = "change.must"
  /\ Runs(t, "change.rotate")
  /\ my' = [my EXCEPT ![t].row = db.secret # None]
  /\ UNCHANGED adminVars

\* Mutated form: the flag is emptied.
ChangeClearsMust_Empty(t) ==
  /\ at[t] = "change.must"
  /\ Writes(t, [db EXCEPT !.must = ""], "change.rotate")
  /\ my' = [my EXCEPT ![t].row = db.secret # None]
  /\ UNCHANGED adminVars

ChangeClearsMust(t) ==
  /\ at[t] = "change.must"
  /\ UNCHANGED adminVars
  /\ IF Fits(t, db.must)
     THEN /\ Writes(t, [db EXCEPT !.must = "0"], "change.rotate")
          /\ my' = [my EXCEPT ![t].row = db.secret # None]
     ELSE Fails(t)

\* Mutated form: the secret stays.
ChangeRotates_Not(t) ==
  /\ at[t] = "change.rotate"
  /\ my' = [my EXCEPT ![t].olds = signed]
  /\ Runs(t, "change.commit")
  /\ UNCHANGED adminVars

\* _rotate_jwt_secret: the cache is replaced before anything is stored.
ChangeRotates(t) ==
  /\ at[t] = "change.rotate"
  /\ \E s \in Secret :
       /\ Fresh(s)
       /\ cache' = s
       /\ my' = [my EXCEPT ![t].sec = s, ![t].olds = signed]
  /\ Runs(t, "change.secret")
  /\ UNCHANGED <<signed, revoked, told>>

ChangeStores(t) ==
  /\ at[t] = "change.secret"
  /\ UNCHANGED adminVars
  /\ IF Fits(t, db.secret)
     THEN Writes(t, [db EXCEPT !.secret = my[t].sec], "change.commit") /\ UNCHANGED my
     ELSE Fails(t)

\* From here on the answer is a success.
ChangeCommits(t) ==
  /\ at[t] = "change.commit"
  /\ UNCHANGED <<cache, signed, told>>
  /\ \/ Commits(t, "token") /\ Forgets(t) /\ revoked' = revoked \cup my[t].olds
     \/ CommitFails(t) /\ UNCHANGED revoked

Change(t) ==
  \/ ChangeVerifies(t) \/ ChangeSetsPassword(t) \/ ChangeClearsMust(t)
  \/ ChangeRotates(t) \/ ChangeStores(t) \/ ChangeCommits(t)

-----------------------------------------------------------------------------
(* ensure_default_admin, by the main thread before it serves.              *)

\* Nothing else runs yet: the three rows are one transaction.  An error is only logged.
FirstAdmin(p) ==
  /\ at[p] = "admin"
  /\ UNCHANGED <<my, adminVars>>
  /\ \/ db.admin /\ Runs(p, "migrate")
     \/ /\ ~ db.admin
        /\ db' = [db EXCEPT !.admin = TRUE, !.pwd = First, !.must = "1"]
        /\ disk' = db'
        /\ Goto(p, "tell")
        /\ UNCHANGED <<dirty, torn, amiss, trouble>>
     \/ /\ ~ db.admin
        /\ Trouble
        /\ Goto(p, "migrate")
        /\ UNCHANGED <<connVars, amiss>>

\* The file and the journal.
TellsPassword(p) ==
  /\ at[p] = "tell"
  /\ told' = TRUE
  /\ Runs(p, "migrate")
  /\ UNCHANGED <<my, cache, signed, revoked>>

=============================================================================
