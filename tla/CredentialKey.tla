--------------------------- MODULE CredentialKey ---------------------------
(***************************************************************************)
(* backend/security/crypto.py and its callers: the key file, the Fernet    *)
(* made from it on first use in a process, and the credentials stored      *)
(* under it by node requests and by the migration at the start.            *)
(*                                                                         *)
(* What a ciphertext says is left out: only the key it was made with       *)
(* matters.  A value that already is a ciphertext stays as it is.          *)
(***************************************************************************)
EXTENDS PanelThread

VARIABLES
  keyFile,  \* data/secret.key: absent, torn (not wholly written) or a key
  fernet    \* _fernet of the process

keyVars == <<keyFile, fernet>>

FindStep == {"key.check", "key.open", "key.write", "key.set"}
KeyStep  == {"key.find"} \cup FindStep
SaveStep == {"save.encrypt", "save.flush", "save.commit"}

KeyTypeOK ==
  /\ keyFile \in Key \cup {"torn", None}
  /\ fernet \in Key \cup {None}

KeyInit == keyFile = None /\ fernet = None

\* A key nobody has or has used: keys are random.
Unused(k) ==
  /\ k \notin {keyFile, fernet}
  /\ \A n \in Node : k \notin {db.cred[n], disk.cred[n]}
  /\ \A p \in Session : k # my[p].key

-----------------------------------------------------------------------------
(* _get_fernet and _load_or_create_key.                                    *)

\* The call itself, when nothing is loaded yet.
NeedsFernet(p, back) ==
  /\ fernet = None
  /\ my' = [my EXCEPT ![p].back = back]
  /\ Runs(p, "key.find")
  /\ UNCHANGED keyVars

\* A thread that finds no file while another has made a key, or is about to,
\* will make a second one.
KeyFinds(p) ==
  /\ at[p] = "key.find"
  /\ UNCHANGED <<connVars, trouble, keyVars>>
  /\ CASE keyFile = None ->
            /\ Goto(p, "key.check")
            /\ amiss' = IF fernet # None \/ \E u \in Session \ {p} : at[u] \in FindStep
                        THEN amiss \cup {"raced"} ELSE amiss
            /\ UNCHANGED my
       [] keyFile = "torn" -> Goto(p, "failed") /\ UNCHANGED <<my, amiss>>
       [] OTHER ->
            /\ Goto(p, "key.set")
            /\ my' = [my EXCEPT ![p].key = keyFile]
            /\ UNCHANGED amiss

\* Mutated form: the stored credentials are not looked at.
KeyChecks_Never(p) ==
  /\ at[p] = "key.check"
  /\ UNCHANGED <<keyVars, my>>
  /\ Reads(p, "key.open")

\* FernetKeyMissing when a ciphertext is stored; a table that cannot be read has none.
KeyChecks(p) ==
  /\ at[p] = "key.check"
  /\ UNCHANGED <<keyVars, my>>
  /\ \/ Reads(p, IF Ciphers(db) = {} THEN "key.open" ELSE "failed")
     \/ /\ Goto(p, "key.open")
        /\ Trouble /\ amiss' = amiss \cup {"unread"}
        /\ UNCHANGED connVars

\* Mutated form: the key is only kept in the process.
KeyWrites_Nothing(p) ==
  /\ at[p] = "key.open"
  /\ Runs(p, "key.set")
  /\ \E k \in Key : Unused(k) /\ my' = [my EXCEPT ![p].key = k]
  /\ UNCHANGED keyVars

\* write_bytes empties the file and then fills it.
KeyWrites(p) ==
  /\ UNCHANGED fernet
  /\ \/ /\ at[p] = "key.open"
        /\ keyFile' = "torn"
        /\ Runs(p, "key.write")
        /\ UNCHANGED my
     \/ /\ at[p] = "key.write"
        /\ \E k \in Key : /\ Unused(k)
                          /\ keyFile' = k
                          /\ my' = [my EXCEPT ![p].key = k]
        /\ Runs(p, "key.set")

KeySets(p) ==
  /\ at[p] = "key.set"
  /\ fernet' = my[p].key
  /\ my' = [my EXCEPT ![p].key = None, ![p].back = "none"]
  /\ Runs(p, my[p].back)
  /\ UNCHANGED keyFile

GetsFernet(p) == KeyFinds(p) \/ KeyChecks(p) \/ KeyWrites(p) \/ KeySets(p)

-----------------------------------------------------------------------------
(* encrypt and decrypt, in create_node, update_node and _connect.          *)

SaveEncrypts(t) ==
  /\ at[t] = "save.encrypt"
  /\ \/ NeedsFernet(t, "save.encrypt")
     \/ /\ fernet # None
        /\ my' = [my EXCEPT ![t].key = fernet]
        /\ Runs(t, "save.flush")
        /\ UNCHANGED keyVars

SaveCommits(t) ==
  /\ UNCHANGED keyVars
  /\ \/ /\ at[t] = "save.flush"
        /\ Writes(t, [db EXCEPT !.cred[my[t].node] = my[t].key], "save.commit")
        /\ UNCHANGED my
     \/ at[t] = "save.commit" /\ ((Commits(t, "close") /\ Forgets(t)) \/ CommitFails(t))

\* A connection to a node: plain text is used as it is, a wrong key gives no password.
Uses(t) ==
  /\ at[t] = "use"
  /\ \/ my[t].node \in Ciphers(db) /\ NeedsFernet(t, "use")
     \/ /\ my[t].node \in Ciphers(db) => fernet # None
        /\ Runs(t, "close")
        /\ UNCHANGED <<keyVars, my>>

-----------------------------------------------------------------------------
(* migrate_plaintext_credentials, by the main thread before it serves.     *)

Plain == {n \in Node : db.cred[n] = "plain"}

Migrates(p) ==
  /\ UNCHANGED keyVars
  /\ \/ /\ at[p] = "migrate" /\ Plain = {}
        /\ Runs(p, "serving")
        /\ UNCHANGED my
     \/ /\ at[p] = "migrate" /\ Plain # {} /\ fernet # None
        /\ Writes(p, [db EXCEPT !.cred = [n \in Node |-> IF n \in Plain THEN fernet ELSE @[n]]],
                  "migrate.commit")
        /\ UNCHANGED my
     \/ at[p] = "migrate.commit" /\ ((Commits(p, "serving") /\ Forgets(p)) \/ CommitFails(p))

MigrateLoads(p) == at[p] = "migrate" /\ Plain # {} /\ NeedsFernet(p, "migrate")

\* The key file is deleted, or a backup is restored without it.
KeyIsLost ==
  /\ keyFile \in Key
  /\ keyFile' = None
  /\ Trouble
  /\ amiss' = amiss \cup {"lost"}
  /\ UNCHANGED <<connVars, at, my, fernet>>

=============================================================================
