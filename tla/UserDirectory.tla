---------------------------- MODULE UserDirectory ----------------------------
(***************************************************************************)
(* The accounts of the web server and the passwords that open them:        *)
(* signing up (routes/auth/signUp.js), signing in (signIn.js), which        *)
(* creates an account for whoever the LDAP directory knows (lib/ldap.js),  *)
(* changing a password (routes/user/changePassword.js) and deleting an     *)
(* account (routes/user/user.js).                                          *)
(*                                                                         *)
(* Each request looks at a row in one statement, works on it for a while   *)
(* (bcrypt, LDAP), and writes in another; only AddNewUserExecutor uses a   *)
(* transaction, for the row in users and its rows in                       *)
(* userEmailNotifications.  Accounts are named by the request that created *)
(* them, as userId is.  A hash stands for its password.                    *)
(***************************************************************************)
EXTENDS Naturals, FiniteSets

\* (Operators named Bug... are slips of the code one definition further down
\* could suffer; each is used to show that a property would notice.)

CONSTANTS
  Requests,   \* requests to the web server
  KindsOf,    \* what each request may be
  Names,      \* usernames
  Passwords,
  None,       \* no account, no password, no target
  Types,      \* rows of emailNotificationTypes
  PoolSize,   \* connectionLimit of the pool
  MaxFaults,  \* bound on failing statements, hashes and binds, and crashes
  MaxActs     \* bound on deletions and changes of the LDAP directory

Kinds == {"signUp", "signIn", "change"}

Accounts == [name : Names, pwd : Passwords \cup {None}, ldapAuth : BOOLEAN,
             deleted : BOOLEAN]
Asked    == [kind : Kinds, name : Names, password : Passwords,
             new : Passwords, id : Requests]

ASSUME DirectoryAssumption ==
  /\ KindsOf \in [Requests -> SUBSET Kinds]
  /\ None \notin Passwords \cup Requests \cup Names \cup Accounts \cup Asked
  /\ PoolSize \in Nat \ {0}
  /\ MaxFaults \in Nat
  /\ MaxActs \in Nat

VARIABLES
  users,      \* committed rows of table users
  notes,      \* the notification types each account has committed rows for
  directory,  \* the LDAP password of each name
  pc,         \* where each request is, or its answer
  req,        \* what it asks for
  seen,       \* the row it works with (user, newUser)
  conns,      \* requests that hold a connection
  inserted,   \* requests whose open transaction has inserted seen
  added,      \* notification rows of that transaction
  \* history
  knew,       \* requests whose password was good at some time since they came
  alive,      \* requests whose account was there undeleted at some such time
  unclear,    \* requests whose statement worked although it was reported to fail
  faults, acts

dbVars  == <<users, notes, unclear>>
txVars  == <<conns, inserted, added>>
vars    == <<users, notes, directory, pc, req, seen, conns, inserted, added,
             knew, alive, unclear, faults, acts>>

Answers == {"ok", "token", "error", "lost"}
Places  == {"new", "look", "hash", "fetch", "verify", "update",
            "connect", "insert", "types", "note", "commit", "rollback", "release"}

TypeOK ==
  /\ users \in [Requests -> Accounts \cup {None}]
  /\ notes \in [Requests -> SUBSET Types]
  /\ directory \in [Names -> Passwords \cup {None}]
  /\ pc \in [Requests -> Places \cup Answers]
  /\ req \in [Requests -> Asked \cup {None}]
  /\ seen \in [Requests -> Accounts \cup {None}]
  /\ conns \subseteq Requests /\ Cardinality(conns) <= PoolSize
  /\ inserted \subseteq conns
  /\ added \in [Requests -> SUBSET Types]
  /\ knew \subseteq Requests /\ alive \subseteq Requests
  /\ unclear \subseteq Requests
  /\ faults \in 0..MaxFaults
  /\ acts \in 0..MaxActs

Known == {i \in Requests : users[i] # None}
Named(n) == {i \in Known : users[i].name = n}

Init ==
  /\ users = [i \in Requests |-> None]
  /\ notes = [i \in Requests |-> {}]
  /\ directory \in [Names -> Passwords \cup {None}]
  /\ pc = [r \in Requests |-> "new"]
  /\ req = [r \in Requests |-> None]
  /\ seen = [r \in Requests |-> None]
  /\ conns = {} /\ inserted = {}
  /\ added = [r \in Requests |-> {}]
  /\ knew = {} /\ alive = {} /\ unclear = {}
  /\ faults = 0 /\ acts = 0

Fault == faults < MaxFaults /\ faults' = faults + 1
Sound == UNCHANGED faults

At(r, here)   == pc[r] = here
Is(r, kind)   == req[r].kind = kind
Goto(r, next) == pc' = [pc EXCEPT ![r] = next]

PoolHasRoom == Cardinality(conns) < PoolSize

-----------------------------------------------------------------------------
(* What the request asks, and a look at the row. *)

Come(r) ==
  /\ At(r, "new")
  /\ \E q \in Asked :
       /\ q.kind \in KindsOf[r]
       /\ q.kind = "change" => q.id \in Known /\ q.name = users[q.id].name
       /\ q.kind # "change" => q.id = r /\ q.new = q.password
       /\ req' = [req EXCEPT ![r] = q]
  /\ Goto(r, "look")
  /\ UNCHANGED <<directory, seen, faults, acts>>
  /\ UNCHANGED dbVars /\ UNCHANGED txVars

\* One statement on a connection of its own.
Looks(r, kind) == At(r, "look") /\ Is(r, kind) /\ PoolHasRoom

LookFails(r) ==
  /\ At(r, "look") /\ Fault
  /\ Goto(r, "error")
  /\ UNCHANGED <<directory, req, seen, acts>>
  /\ UNCHANGED dbVars /\ UNCHANGED txVars

\* async.parallel: the name must be free, and the password is hashed.
SignUp(r) ==
  /\ Looks(r, "signUp")
  /\ Goto(r, IF Named(req[r].name) = {} THEN "hash" ELSE "error")
  /\ UNCHANGED <<directory, req, seen, faults, acts>>
  /\ UNCHANGED dbVars /\ UNCHANGED txVars

\* Of an unknown name the directory is asked.
SignIn(r) ==
  /\ Looks(r, "signIn")
  /\ \/ /\ Named(req[r].name) = {}
        /\ Goto(r, "fetch")
        /\ UNCHANGED seen
     \/ \E i \in Named(req[r].name) :
          /\ seen' = [seen EXCEPT ![r] = users[i]]
          /\ Goto(r, "verify")
  /\ UNCHANGED <<directory, req, faults, acts>>
  /\ UNCHANGED dbVars /\ UNCHANGED txVars

BugAnyPassword(user, password) == ~user.deleted /\ ~user.ldapAuth

\* Deleted accounts and those of the directory have no password to change.
MayChange(user, password) ==
  ~user.deleted /\ ~user.ldapAuth /\ user.pwd = password

ChangePassword(r) ==
  /\ Looks(r, "change")
  /\ LET user == users[req[r].id] IN
       /\ seen' = [seen EXCEPT ![r] = user]
       /\ Goto(r, IF MayChange(user, req[r].password) THEN "hash" ELSE "error")
  /\ UNCHANGED <<directory, req, faults, acts>>
  /\ UNCHANGED dbVars /\ UNCHANGED txVars

NewUser(r) == [name |-> req[r].name, pwd |-> req[r].password,
               ldapAuth |-> FALSE, deleted |-> FALSE]

Hash(r) ==
  /\ At(r, "hash")
  /\ \/ /\ Sound
        /\ IF Is(r, "change")
             THEN Goto(r, "update") /\ UNCHANGED seen
             ELSE /\ Goto(r, "connect")
                  /\ seen' = [seen EXCEPT ![r] = NewUser(r)]
     \/ Fault /\ Goto(r, "error") /\ UNCHANGED seen
  /\ UNCHANGED <<directory, req, acts>>
  /\ UNCHANGED dbVars /\ UNCHANGED txVars

\* UPDATE users SET pwd=? WHERE userId=?, whatever became of the row meanwhile;
\* the third outcome: it works, but the connection breaks.
Update(r) ==
  /\ At(r, "update") /\ PoolHasRoom
  /\ \/ Sound /\ Goto(r, "ok") /\ UNCHANGED unclear
     \/ Fault /\ Goto(r, "error") /\ unclear' = unclear \cup {r}
     \/ Fault /\ Goto(r, "error") /\ UNCHANGED unclear
  /\ users' = IF pc'[r] = "ok" \/ r \in unclear'
                THEN [users EXCEPT ![req[r].id].pwd = req[r].new]
                ELSE users
  /\ UNCHANGED <<notes, directory, req, seen, acts>>
  /\ UNCHANGED txVars

-----------------------------------------------------------------------------
(* Whose account it is: the LDAP directory, or the hash. *)

Binds(r) == directory[req[r].name] = req[r].password

LdapUser(r) == [name |-> req[r].name, pwd |-> None,
                ldapAuth |-> TRUE, deleted |-> FALSE]

\* fetchUserDetailsFromLdap; an entry that lacks what an account needs, or an
\* answer without an entry, ends in an error too.
Fetch(r) ==
  /\ At(r, "fetch")
  /\ \/ /\ Binds(r) /\ Sound
        /\ seen' = [seen EXCEPT ![r] = LdapUser(r)]
        /\ Goto(r, "connect")
     \/ ~Binds(r) /\ Sound /\ Goto(r, "error") /\ UNCHANGED seen
     \/ Fault /\ Goto(r, "error") /\ UNCHANGED seen
  /\ UNCHANGED <<directory, req, acts>>
  /\ UNCHANGED dbVars /\ UNCHANGED txVars

BugDeletedToo(r) ==
  IF seen[r].ldapAuth THEN Binds(r) ELSE seen[r].pwd = req[r].password

\* The account as it was when it was looked up.
Opens(r) ==
  /\ ~seen[r].deleted
  /\ IF seen[r].ldapAuth THEN Binds(r) ELSE seen[r].pwd = req[r].password

Verify(r) ==
  /\ At(r, "verify")
  /\ \/ Sound /\ Goto(r, IF Opens(r) THEN "token" ELSE "error")
     \/ Fault /\ Goto(r, "error")
  /\ UNCHANGED <<directory, req, seen, acts>>
  /\ UNCHANGED dbVars /\ UNCHANGED txVars

-----------------------------------------------------------------------------
(* AddNewUserExecutor.proceed *)

\* ... and BEGIN, whose failure is rolled back like that of the INSERT.
GetConnection(r) ==
  /\ At(r, "connect")
  /\ \/ /\ PoolHasRoom /\ Sound
        /\ conns' = conns \cup {r}
        /\ Goto(r, "insert")
     \/ Fault /\ Goto(r, "error") /\ UNCHANGED conns
  /\ UNCHANGED <<directory, req, seen, inserted, added, acts>>
  /\ UNCHANGED dbVars

Inserting(n) == {s \in inserted : seen[s].name = n}

BugNotUnique(r) == TRUE

\* UNIQUE (username)
IsUnique(r) == Named(seen[r].name) = {}

\* INSERT INTO users waits while another transaction has inserted the name.
Insert(r) ==
  /\ At(r, "insert")
  /\ \/ /\ Sound
        /\ Inserting(seen[r].name) = {}
        /\ IF IsUnique(r)
             THEN inserted' = inserted \cup {r} /\ Goto(r, "types")
             ELSE UNCHANGED inserted /\ Goto(r, "rollback")
     \/ Fault /\ Goto(r, "rollback") /\ UNCHANGED inserted
  /\ UNCHANGED <<directory, req, seen, conns, added, acts>>
  /\ UNCHANGED dbVars

\* async.eachSeries over the types
AfterNote(r, done) == IF done = Types THEN "commit" ELSE "note"

SelectTypes(r) ==
  /\ At(r, "types")
  /\ \/ Sound /\ Goto(r, IF Types = {} THEN "rollback" ELSE "note")
     \/ Fault /\ Goto(r, "rollback")
  /\ UNCHANGED <<directory, req, seen, acts>>
  /\ UNCHANGED dbVars /\ UNCHANGED txVars

\* One type after the other; a type without a default in mailing.json is a
\* fault as well.
InsertNote(r) ==
  /\ At(r, "note")
  /\ \E t \in Types \ added[r] :
       \/ /\ Sound
          /\ added' = [added EXCEPT ![r] = @ \cup {t}]
          /\ Goto(r, AfterNote(r, added'[r]))
       \/ /\ Fault
          /\ Goto(r, "rollback")
          /\ UNCHANGED added
  /\ UNCHANGED <<directory, req, seen, conns, inserted, acts>>
  /\ UNCHANGED dbVars

Committed(r) ==
  /\ users' = [users EXCEPT ![r] = seen[r]]
  /\ notes' = [notes EXCEPT ![r] = added[r]]
  /\ inserted' = inserted \ {r}
  /\ added' = [added EXCEPT ![r] = {}]

\* The third outcome: the connection breaks after the database committed.
Commit(r) ==
  /\ At(r, "commit")
  /\ \/ /\ Sound /\ Committed(r)
        /\ Goto(r, "release")
        /\ UNCHANGED unclear
     \/ /\ Fault
        /\ Goto(r, "rollback")
        /\ UNCHANGED <<users, notes, inserted, added, unclear>>
     \/ /\ Fault /\ Committed(r)
        /\ Goto(r, "rollback")
        /\ unclear' = unclear \cup {r}
  /\ UNCHANGED <<directory, req, seen, conns, acts>>

BugLeftOpen(r) == inserted

\* The rows of the open transaction are gone, and the name is free.
RolledBack(r) == inserted \ {r}

Rollback(r) ==
  /\ At(r, "rollback")
  /\ conns' = conns \ {r}
  /\ inserted' = RolledBack(r)
  /\ added' = [added EXCEPT ![r] = {}]
  /\ Goto(r, "error")
  /\ UNCHANGED <<directory, req, seen, faults, acts>>
  /\ UNCHANGED dbVars

\* A new account of the directory is bound to once more before the token.
Release(r) ==
  /\ At(r, "release")
  /\ conns' = conns \ {r}
  /\ Goto(r, IF Is(r, "signUp") THEN "ok" ELSE "verify")
  /\ UNCHANGED <<directory, req, seen, inserted, added, faults, acts>>
  /\ UNCHANGED dbVars

Proceed(r) ==
  \/ LookFails(r) \/ SignUp(r) \/ SignIn(r) \/ ChangePassword(r)
  \/ Hash(r) \/ Update(r) \/ Fetch(r) \/ Verify(r)
  \/ GetConnection(r) \/ Insert(r) \/ SelectTypes(r) \/ InsertNote(r)
  \/ Commit(r) \/ Rollback(r) \/ Release(r)

-----------------------------------------------------------------------------
(* Everybody else. *)

Act == acts < MaxActs /\ acts' = acts + 1

\* An admin: UPDATE users SET deleted.
Delete(i) ==
  /\ Act
  /\ i \in Known
  /\ users' = [users EXCEPT ![i].deleted = TRUE]
  /\ UNCHANGED <<notes, unclear, directory, pc, req, seen, faults>>
  /\ UNCHANGED txVars

\* The directory is kept elsewhere.
DirectoryChanges(n, p) ==
  /\ Act
  /\ directory' = [directory EXCEPT ![n] = p]
  /\ UNCHANGED <<pc, req, seen, faults>>
  /\ UNCHANGED dbVars /\ UNCHANGED txVars

\* The node process dies; the database rolls back what it had open.
Crash ==
  /\ Fault
  /\ pc' = [r \in Requests |-> IF pc[r] \in Answers THEN pc[r] ELSE "lost"]
  /\ conns' = {} /\ inserted' = {}
  /\ added' = [r \in Requests |-> {}]
  /\ UNCHANGED <<directory, req, seen, acts>>
  /\ UNCHANGED dbVars

\* What the request was about, at this moment.
Target(r) ==
  {i \in Known : IF Is(r, "change") THEN i = req[r].id
                                    ELSE users[i].name = req[r].name}

Good(r)  == \E i \in Target(r) :
              IF users[i].ldapAuth THEN Binds(r)
                                   ELSE users[i].pwd = req[r].password
There(r) == \E i \in Target(r) : ~users[i].deleted

Remembered ==
  LET came == {r \in Requests : req'[r] # None} IN
    /\ knew' = knew \cup {r \in came : Good(r)'}
    /\ alive' = alive \cup {r \in came : There(r)'}

Step(r) == (Come(r) \/ Proceed(r)) /\ Remembered

Next ==
  \/ \E r \in Requests : Step(r)
  \/ \E i \in Requests : Delete(i) /\ Remembered
  \/ \E n \in Names, p \in Passwords \cup {None} :
       DirectoryChanges(n, p) /\ Remembered
  \/ Crash /\ Remembered

Spec == Init /\ [][Next]_vars

\* node's event loop, the database and the directory get around to everybody.
FairSpec == Spec /\ \A r \in Requests : WF_vars(Proceed(r) /\ Remembered)

-----------------------------------------------------------------------------
(* Properties *)

\* Sign-ups and first logins for one name race between the look and the
\* insert: a name still belongs to one account.
OneAccount ==
  \A i, j \in Known : users[i].name = users[j].name => i = j

\* An account comes with a row for every type of mail, which lib/mail.js and
\* routes/user/mail.js only ever update, and no rows are left by one that failed.
AccountComplete ==
  \A i \in Requests : notes[i] = IF i \in Known THEN Types ELSE {}

\* A name is one account, and the whole of it.
OneWholeAccount == OneAccount /\ AccountComplete

\* Who gets a token gave, since the request came, a password that was good and
\* named an account that was not deleted, if not at the same moment.
TokenIsDue ==
  \A r \in Requests : At(r, "token") => r \in knew \cap alive

\* A sign-up is answered "ok" only if the account is there, and by an error
\* only if it is not, unless the answer of the database was lost.
SignUpIsTrue ==
  \A r \in Requests :
    req[r] # None /\ Is(r, "signUp") =>
      /\ At(r, "ok") => r \in Known
      /\ At(r, "error") /\ r \notin unclear => r \notin Known

\* What a request is answered is so: a token, a success or an error.
AnswersAreTrue == TokenIsDue /\ SignUpIsTrue

\* A password is replaced only by a request that came with one which was good
\* after it had come, for an account that was not deleted then.
PasswordIsKnown ==
  [][\A i \in Known : users'[i].pwd # users[i].pwd =>
       \E r \in knew \cap alive : req[r].id = i /\ req[r].new = users'[i].pwd]_vars

\* No request waits for ever for a name or a connection.
EveryRequestEnds ==
  \A r \in Requests : At(r, "look") ~> pc[r] \in Answers

=============================================================================
