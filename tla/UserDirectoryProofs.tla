------------------------- MODULE UserDirectoryProofs -------------------------
(***************************************************************************)
(* Proofs about UserDirectory, for any requests, names, passwords, types   *)
(* of mail, connections, faults and crashes: a name is one whole account,  *)
(* answers are true, and a password is replaced by who knew it.            *)
(*                                                                         *)
(* The argument: the unique name is decided by the INSERT alone, which     *)
(* locks it until the transaction ends (NamesInv), so the look before it   *)
(* need not be trusted; the transaction carries the whole account          *)
(* (TxInv).  What a request saw in its look was so when it looked, and     *)
(* names and the kind of an account never change: what the answer rests on *)
(* was good at some time since the request came (DueInv).                  *)
(***************************************************************************)
EXTENDS UserDirectory, FiniteSetTheorems, TLAPS

\* Inside AddNewUserExecutor, and there with a connection.
OnConnection == {"insert", "types", "note", "commit", "rollback", "release"}
Adding       == {"connect"} \cup OnConnection

\* What is asked, and the ways the kinds of requests take.
AskedInv(r) ==
  /\ At(r, "new") => req[r] = None
  /\ pc[r] \notin {"new", "lost"} => req[r] # None
  /\ req[r] # None /\ Is(r, "change") => req[r].id \in Known
  /\ At(r, "hash") => Is(r, "signUp") \/ Is(r, "change")
  /\ pc[r] \in {"fetch", "verify", "token"} => Is(r, "signIn")
  /\ At(r, "update") => Is(r, "change")
  /\ pc[r] \in Adding => Is(r, "signUp") \/ Is(r, "signIn")

\* The row a request adds.
Row(r) == IF Is(r, "signUp") THEN NewUser(r) ELSE LdapUser(r)

\* The open transaction of a request.
TxInv(r) ==
  /\ pc[r] \in Adding => seen[r] = Row(r)
  /\ pc[r] \in OnConnection => r \in conns
  /\ r \in inserted => pc[r] \in {"types", "note", "commit", "rollback"}
  /\ pc[r] \in {"types", "note", "commit"} => r \in inserted
  /\ At(r, "commit") => added[r] = Types

\* The account of a request is there from its commit on.
AddedInv(r) ==
  /\ pc[r] \in {"new", "look", "hash", "fetch", "connect", "insert", "types",
                "note", "commit"} => r \notin Known
  /\ r \in inserted => r \notin Known
  /\ At(r, "rollback") /\ r \in Known => r \in unclear
  /\ At(r, "release") =>
       /\ r \in Known
       /\ users[r].name = seen[r].name /\ users[r].ldapAuth = seen[r].ldapAuth
  /\ At(r, "ok") /\ Is(r, "signUp") => r \in Known
  /\ At(r, "error") /\ Is(r, "signUp") /\ r \in Known => r \in unclear

\* What a token or a new password rests on.
DueInv(r) ==
  /\ At(r, "verify") =>
       /\ ~seen[r].deleted => r \in alive
       /\ ~seen[r].ldapAuth /\ seen[r].pwd = req[r].password => r \in knew
       /\ \E i \in Named(req[r].name) : users[i].ldapAuth = seen[r].ldapAuth
  /\ At(r, "release") => r \in alive
  /\ At(r, "token") => r \in knew \cap alive
  /\ pc[r] \in {"hash", "update"} /\ Is(r, "change") => r \in knew \cap alive

LocalInv(r) == AskedInv(r) /\ TxInv(r) /\ AddedInv(r) /\ DueInv(r)

\* A name that a transaction has inserted is nobody else's.
NamesInv ==
  /\ \A r \in inserted : Named(seen[r].name) = {}
  /\ \A r, s \in inserted : seen[r].name = seen[s].name => r = s

IInv ==
  /\ TypeOK
  /\ IsFiniteSet(conns)
  /\ \A r \in Requests : LocalInv(r)
  /\ NamesInv
  /\ OneWholeAccount

USE DirectoryAssumption

-----------------------------------------------------------------------------
LEMMA RowType ==
  ASSUME NEW r \in Requests, req[r] \in Asked
  PROVE  /\ NewUser(r) \in Accounts /\ LdapUser(r) \in Accounts
         /\ NewUser(r).name = req[r].name /\ LdapUser(r).name = req[r].name
         /\ ~NewUser(r).deleted /\ ~LdapUser(r).deleted
         /\ LdapUser(r).ldapAuth
  BY DEF NewUser, LdapUser, Accounts, Asked

LEMMA InitInv == Init => IInv
  <1> SUFFICES ASSUME Init PROVE IInv
    OBVIOUS
  <1>1. IsFiniteSet(conns) /\ Cardinality(conns) = 0
    BY FS_EmptySet DEF Init
  <1>2. /\ users \in [Requests -> Accounts \cup {None}]
        /\ \A i \in Requests : users[i] = None
        /\ req \in [Requests -> Asked \cup {None}]
        /\ seen \in [Requests -> Accounts \cup {None}]
        /\ notes \in [Requests -> SUBSET Types]
        /\ added \in [Requests -> SUBSET Types]
        /\ pc \in [Requests -> Places \cup Answers]
    BY DEF Init, Places
  <1>3. faults \in 0..MaxFaults /\ acts \in 0..MaxActs
    BY DEF Init
  <1>4. TypeOK
    BY <1>1, <1>2, <1>3 DEF Init, TypeOK
  <1>5. Known = {}
    BY <1>2 DEF Known
  <1>6. ASSUME NEW r \in Requests PROVE LocalInv(r)
    <2>1. pc[r] = "new" /\ req[r] = None /\ r \notin inserted
      BY DEF Init
    <2> QED BY <1>5, <2>1
            DEF LocalInv, AskedInv, TxInv, AddedInv, DueInv, At, Adding, OnConnection
  <1>7. NamesInv /\ OneWholeAccount
    BY <1>5 DEF Init, NamesInv, OneWholeAccount, OneAccount, AccountComplete
  <1> QED BY <1>1, <1>4, <1>6, <1>7 DEF IInv

\* What was good or there when a request had come is remembered.
LEMMA History ==
  ASSUME TypeOK, Remembered
  PROVE  /\ knew \subseteq knew' /\ knew' \subseteq Requests
         /\ alive \subseteq alive' /\ alive' \subseteq Requests
         /\ \A r \in Requests : req'[r] # None =>
              (Good(r)' => r \in knew') /\ (There(r)' => r \in alive')
  BY DEF Remembered, TypeOK

\* A connection taken or returned.
LEMMA ConnsStep ==
  ASSUME TypeOK, IsFiniteSet(conns), NEW r \in Requests
  PROVE  /\ IsFiniteSet(conns \cup {r}) /\ IsFiniteSet(conns \ {r})
         /\ PoolHasRoom => Cardinality(conns \cup {r}) <= PoolSize
         /\ Cardinality(conns \ {r}) <= PoolSize
  <1>1. Cardinality(conns) \in Nat /\ Cardinality(conns) <= PoolSize
    BY FS_CardinalityType DEF TypeOK
  <1>2. IsFiniteSet(conns \cup {r})
        /\ Cardinality(conns \cup {r}) \in {Cardinality(conns), Cardinality(conns) + 1}
    BY FS_AddElement
  <1>3. IsFiniteSet(conns \ {r})
        /\ Cardinality(conns \ {r}) \in {Cardinality(conns), Cardinality(conns) - 1}
    BY FS_RemoveElement
  <1> QED BY <1>1, <1>2, <1>3 DEF PoolHasRoom

\* What every step of a request preserves besides its own fields.
Typed ==
  /\ users \in [Requests -> Accounts \cup {None}]
  /\ notes \in [Requests -> SUBSET Types]
  /\ conns \subseteq Requests /\ Cardinality(conns) <= PoolSize
  /\ IsFiniteSet(conns)
  /\ inserted \subseteq conns
  /\ added \in [Requests -> SUBSET Types]
  /\ unclear \subseteq Requests
  /\ faults \in 0..MaxFaults

LEMMA FaultType ==
  ASSUME TypeOK, Fault \/ Sound PROVE faults' \in 0..MaxFaults
  BY DEF Fault, Sound, TypeOK

\* A request goes on, and may have taken another look.
LEMMA TypeOfStep ==
  ASSUME IInv, Remembered, NEW r \in Requests, Typed',
         NEW next \in Places \cup Answers, Goto(r, next),
         NEW row \in Accounts \cup {None}, seen' \in {seen, [seen EXCEPT ![r] = row]},
         NEW q \in Asked, req' \in {req, [req EXCEPT ![r] = q]},
         UNCHANGED <<directory, acts>>
  PROVE  TypeOK' /\ IsFiniteSet(conns)'
  <1>1. /\ pc' \in [Requests -> Places \cup Answers]
        /\ seen' \in [Requests -> Accounts \cup {None}]
        /\ req' \in [Requests -> Asked \cup {None}]
    BY DEF IInv, TypeOK, Goto
  <1>2. knew' \subseteq Requests /\ alive' \subseteq Requests
    BY History DEF IInv
  <1> QED BY <1>1, <1>2 DEF IInv, TypeOK, Typed

\* No account goes away, and none changes its name or its kind.
Grown == \A i \in Known : /\ i \in Known'
                          /\ users'[i].name = users[i].name
                          /\ users'[i].ldapAuth = users[i].ldapAuth

\* The step of r leaves the other requests where they are.
OthersAlone(r) ==
  \A s \in Requests \ {r} :
    /\ pc'[s] = pc[s] /\ req'[s] = req[s] /\ seen'[s] = seen[s]
    /\ added'[s] = added[s]
    /\ s \in inserted' <=> s \in inserted
    /\ s \in conns => s \in conns'
    /\ s \in unclear => s \in unclear'
    /\ s \in Known' => s \in Known

LEMMA Frame ==
  ASSUME IInv, Remembered, Grown, NEW r, OthersAlone(r),
         NEW s \in Requests, s # r
  PROVE  LocalInv(s)'
  <1>1. /\ pc'[s] = pc[s] /\ req'[s] = req[s] /\ seen'[s] = seen[s]
        /\ added'[s] = added[s]
        /\ s \in inserted' <=> s \in inserted
        /\ s \in conns => s \in conns'
        /\ s \in unclear => s \in unclear'
        /\ s \in Known' <=> s \in Known
    BY DEF OthersAlone, Grown
  <1>2. LocalInv(s) /\ knew \subseteq knew' /\ alive \subseteq alive'
    BY History DEF IInv
  <1>3. AskedInv(s)'
    BY <1>1, <1>2 DEF LocalInv, AskedInv, At, Is, Grown
  <1>4. TxInv(s)'
    <2>1. Row(s)' = Row(s)
      BY <1>1 DEF Row, NewUser, LdapUser, Is
    <2> QED BY <1>1, <1>2, <2>1 DEF LocalInv, TxInv, At, Adding, OnConnection
  <1>5. AddedInv(s)'
    BY <1>1, <1>2 DEF LocalInv, AddedInv, At, Is, Grown
  <1>6. DueInv(s)'
    <2>1. \A i \in Named(req[s].name) :
            i \in Named(req[s].name)' /\ users'[i].ldapAuth = users[i].ldapAuth
      BY <1>1 DEF Named, Grown
    <2> QED BY <1>1, <1>2, <2>1 DEF LocalInv, DueInv, At, Is
  <1> QED BY <1>3, <1>4, <1>5, <1>6 DEF LocalInv

LEMMA Assemble ==
  ASSUME IInv, Remembered, NEW r \in Requests, Typed',
         NEW next \in Places \cup Answers, Goto(r, next),
         NEW row \in Accounts \cup {None}, seen' \in {seen, [seen EXCEPT ![r] = row]},
         NEW q \in Asked, req' \in {req, [req EXCEPT ![r] = q]},
         UNCHANGED <<directory, acts>>,
         Grown, OthersAlone(r), LocalInv(r)', NamesInv', OneWholeAccount'
  PROVE  IInv'
  <1>1. TypeOK' /\ IsFiniteSet(conns)'
    BY TypeOfStep
  <1>2. \A s \in Requests : LocalInv(s)'
    BY Frame
  <1> QED BY <1>1, <1>2 DEF IInv

\* Where the fields of a request go.
LEMMA Fields ==
  ASSUME IInv, NEW r \in Requests, NEW next, Goto(r, next),
         NEW row, seen' \in {seen, [seen EXCEPT ![r] = row]},
         NEW q, req' \in {req, [req EXCEPT ![r] = q]}
  PROVE  /\ pc'[r] = next
         /\ \A s \in Requests \ {r} :
              pc'[s] = pc[s] /\ seen'[s] = seen[s] /\ req'[s] = req[s]
  BY DEF IInv, TypeOK, Goto

\* Steps that touch no table and no transaction.
LEMMA PlainStep ==
  ASSUME IInv, Remembered, NEW r \in Requests,
         NEW next \in Places \cup Answers, Goto(r, next),
         NEW row \in Accounts \cup {None}, seen' \in {seen, [seen EXCEPT ![r] = row]},
         NEW q \in Asked, req' \in {req, [req EXCEPT ![r] = q]},
         UNCHANGED <<directory, acts>>, UNCHANGED dbVars, UNCHANGED txVars,
         Fault \/ Sound, r \notin inserted \/ UNCHANGED seen, LocalInv(r)'
  PROVE  IInv'
  <1> USE DEF dbVars, txVars
  <1>1. Typed'
    BY FaultType DEF Typed, IInv, TypeOK
  <1>2. Known' = Known
    BY DEF Known
  <1>3. Grown
    BY <1>2 DEF Grown
  <1>4. OthersAlone(r)
    BY <1>2, Fields DEF OthersAlone
  <1>5. \A s \in inserted : seen'[s] = seen[s]
    BY Fields DEF IInv, TypeOK
  <1>6. \A n : Named(n)' = Named(n)
    BY <1>2 DEF Named
  <1>7. NamesInv'
    BY <1>5, <1>6 DEF IInv, NamesInv
  <1>8. OneWholeAccount'
    BY <1>2 DEF IInv, OneWholeAccount, OneAccount, AccountComplete
  <1> QED BY <1>1, <1>3, <1>4, <1>7, <1>8, Assemble

-----------------------------------------------------------------------------
(* The look, and the work before and after the transaction. *)

LEMMA Basics ==
  ASSUME IInv, NEW r \in Requests, pc[r] \notin {"new", "lost"}
  PROVE  /\ req[r] \in Asked /\ seen[r] \in Accounts \cup {None}
         /\ AskedInv(r) /\ TxInv(r) /\ AddedInv(r) /\ DueInv(r)
  BY DEF IInv, TypeOK, LocalInv, AskedInv

LEMMA ComeKeeps ==
  ASSUME IInv, Remembered, NEW r \in Requests, Come(r)
  PROVE  IInv'
  <1>a. LocalInv(r) /\ pc[r] = "new" /\ seen[r] \in Accounts \cup {None}
    BY DEF IInv, TypeOK, Come, At
  <1>1. PICK q \in Asked : /\ q.kind = "change" => q.id \in Known
                           /\ req' = [req EXCEPT ![r] = q]
    BY DEF Come
  <1>2. /\ Goto(r, "look") /\ UNCHANGED <<directory, seen, faults, acts>>
        /\ UNCHANGED dbVars /\ UNCHANGED txVars
    BY DEF Come
  <1>3. pc'[r] = "look" /\ req'[r] = q /\ q # None
    BY <1>1, <1>2 DEF Goto, IInv, TypeOK
  <1>4. Known' = Known /\ inserted' = inserted
    BY <1>2 DEF Known, dbVars, txVars
  <1>5. r \notin inserted /\ r \notin Known
    BY <1>a DEF LocalInv, TxInv, AddedInv
  <1>6. LocalInv(r)'
    BY <1>1, <1>3, <1>4, <1>5
       DEF LocalInv, AskedInv, TxInv, AddedInv, DueInv, At, Is, Adding, OnConnection
  <1>7. "look" \in Places \cup Answers
    BY DEF Places
  <1> QED BY <1>a, <1>1, <1>2, <1>6, <1>7, PlainStep DEF Sound

\* A step of r that leaves it without a row to add or to check.
LEMMA ToPlain ==
  ASSUME IInv, Remembered, NEW r \in Requests, pc[r] \notin {"new", "lost"},
         r \notin inserted, NEW next \in {"error", "hash", "fetch", "update"},
         Goto(r, next), NEW row \in Accounts \cup {None},
         seen' \in {seen, [seen EXCEPT ![r] = row]}, UNCHANGED req,
         UNCHANGED <<directory, acts>>, UNCHANGED dbVars, UNCHANGED txVars,
         Fault \/ Sound,
         next = "error" /\ Is(r, "signUp") => r \notin Known,
         next = "hash" => (Is(r, "signUp") \/ Is(r, "change")) /\ r \notin Known,
         next = "fetch" => Is(r, "signIn") /\ r \notin Known,
         next = "update" => Is(r, "change"),
         next \in {"hash", "update"} /\ Is(r, "change") => r \in knew' \cap alive'
  PROVE  IInv'
  <1>a. req[r] \in Asked /\ AskedInv(r)
    BY Basics
  <1>1. pc'[r] = next /\ req'[r] = req[r]
    BY DEF Goto, IInv, TypeOK
  <1>2. Known' = Known /\ inserted' = inserted
    BY DEF Known, dbVars, txVars
  <1>3. AskedInv(r)'
    BY <1>a, <1>1, <1>2 DEF AskedInv, At, Is, Adding, OnConnection
  <1>4. TxInv(r)' /\ AddedInv(r)' /\ DueInv(r)'
    BY <1>1, <1>2 DEF TxInv, AddedInv, DueInv, At, Is, Adding, OnConnection
  <1>5. LocalInv(r)'
    BY <1>3, <1>4 DEF LocalInv
  <1>6. next \in Places \cup Answers
    BY DEF Places, Answers
  <1> QED BY <1>a, <1>5, <1>6, PlainStep

LEMMA LookKeeps ==
  ASSUME IInv, Remembered, NEW r \in Requests, LookFails(r) \/ SignUp(r)
  PROVE  IInv'
  <1>1. pc[r] = "look" /\ UNCHANGED <<directory, req, seen, acts>>
        /\ UNCHANGED dbVars /\ UNCHANGED txVars /\ (Fault \/ Sound)
    BY DEF LookFails, SignUp, Looks, At, Sound
  <1>2. PICK next \in {"error", "hash"} :
          Goto(r, next) /\ (next = "hash" => Is(r, "signUp"))
    BY DEF LookFails, SignUp, Looks
  <1>3. r \notin Known /\ r \notin inserted /\ seen[r] \in Accounts \cup {None}
    BY <1>1, Basics DEF TxInv, AddedInv
  <1>4. Is(r, "signUp") => ~Is(r, "change")
    BY DEF Is
  <1> QED BY <1>1, <1>2, <1>3, <1>4, ToPlain

LEMMA SignInKeeps ==
  ASSUME IInv, Remembered, NEW r \in Requests, SignIn(r)
  PROVE  IInv'
  <1>1. pc[r] = "look" /\ Is(r, "signIn") /\ UNCHANGED <<directory, req, acts>>
        /\ UNCHANGED dbVars /\ UNCHANGED txVars /\ Sound
    BY DEF SignIn, Looks, At, Sound
  <1>2. /\ req[r] \in Asked /\ seen[r] \in Accounts \cup {None} /\ AskedInv(r)
        /\ r \notin Known /\ r \notin inserted
    BY <1>1, Basics DEF TxInv, AddedInv
  <1>3. CASE Goto(r, "fetch") /\ UNCHANGED seen
    <2>1. ~Is(r, "signUp") /\ ~Is(r, "change")
      BY <1>1 DEF Is
    <2> QED BY <1>1, <1>2, <1>3, <2>1, ToPlain
  <1>4. ASSUME NEW i \in Named(req[r].name), Goto(r, "verify"),
               seen' = [seen EXCEPT ![r] = users[i]]
        PROVE  IInv'
    <2>1. i \in Known /\ users[i].name = req[r].name /\ users[i] \in Accounts
      BY <1>4 DEF Named, Known, IInv, TypeOK
    <2>2. pc'[r] = "verify" /\ req'[r] = req[r] /\ seen'[r] = users[i]
      BY <1>1, <1>4 DEF Goto, IInv, TypeOK
    <2>3. Known' = Known /\ inserted' = inserted /\ users' = users /\ directory' = directory
      BY <1>1 DEF Known, dbVars, txVars
    <2>4. AskedInv(r)' /\ TxInv(r)' /\ AddedInv(r)'
      BY <1>1, <1>2, <2>2, <2>3
         DEF AskedInv, TxInv, AddedInv, At, Is, Adding, OnConnection
    <2>5. i \in Target(r)'
      BY <1>1, <2>1, <2>2, <2>3 DEF Target, Is
    <2>6. /\ ~users[i].deleted => There(r)'
          /\ ~users[i].ldapAuth /\ users[i].pwd = req[r].password => Good(r)'
      BY <2>2, <2>3, <2>5 DEF There, Good
    <2>7. req'[r] # None
      BY <1>2, <2>2
    <2>8. /\ ~users[i].deleted => r \in alive'
          /\ ~users[i].ldapAuth /\ users[i].pwd = req[r].password => r \in knew'
      BY <2>6, <2>7, History DEF IInv
    <2>9. i \in Named(req[r].name)'
      BY <2>1, <2>2, <2>3 DEF Named
    <2>10. DueInv(r)'
      BY <2>2, <2>3, <2>8, <2>9 DEF DueInv, At
    <2>11. LocalInv(r)'
      BY <2>4, <2>10 DEF LocalInv
    <2>12. "verify" \in Places \cup Answers
      BY DEF Places
    <2> QED BY <1>1, <1>2, <1>4, <2>1, <2>11, <2>12, PlainStep
  <1> QED BY <1>3, <1>4 DEF SignIn

LEMMA ChangePasswordKeeps ==
  ASSUME IInv, Remembered, NEW r \in Requests, ChangePassword(r)
  PROVE  IInv'
  <1> DEFINE i == req[r].id
             may == MayChange(users[i], req[r].password)
  <1>1. /\ pc[r] = "look" /\ Is(r, "change") /\ UNCHANGED <<directory, req, acts>>
        /\ UNCHANGED dbVars /\ UNCHANGED txVars /\ Sound
        /\ seen' = [seen EXCEPT ![r] = users[i]]
        /\ Goto(r, IF may THEN "hash" ELSE "error")
    BY DEF ChangePassword, Looks, At, Sound
  <1>2. /\ req[r] \in Asked /\ seen[r] \in Accounts \cup {None} /\ AskedInv(r)
        /\ r \notin Known /\ r \notin inserted
    BY <1>1, Basics DEF TxInv, AddedInv
  <1>3. i \in Known /\ users[i] \in Accounts \cup {None}
    BY <1>1, <1>2 DEF AskedInv, Known, IInv, TypeOK
  <1>4. Known' = Known /\ users' = users /\ req' = req
    BY <1>1 DEF Known, dbVars
  <1>5. ASSUME may PROVE r \in knew' \cap alive'
    <2>1. i \in Target(r)'
      BY <1>1, <1>3, <1>4 DEF Target, Is
    <2>2. Good(r)' /\ There(r)'
      BY <1>4, <1>5, <2>1 DEF Good, There, MayChange
    <2> QED BY <1>2, <1>4, <2>2, History DEF IInv
  <1>6. ~Is(r, "signUp")
    BY <1>1 DEF Is
  <1> HIDE DEF may, i
  <1>7. CASE may
    <2>1. Goto(r, "hash") BY <1>1, <1>7
    <2> QED BY <1>1, <1>2, <1>3, <1>5, <1>6, <1>7, <2>1, ToPlain
  <1>8. CASE ~may
    <2>1. Goto(r, "error") BY <1>1, <1>8
    <2> QED BY <1>1, <1>2, <1>3, <1>6, <1>8, <2>1, ToPlain
  <1> QED BY <1>7, <1>8

\* With the row it is to add a request goes for a connection.
LEMMA ToConnect ==
  ASSUME IInv, Remembered, NEW r \in Requests, pc[r] \in {"hash", "fetch"},
         Is(r, "signUp") \/ Is(r, "signIn"),
         Goto(r, "connect"), seen' = [seen EXCEPT ![r] = Row(r)], UNCHANGED req,
         UNCHANGED <<directory, acts>>, UNCHANGED dbVars, UNCHANGED txVars, Sound
  PROVE  IInv'
  <1>1. req[r] \in Asked /\ r \notin Known /\ r \notin inserted
    BY Basics DEF TxInv, AddedInv
  <1>2. Row(r) \in Accounts
    BY <1>1, RowType DEF Row
  <1>3. pc'[r] = "connect" /\ req'[r] = req[r] /\ seen'[r] = Row(r)
    BY <1>2 DEF Goto, IInv, TypeOK
  <1>4. Known' = Known /\ inserted' = inserted
    BY DEF Known, dbVars, txVars
  <1>5. Row(r)' = Row(r)
    BY DEF Row, NewUser, LdapUser, Is
  <1>6. AskedInv(r)' /\ TxInv(r)'
    BY <1>1, <1>3, <1>4, <1>5 DEF AskedInv, TxInv, At, Is, Adding, OnConnection
  <1>7. AddedInv(r)' /\ DueInv(r)'
    BY <1>1, <1>3, <1>4 DEF AddedInv, DueInv, At
  <1>8. LocalInv(r)'
    BY <1>6, <1>7 DEF LocalInv
  <1>9. "connect" \in Places \cup Answers
    BY DEF Places
  <1> QED BY <1>1, <1>2, <1>8, <1>9, PlainStep

LEMMA HashKeeps ==
  ASSUME IInv, Remembered, NEW r \in Requests, Hash(r)
  PROVE  IInv'
  <1>1. /\ pc[r] = "hash" /\ UNCHANGED <<directory, req, acts>>
        /\ UNCHANGED dbVars /\ UNCHANGED txVars
    BY DEF Hash, At
  <1>2. /\ req[r] \in Asked /\ seen[r] \in Accounts \cup {None}
        /\ r \notin Known /\ r \notin inserted
        /\ Is(r, "signUp") \/ Is(r, "change")
        /\ Is(r, "change") => r \in knew \cap alive
    BY <1>1, Basics DEF AskedInv, TxInv, AddedInv, DueInv, At
  <1>3. knew \subseteq knew' /\ alive \subseteq alive'
    BY History DEF IInv
  <1>4. CASE Sound /\ Is(r, "change") /\ Goto(r, "update") /\ UNCHANGED seen
    BY <1>1, <1>2, <1>3, <1>4, ToPlain
  <1>5. CASE /\ Sound /\ ~Is(r, "change") /\ Goto(r, "connect")
             /\ seen' = [seen EXCEPT ![r] = NewUser(r)]
    <2>1. Row(r) = NewUser(r) /\ Is(r, "signUp")
      BY <1>2, <1>5 DEF Row
    <2> QED BY <1>1, <1>5, <2>1, ToConnect
  <1>6. CASE Fault /\ Goto(r, "error") /\ UNCHANGED seen
    BY <1>1, <1>2, <1>6, ToPlain
  <1> QED BY <1>4, <1>5, <1>6 DEF Hash

LEMMA FetchKeeps ==
  ASSUME IInv, Remembered, NEW r \in Requests, Fetch(r)
  PROVE  IInv'
  <1>1. /\ pc[r] = "fetch" /\ UNCHANGED <<directory, req, acts>>
        /\ UNCHANGED dbVars /\ UNCHANGED txVars
    BY DEF Fetch, At
  <1>2. /\ req[r] \in Asked /\ seen[r] \in Accounts \cup {None}
        /\ r \notin Known /\ r \notin inserted /\ Is(r, "signIn")
    BY <1>1, Basics DEF AskedInv, TxInv, AddedInv, At
  <1>3. CASE Sound /\ seen' = [seen EXCEPT ![r] = LdapUser(r)] /\ Goto(r, "connect")
    <2>1. Row(r) = LdapUser(r)
      BY <1>2 DEF Row, Is
    <2> QED BY <1>1, <1>2, <1>3, <2>1, ToConnect
  <1>4. CASE (Sound \/ Fault) /\ Goto(r, "error") /\ UNCHANGED seen
    BY <1>1, <1>2, <1>4, ToPlain
  <1> QED BY <1>3, <1>4 DEF Fetch

\* The account of the directory is bound to now; of the other kind, the hash
\* that was read is compared.
LEMMA VerifyKeeps ==
  ASSUME IInv, Remembered, NEW r \in Requests, Verify(r)
  PROVE  IInv'
  <1>1. /\ pc[r] = "verify" /\ UNCHANGED <<directory, req, seen, acts>>
        /\ UNCHANGED dbVars /\ UNCHANGED txVars /\ (Fault \/ Sound)
    BY DEF Verify, At
  <1>2. /\ req[r] \in Asked /\ seen[r] \in Accounts \cup {None}
        /\ r \notin inserted /\ Is(r, "signIn") /\ DueInv(r)
    BY <1>1, Basics DEF AskedInv, TxInv, At
  <1>3. ~Is(r, "signUp") /\ ~Is(r, "change")
    BY <1>2 DEF Is
  <1>4. CASE Goto(r, "error")
    BY <1>1, <1>2, <1>3, <1>4, ToPlain
  <1>5. CASE Opens(r) /\ Goto(r, "token")
    <2>1. pc'[r] = "token" /\ req'[r] = req[r]
      BY <1>1, <1>5 DEF Goto, IInv, TypeOK
    <2>2. Known' = Known /\ users' = users /\ inserted' = inserted
      BY <1>1 DEF Known, dbVars, txVars
    <2>3. knew \subseteq knew' /\ alive \subseteq alive' /\ (Good(r)' => r \in knew')
      BY <1>2, <2>1, History DEF IInv
    <2>4. r \in alive
      BY <1>1, <1>2, <1>5 DEF Opens, DueInv, At
    <2>5. r \in knew'
      <3>1. CASE ~seen[r].ldapAuth
        BY <1>1, <1>2, <1>5, <2>3, <3>1 DEF Opens, DueInv, At
      <3>2. CASE seen[r].ldapAuth
        <4>1. PICK i \in Named(req[r].name) : users[i].ldapAuth = seen[r].ldapAuth
          BY <1>1, <1>2 DEF DueInv, At
        <4>2. Binds(r)' /\ users'[i].ldapAuth
          BY <1>1, <1>5, <2>2, <3>2, <4>1 DEF Opens, Binds
        <4>3. i \in Target(r)'
          BY <1>1, <1>3, <2>2, <4>1 DEF Target, Named, Is
        <4> QED BY <2>3, <4>2, <4>3 DEF Good
      <3> QED BY <3>1, <3>2
    <2>6. LocalInv(r)'
      BY <1>2, <1>3, <2>1, <2>2, <2>3, <2>4, <2>5
         DEF LocalInv, AskedInv, TxInv, AddedInv, DueInv, At, Is, Adding, OnConnection
    <2>7. "token" \in Places \cup Answers
      BY DEF Answers
    <2> QED BY <1>1, <1>2, <1>5, <2>6, <2>7, PlainStep
  <1> QED BY <1>4, <1>5 DEF Verify

-----------------------------------------------------------------------------
(* The transaction. *)

\* What r is between the connection and its commit, when it goes from one
\* place there to another and keeps its row.
LEMMA InTransaction ==
  ASSUME IInv, NEW r \in Requests, pc[r] \in {"connect", "insert", "types", "note"},
         NEW next \in {"insert", "types", "note", "commit", "rollback", "error"},
         Goto(r, next), UNCHANGED <<req, seen, users>>,
         next # "error" => r \in conns',
         r \in inserted' => next \notin {"insert", "error"},
         next \in {"types", "note", "commit"} => r \in inserted',
         next = "commit" => added'[r] = Types
  PROVE  LocalInv(r)'
  <1>1. pc'[r] = next
    BY DEF Goto, IInv, TypeOK
  <1>2. /\ req[r] \in Asked /\ r \notin Known /\ seen[r] = Row(r)
        /\ Is(r, "signUp") \/ Is(r, "signIn")
    BY Basics DEF AskedInv, TxInv, AddedInv, Adding, OnConnection
  <1>3. Known' = Known /\ Row(r)' = Row(r)
    BY DEF Known, Row, NewUser, LdapUser, Is
  <1>4. AskedInv(r)' /\ TxInv(r)'
    BY <1>1, <1>2, <1>3 DEF AskedInv, TxInv, At, Is, Adding, OnConnection
  <1>5. AddedInv(r)' /\ DueInv(r)'
    BY <1>1, <1>2, <1>3 DEF AddedInv, DueInv, At
  <1> QED BY <1>4, <1>5 DEF LocalInv

\* As long as no row is committed or inserted, names stay what they are.
LEMMA TablesKept ==
  ASSUME IInv, UNCHANGED <<users, notes, seen>>, inserted' \subseteq inserted
  PROVE  /\ Known' = Known /\ Grown
         /\ NamesInv' /\ OneWholeAccount'
  <1>1. Known' = Known
    BY DEF Known
  <1>2. \A n : Named(n)' = Named(n)
    BY <1>1 DEF Named
  <1>3. NamesInv'
    BY <1>2 DEF IInv, NamesInv
  <1>4. OneWholeAccount'
    BY <1>1 DEF IInv, OneWholeAccount, OneAccount, AccountComplete
  <1> QED BY <1>1, <1>3, <1>4 DEF Grown

LEMMA GetConnectionKeeps ==
  ASSUME IInv, Remembered, NEW r \in Requests, GetConnection(r)
  PROVE  IInv'
  <1>1. /\ pc[r] = "connect"
        /\ UNCHANGED <<directory, req, seen, inserted, added, acts>>
        /\ UNCHANGED <<users, notes, unclear>> /\ (Fault \/ Sound)
    BY DEF GetConnection, At, dbVars
  <1>2. /\ req[r] \in Asked /\ seen[r] \in Accounts \cup {None} /\ r \notin inserted
    BY <1>1, Basics DEF TxInv
  <1>3. Known' = Known /\ Grown /\ NamesInv' /\ OneWholeAccount'
    BY <1>1, TablesKept
  <1>4. PICK next \in {"insert", "error"} :
          /\ Goto(r, next)
          /\ \/ next = "insert" /\ PoolHasRoom /\ conns' = conns \cup {r}
             \/ next = "error" /\ conns' = conns
    BY DEF GetConnection
  <1>5. Typed'
    <2>1. TypeOK /\ IsFiniteSet(conns)
      BY DEF IInv
    <2>2. /\ conns' \subseteq Requests /\ inserted \subseteq conns'
          /\ IsFiniteSet(conns') /\ Cardinality(conns') <= PoolSize
      <3>1. CASE conns' = conns
        BY <2>1, <3>1 DEF TypeOK
      <3>2. CASE PoolHasRoom /\ conns' = conns \cup {r}
        BY <2>1, <3>2, ConnsStep DEF TypeOK
      <3> QED BY <1>4, <3>1, <3>2
    <2> QED BY <1>1, <2>1, <2>2, FaultType DEF Typed, TypeOK
  <1>6. LocalInv(r)'
    BY <1>1, <1>2, <1>4, InTransaction
  <1>7. OthersAlone(r)
    BY <1>1, <1>3, <1>4, Fields DEF OthersAlone
  <1>8. next \in Places \cup Answers
    BY DEF Places, Answers
  <1> QED BY <1>1, <1>2, <1>3, <1>4, <1>5, <1>6, <1>7, <1>8, Assemble

\* The INSERT waits for who inserted the name and fails if the name is taken:
\* the transactions that have inserted are of different new names.
LEMMA InsertKeeps ==
  ASSUME IInv, Remembered, NEW r \in Requests, Insert(r)
  PROVE  IInv'
  <1>1. /\ pc[r] = "insert"
        /\ UNCHANGED <<directory, req, seen, conns, added, acts>>
        /\ UNCHANGED <<users, notes, unclear>> /\ (Fault \/ Sound)
    BY DEF Insert, At, dbVars
  <1>2. /\ req[r] \in Asked /\ seen[r] \in Accounts \cup {None}
        /\ r \notin inserted /\ r \in conns
    BY <1>1, Basics DEF TxInv, OnConnection
  <1>3. PICK next \in {"types", "rollback"} :
          /\ Goto(r, next)
          /\ \/ /\ next = "types" /\ inserted' = inserted \cup {r}
                /\ Inserting(seen[r].name) = {} /\ Named(seen[r].name) = {}
             \/ next = "rollback" /\ inserted' = inserted
    BY DEF Insert, IsUnique
  <1>4. Known' = Known /\ Grown /\ OneWholeAccount'
    <2>1. Known' = Known BY <1>1 DEF Known
    <2> QED BY <1>1, <2>1
            DEF Grown, IInv, OneWholeAccount, OneAccount, AccountComplete
  <1>5. NamesInv'
    <2>1. \A n : Named(n)' = Named(n)
      BY <1>1, <1>4 DEF Named
    <2>2. CASE inserted' = inserted
      BY <1>1, <2>1, <2>2 DEF IInv, NamesInv
    <2>3. CASE /\ inserted' = inserted \cup {r}
               /\ Inserting(seen[r].name) = {} /\ Named(seen[r].name) = {}
      <3>1. \A s \in inserted : seen[s].name # seen[r].name
        BY <2>3 DEF Inserting
      <3> QED BY <1>1, <2>1, <2>3, <3>1 DEF IInv, NamesInv
    <2> QED BY <1>3, <2>2, <2>3
  <1>6. Typed'
    BY <1>1, <1>2, <1>3, FaultType DEF Typed, IInv, TypeOK
  <1>7. LocalInv(r)'
    BY <1>1, <1>2, <1>3, InTransaction
  <1>8. OthersAlone(r)
    BY <1>1, <1>3, <1>4, Fields DEF OthersAlone
  <1>9. next \in Places \cup Answers
    BY DEF Places, Answers
  <1> QED BY <1>1, <1>2, <1>3, <1>4, <1>5, <1>6, <1>7, <1>8, <1>9, Assemble

LEMMA NotesKeep ==
  ASSUME IInv, Remembered, NEW r \in Requests, SelectTypes(r) \/ InsertNote(r)
  PROVE  IInv'
  <1>1. /\ pc[r] \in {"types", "note"}
        /\ UNCHANGED <<directory, req, seen, conns, inserted, acts>>
        /\ UNCHANGED <<users, notes, unclear>> /\ (Fault \/ Sound)
    BY DEF SelectTypes, InsertNote, At, dbVars, txVars
  <1>2. /\ req[r] \in Asked /\ seen[r] \in Accounts \cup {None}
        /\ r \in inserted /\ r \in conns
    BY <1>1, Basics DEF TxInv, OnConnection
  <1>3. Known' = Known /\ Grown /\ NamesInv' /\ OneWholeAccount'
    BY <1>1, TablesKept
  <1>4. PICK next \in {"note", "commit", "rollback"} :
          /\ Goto(r, next)
          /\ next = "commit" => added'[r] = Types
          /\ \/ UNCHANGED added
             \/ \E t \in Types : added' = [added EXCEPT ![r] = @ \cup {t}]
    <2>1. CASE SelectTypes(r)
      <3>1. UNCHANGED added /\ (Goto(r, "note") \/ Goto(r, "rollback"))
        BY <2>1 DEF SelectTypes, txVars
      <3> QED BY <3>1
    <2>2. CASE InsertNote(r)
      <3>1. CASE Goto(r, "rollback") /\ UNCHANGED added
        BY <3>1
      <3>2. ASSUME NEW t \in Types, added' = [added EXCEPT ![r] = @ \cup {t}],
                   Goto(r, AfterNote(r, added'[r]))
            PROVE  \E next \in {"note", "commit", "rollback"} :
                     /\ Goto(r, next)
                     /\ next = "commit" => added'[r] = Types
                     /\ \E u \in Types : added' = [added EXCEPT ![r] = @ \cup {u}]
        <4>1. CASE added'[r] = Types
          BY <3>2, <4>1 DEF AfterNote
        <4>2. CASE added'[r] # Types
          BY <3>2, <4>2 DEF AfterNote
        <4> QED BY <4>1, <4>2
      <3> QED BY <2>2, <3>1, <3>2 DEF InsertNote
    <2> QED BY <2>1, <2>2
  <1>5. added' \in [Requests -> SUBSET Types]
        /\ \A s \in Requests \ {r} : added'[s] = added[s]
    BY <1>4 DEF IInv, TypeOK
  <1>6. Typed'
    BY <1>1, <1>5, FaultType DEF Typed, IInv, TypeOK
  <1>7. LocalInv(r)'
    BY <1>1, <1>2, <1>4, InTransaction
  <1>8. OthersAlone(r)
    BY <1>1, <1>3, <1>4, <1>5, Fields DEF OthersAlone
  <1>9. next \in Places \cup Answers
    BY DEF Places, Answers
  <1> QED BY <1>1, <1>2, <1>3, <1>4, <1>6, <1>7, <1>8, <1>9, Assemble

\* The account and its rows are there at once, whatever the server is told;
\* until then the name was nobody's.
LEMMA CommitKeeps ==
  ASSUME IInv, Remembered, NEW r \in Requests, Commit(r)
  PROVE  IInv'
  <1>1. /\ pc[r] = "commit" /\ UNCHANGED <<directory, req, seen, conns, acts>>
        /\ Fault \/ Sound
    BY DEF Commit, At
  <1>2. /\ req[r] \in Asked /\ seen[r] = Row(r) /\ r \notin Known
        /\ r \in inserted /\ r \in conns /\ added[r] = Types
        /\ Is(r, "signUp") \/ Is(r, "signIn")
    BY <1>1, Basics DEF AskedInv, TxInv, AddedInv, At, OnConnection, Adding
  <1>3. Row(r) \in Accounts /\ Row(r).name = req[r].name /\ ~Row(r).deleted
    BY <1>2, RowType DEF Row
  <1>4. ~Is(r, "change")
    BY <1>2 DEF Is
  <1>5. Row(r)' = Row(r)
    BY <1>1 DEF Row, NewUser, LdapUser, Is
  <1>6. CASE /\ Fault /\ Goto(r, "rollback")
             /\ UNCHANGED <<users, notes, inserted, added, unclear>>
    <2>1. Known' = Known /\ Grown /\ NamesInv' /\ OneWholeAccount'
      BY <1>1, <1>6, TablesKept
    <2>2. pc'[r] = "rollback"
      BY <1>6 DEF Goto, IInv, TypeOK
    <2>3. LocalInv(r)'
      BY <1>1, <1>2, <1>4, <1>5, <1>6, <2>1, <2>2
         DEF LocalInv, AskedInv, TxInv, AddedInv, DueInv, At, Is, Adding, OnConnection
    <2>4. OthersAlone(r)
      BY <1>1, <1>6, <2>1, Fields DEF OthersAlone
    <2>5. Typed'
      BY <1>1, <1>6, FaultType DEF Typed, IInv, TypeOK
    <2>6. "rollback" \in Places \cup Answers
      BY DEF Places
    <2> QED BY <1>1, <1>2, <1>3, <1>6, <2>1, <2>3, <2>4, <2>5, <2>6, Assemble
  <1>7. ASSUME NEW next \in {"release", "rollback"}, Committed(r), Goto(r, next),
               \/ next = "release" /\ UNCHANGED unclear
               \/ next = "rollback" /\ unclear' = unclear \cup {r}
        PROVE  IInv'
    <2>1. /\ users' = [users EXCEPT ![r] = seen[r]]
          /\ notes' = [notes EXCEPT ![r] = Types]
          /\ inserted' = inserted \ {r}
          /\ added' = [added EXCEPT ![r] = {}]
      BY <1>2, <1>7 DEF Committed
    <2>2. /\ users' \in [Requests -> Accounts \cup {None}]
          /\ users'[r] = seen[r] /\ users'[r] # None
          /\ \A i \in Requests \ {r} : users'[i] = users[i]
      BY <1>2, <1>3, <2>1 DEF IInv, TypeOK
    <2>3. Known' = Known \cup {r}
      BY <2>2 DEF Known
    <2>4. Grown
      BY <1>2, <2>2, <2>3 DEF Grown, Known
    <2>5. Typed'
      <3>1. notes' \in [Requests -> SUBSET Types] /\ added' \in [Requests -> SUBSET Types]
        BY <2>1 DEF IInv, TypeOK
      <3>2. unclear' \subseteq Requests /\ inserted' \subseteq conns
        BY <1>7, <2>1 DEF IInv, TypeOK
      <3> QED BY <1>1, <2>2, <3>1, <3>2, FaultType DEF Typed, IInv, TypeOK
    <2>6. OthersAlone(r)
      <3>1. \A s \in Requests \ {r} : added'[s] = added[s]
        BY <2>1 DEF IInv, TypeOK
      <3>2. \A s \in Requests \ {r} :
              pc'[s] = pc[s] /\ seen'[s] = seen[s] /\ req'[s] = req[s]
        BY <1>1, <1>7, Fields
      <3> QED BY <1>1, <1>7, <2>1, <2>3, <3>1, <3>2 DEF OthersAlone
    <2>7. pc'[r] = next
      BY <1>7 DEF Goto, IInv, TypeOK
    <2>8. r \in alive'
      <3>1. r \in Target(r)'
        BY <1>1, <1>2, <1>3, <1>4, <2>2, <2>3 DEF Target, Is
      <3>2. There(r)'
        BY <1>2, <1>3, <2>2, <3>1 DEF There
      <3> QED BY <1>1, <1>2, <3>2, History DEF IInv
    <2>9. LocalInv(r)'
      <3>1. AskedInv(r)'
        BY <1>1, <1>2, <1>4, <2>3, <2>7 DEF AskedInv, At, Is, Adding, OnConnection
      <3>2. TxInv(r)'
        BY <1>1, <1>2, <1>5, <2>1, <2>7 DEF TxInv, At, Adding, OnConnection
      <3>3. AddedInv(r)'
        BY <1>1, <1>7, <2>1, <2>2, <2>3, <2>7 DEF AddedInv, At
      <3>4. DueInv(r)'
        BY <2>7, <2>8 DEF DueInv, At
      <3> QED BY <3>1, <3>2, <3>3, <3>4 DEF LocalInv
    <2>10. Named(seen[r].name) = {}
      BY <1>2 DEF IInv, NamesInv
    <2>11. OneWholeAccount'
      <3>1. OneAccount'
        <4> SUFFICES ASSUME NEW i \in Known', NEW j \in Known',
                            users'[i].name = users'[j].name
                     PROVE  i = j
          BY DEF OneAccount
        <4>1. \A k \in Known : k # r /\ users'[k] = users[k] /\ users[k].name # seen[r].name
          BY <1>2, <2>2, <2>10 DEF Known, Named
        <4> QED BY <2>2, <2>3, <4>1 DEF IInv, OneWholeAccount, OneAccount
      <3>2. AccountComplete'
        <4>1. notes'[r] = Types /\ \A i \in Requests \ {r} : notes'[i] = notes[i]
          BY <2>1 DEF IInv, TypeOK
        <4> QED BY <2>3, <4>1 DEF IInv, OneWholeAccount, AccountComplete
      <3> QED BY <3>1, <3>2 DEF OneWholeAccount
    <2>12. NamesInv'
      <3>1. ASSUME NEW s \in inserted' PROVE Named(seen[s].name)' = {}
        <4>1. s \in inserted /\ s # r
          BY <2>1, <3>1
        <4>2. Named(seen[s].name) = {} /\ seen[s].name # seen[r].name
          BY <1>2, <4>1 DEF IInv, NamesInv
        <4>3. \A k \in Known : users'[k].name = users[k].name
          BY <2>4 DEF Grown
        <4> QED BY <1>1, <2>2, <2>3, <4>2, <4>3 DEF Named
      <3>2. \A s, t \in inserted' : seen'[s].name = seen'[t].name => s = t
        BY <1>1, <2>1 DEF IInv, NamesInv
      <3> QED BY <3>1, <3>2 DEF NamesInv
    <2>13. next \in Places \cup Answers
      BY DEF Places
    <2> QED BY <1>1, <1>2, <1>3, <1>7, <2>4, <2>5, <2>6, <2>9, <2>11, <2>12, <2>13,
               Assemble
  <1> QED BY <1>6, <1>7 DEF Commit

LEMMA RollbackKeeps ==
  ASSUME IInv, Remembered, NEW r \in Requests, Rollback(r)
  PROVE  IInv'
  <1>1. /\ pc[r] = "rollback" /\ Goto(r, "error")
        /\ UNCHANGED <<directory, req, seen, faults, acts>>
        /\ UNCHANGED <<users, notes, unclear>>
        /\ conns' = conns \ {r} /\ inserted' = inserted \ {r}
        /\ added' = [added EXCEPT ![r] = {}]
    BY DEF Rollback, RolledBack, At, dbVars
  <1>2. /\ req[r] \in Asked /\ seen[r] \in Accounts \cup {None}
        /\ r \in Known => r \in unclear
        /\ Is(r, "signUp") \/ Is(r, "signIn")
    BY <1>1, Basics DEF AskedInv, AddedInv, At, Adding, OnConnection
  <1>3. Known' = Known /\ Grown /\ NamesInv' /\ OneWholeAccount'
    BY <1>1, TablesKept
  <1>4. pc'[r] = "error"
    BY <1>1 DEF Goto, IInv, TypeOK
  <1>5. /\ added' \in [Requests -> SUBSET Types]
        /\ \A s \in Requests \ {r} : added'[s] = added[s]
    BY <1>1 DEF IInv, TypeOK
  <1>6. Typed'
    <2>1. TypeOK /\ IsFiniteSet(conns)
      BY DEF IInv
    <2>2. /\ conns' \subseteq Requests /\ inserted' \subseteq conns'
          /\ IsFiniteSet(conns') /\ Cardinality(conns') <= PoolSize
      BY <1>1, <2>1, ConnsStep DEF TypeOK
    <2> QED BY <1>1, <1>5, <2>1, <2>2 DEF Typed, TypeOK
  <1>7. LocalInv(r)'
    BY <1>1, <1>2, <1>3, <1>4
       DEF LocalInv, AskedInv, TxInv, AddedInv, DueInv, At, Is, Adding, OnConnection
  <1>8. OthersAlone(r)
    BY <1>1, <1>3, <1>5, Fields DEF OthersAlone
  <1>9. "error" \in Places \cup Answers
    BY DEF Answers
  <1> QED BY <1>1, <1>2, <1>3, <1>6, <1>7, <1>8, <1>9, Assemble

LEMMA ReleaseKeeps ==
  ASSUME IInv, Remembered, NEW r \in Requests, Release(r)
  PROVE  IInv'
  <1>1. /\ pc[r] = "release"
        /\ UNCHANGED <<directory, req, seen, inserted, added, faults, acts>>
        /\ UNCHANGED <<users, notes, unclear>> /\ conns' = conns \ {r}
    BY DEF Release, At, dbVars
  <1>2. /\ req[r] \in Asked /\ seen[r] \in Accounts \cup {None} /\ seen[r] = Row(r)
        /\ r \notin inserted /\ r \in Known /\ r \in alive
        /\ users[r].name = seen[r].name /\ users[r].ldapAuth = seen[r].ldapAuth
        /\ Is(r, "signUp") \/ Is(r, "signIn")
    BY <1>1, Basics DEF AskedInv, TxInv, AddedInv, DueInv, At, Adding, OnConnection
  <1>3. Known' = Known /\ Grown /\ NamesInv' /\ OneWholeAccount'
    BY <1>1, TablesKept
  <1>4. PICK next \in {"ok", "verify"} :
          /\ Goto(r, next)
          /\ IF next = "ok" THEN Is(r, "signUp") ELSE ~Is(r, "signUp")
    BY DEF Release
  <1>5. pc'[r] = next
    BY <1>4 DEF Goto, IInv, TypeOK
  <1>6. Typed'
    <2>1. TypeOK /\ IsFiniteSet(conns)
      BY DEF IInv
    <2>2. /\ conns' \subseteq Requests /\ inserted \subseteq conns'
          /\ IsFiniteSet(conns') /\ Cardinality(conns') <= PoolSize
      BY <1>1, <1>2, <2>1, ConnsStep DEF TypeOK
    <2> QED BY <1>1, <2>1, <2>2 DEF Typed, TypeOK
  <1>7. AskedInv(r)' /\ TxInv(r)' /\ AddedInv(r)'
    BY <1>1, <1>2, <1>3, <1>4, <1>5
       DEF AskedInv, TxInv, AddedInv, At, Is, Adding, OnConnection
  <1>8. DueInv(r)'
    <2>1. alive \subseteq alive'
      BY History DEF IInv
    <2>2. CASE next = "ok"
      BY <1>5, <2>2 DEF DueInv, At
    <2>3. CASE next = "verify"
      <3>1. /\ seen[r] = LdapUser(r) /\ seen[r].name = req[r].name
            /\ seen[r].ldapAuth
        BY <1>2, <1>4, <2>3, RowType DEF Row
      <3>2. r \in Named(req[r].name)' /\ users'[r].ldapAuth = seen'[r].ldapAuth
        BY <1>1, <1>2, <1>3, <3>1 DEF Named
      <3> QED BY <1>1, <1>2, <1>5, <2>1, <2>3, <3>1, <3>2 DEF DueInv, At
    <2> QED BY <2>2, <2>3
  <1>9. LocalInv(r)'
    BY <1>7, <1>8 DEF LocalInv
  <1>10. OthersAlone(r)
    BY <1>1, <1>3, <1>4, Fields DEF OthersAlone
  <1>11. next \in Places \cup Answers
    BY DEF Places, Answers
  <1> QED BY <1>1, <1>2, <1>3, <1>4, <1>6, <1>9, <1>10, <1>11, Assemble

\* A row that is changed but keeps its name and its kind leaves the names and
\* the kinds that are known.
LEMMA RowChanged ==
  ASSUME IInv, NEW i \in Known, NEW row \in Accounts,
         row.name = users[i].name, row.ldapAuth = users[i].ldapAuth,
         users' = [users EXCEPT ![i] = row]
  PROVE  /\ users' \in [Requests -> Accounts \cup {None}]
         /\ Known' = Known
         /\ users'[i] = row /\ \A j \in Known \ {i} : users'[j] = users[j]
         /\ \A j \in Known : users'[j].name = users[j].name
                             /\ users'[j].ldapAuth = users[j].ldapAuth
  <1>1. users \in [Requests -> Accounts \cup {None}] /\ i \in Requests
    BY DEF IInv, TypeOK, Known
  <1>2. /\ users'[i] = row
        /\ \A j \in Requests \ {i} : users'[j] = users[j]
        /\ users' \in [Requests -> Accounts \cup {None}]
    BY <1>1
  <1>3. row # None
    OBVIOUS
  <1> QED BY <1>2, <1>3 DEF Known

\* UPDATE users SET pwd=...: the row keeps its name and its kind.
LEMMA PasswordOnly ==
  ASSUME IInv, NEW i \in Known, NEW w \in Passwords,
         users' = [users EXCEPT ![i].pwd = w]
  PROVE  /\ users' \in [Requests -> Accounts \cup {None}]
         /\ Known' = Known
         /\ \A j \in Known : users'[j].name = users[j].name
                             /\ users'[j].ldapAuth = users[j].ldapAuth
  <1>1. users[i] \in Accounts /\ users \in [Requests -> Accounts \cup {None}]
    BY DEF IInv, TypeOK, Known
  <1> DEFINE row == [users[i] EXCEPT !.pwd = w]
  <1>2. row \in Accounts /\ row.name = users[i].name /\ row.ldapAuth = users[i].ldapAuth
    BY <1>1 DEF Accounts
  <1>3. users' = [users EXCEPT ![i] = row]
    OBVIOUS
  <1> HIDE DEF row
  <1> QED BY <1>2, <1>3, RowChanged

\* UPDATE users SET deleted=1: the row keeps its password, too.
LEMMA DeletedOnly ==
  ASSUME IInv, NEW i \in Known, users' = [users EXCEPT ![i].deleted = TRUE]
  PROVE  /\ users' \in [Requests -> Accounts \cup {None}]
         /\ Known' = Known
         /\ \A j \in Known : users'[j].name = users[j].name
                             /\ users'[j].ldapAuth = users[j].ldapAuth
                             /\ users'[j].pwd = users[j].pwd
  <1>1. users[i] \in Accounts
    BY DEF IInv, TypeOK, Known
  <1> DEFINE row == [users[i] EXCEPT !.deleted = TRUE]
  <1>2. /\ row \in Accounts /\ row.name = users[i].name
        /\ row.ldapAuth = users[i].ldapAuth /\ row.pwd = users[i].pwd
    BY <1>1 DEF Accounts
  <1>3. users' = [users EXCEPT ![i] = row]
    OBVIOUS
  <1> HIDE DEF row
  <1>4. /\ users' \in [Requests -> Accounts \cup {None}] /\ Known' = Known
        /\ users'[i] = row /\ \A j \in Known \ {i} : users'[j] = users[j]
    BY <1>2, <1>3, RowChanged
  <1> QED BY <1>2, <1>4

\* Names and the accounts there are stay, whatever else of a row changes.
LEMMA RowsKept ==
  ASSUME IInv, Known' = Known, UNCHANGED <<notes, seen, inserted>>,
         \A j \in Known : users'[j].name = users[j].name
                          /\ users'[j].ldapAuth = users[j].ldapAuth
  PROVE  Grown /\ NamesInv' /\ OneWholeAccount'
  <1>1. Grown
    BY DEF Grown
  <1>2. \A n : Named(n)' = Named(n)
    BY DEF Named
  <1>3. NamesInv'
    BY <1>2 DEF IInv, NamesInv
  <1>4. OneWholeAccount'
    BY DEF IInv, OneWholeAccount, OneAccount, AccountComplete
  <1> QED BY <1>1, <1>3, <1>4

LEMMA UpdateKeeps ==
  ASSUME IInv, Remembered, NEW r \in Requests, Update(r)
  PROVE  IInv'
  <1>1. /\ pc[r] = "update" /\ (Fault \/ Sound)
        /\ UNCHANGED <<notes, directory, req, seen, acts>> /\ UNCHANGED txVars
    BY DEF Update, At
  <1>2. /\ req[r] \in Asked /\ seen[r] \in Accounts \cup {None}
        /\ r \notin inserted /\ Is(r, "change") /\ req[r].id \in Known
    BY <1>1, Basics DEF AskedInv, TxInv, At
  <1>3. PICK next \in {"ok", "error"} :
          Goto(r, next) /\ unclear \subseteq unclear' /\ unclear' \subseteq unclear \cup {r}
    BY DEF Update
  <1>4. users' = users \/ users' = [users EXCEPT ![req[r].id].pwd = req[r].new]
    BY DEF Update
  <1>5. req[r].new \in Passwords
    BY <1>2 DEF Asked
  <1>6. /\ users' \in [Requests -> Accounts \cup {None}]
        /\ Known' = Known
        /\ \A j \in Known : users'[j].name = users[j].name
                            /\ users'[j].ldapAuth = users[j].ldapAuth
    <2>1. CASE users' = users
      BY <2>1 DEF Known, IInv, TypeOK
    <2>2. CASE users' = [users EXCEPT ![req[r].id].pwd = req[r].new]
      BY <1>2, <1>5, <2>2, PasswordOnly
    <2> QED BY <1>4, <2>1, <2>2
  <1>7. Grown /\ NamesInv' /\ OneWholeAccount'
    BY <1>1, <1>6, RowsKept DEF txVars
  <1>8. Typed'
    BY <1>1, <1>3, <1>6, FaultType DEF Typed, IInv, TypeOK, txVars
  <1>9. pc'[r] = next
    BY <1>3 DEF Goto, IInv, TypeOK
  <1>10. LocalInv(r)'
    BY <1>1, <1>2, <1>6, <1>9
       DEF LocalInv, AskedInv, TxInv, AddedInv, DueInv, At, Is, Adding, OnConnection, txVars
  <1>11. OthersAlone(r)
    BY <1>1, <1>3, <1>6, Fields DEF OthersAlone, txVars
  <1>12. next \in Places \cup Answers
    BY DEF Answers
  <1> QED BY <1>1, <1>2, <1>3, <1>7, <1>8, <1>10, <1>11, <1>12, Assemble

-----------------------------------------------------------------------------
(* Everybody else, and a crash. *)

\* No request moves.
LEMMA NobodyMoves ==
  ASSUME IInv, Remembered, UNCHANGED <<pc, req, seen, notes, unclear>>,
         UNCHANGED txVars, Known' = Known,
         users' \in [Requests -> Accounts \cup {None}],
         \A j \in Known : users'[j].name = users[j].name
                          /\ users'[j].ldapAuth = users[j].ldapAuth,
         directory' \in [Names -> Passwords \cup {None}],
         faults' \in 0..MaxFaults, acts' \in 0..MaxActs
  PROVE  IInv'
  <1>1. knew' \subseteq Requests /\ alive' \subseteq Requests
    BY History DEF IInv
  <1>2. TypeOK' /\ IsFiniteSet(conns)'
    BY <1>1 DEF IInv, TypeOK, txVars
  <1>3. Grown /\ NamesInv' /\ OneWholeAccount'
    BY RowsKept DEF txVars
  <1>4. ASSUME NEW s \in Requests PROVE LocalInv(s)'
    <2>1. OthersAlone(None)
      BY DEF OthersAlone, txVars
    <2>2. s # None
      OBVIOUS
    <2> QED BY <1>3, <2>1, <2>2, Frame
  <1> QED BY <1>2, <1>3, <1>4 DEF IInv

LEMMA OthersKeep ==
  ASSUME IInv, Remembered,
         \/ \E i \in Requests : Delete(i)
         \/ \E n \in Names, p \in Passwords \cup {None} : DirectoryChanges(n, p)
  PROVE  IInv'
  <1>1. ASSUME NEW i \in Requests, Delete(i) PROVE IInv'
    <2>1. /\ i \in Known /\ users' = [users EXCEPT ![i].deleted = TRUE]
          /\ UNCHANGED <<notes, unclear, directory, pc, req, seen, faults>>
          /\ UNCHANGED txVars
      BY <1>1 DEF Delete
    <2>2. acts' \in 0..MaxActs
      BY <1>1 DEF Delete, Act, IInv, TypeOK
    <2>3. directory' \in [Names -> Passwords \cup {None}] /\ faults' \in 0..MaxFaults
      BY <2>1 DEF IInv, TypeOK
    <2> QED BY <2>1, <2>2, <2>3, DeletedOnly, NobodyMoves
  <1>2. ASSUME NEW n \in Names, NEW p \in Passwords \cup {None}, DirectoryChanges(n, p)
        PROVE  IInv'
    <2>1. /\ directory' = [directory EXCEPT ![n] = p]
          /\ UNCHANGED <<pc, req, seen, faults>> /\ UNCHANGED dbVars /\ UNCHANGED txVars
      BY <1>2 DEF DirectoryChanges
    <2>2. acts' \in 0..MaxActs
      BY <1>2 DEF DirectoryChanges, Act, IInv, TypeOK
    <2>3. directory' \in [Names -> Passwords \cup {None}] /\ faults' \in 0..MaxFaults
      BY <2>1 DEF IInv, TypeOK
    <2>4. Known' = Known /\ users' = users /\ UNCHANGED <<notes, unclear>>
          /\ users' \in [Requests -> Accounts \cup {None}]
      BY <2>1 DEF Known, dbVars, IInv, TypeOK
    <2> QED BY <2>1, <2>2, <2>3, <2>4, NobodyMoves
  <1> QED BY <1>1, <1>2

\* Whatever was open is rolled back by the database, and nobody is answered.
LEMMA CrashKeeps ==
  ASSUME IInv, Remembered, Crash
  PROVE  IInv'
  <1>1. /\ pc' = [r \in Requests |-> IF pc[r] \in Answers THEN pc[r] ELSE "lost"]
        /\ conns' = {} /\ inserted' = {} /\ added' = [r \in Requests |-> {}]
        /\ UNCHANGED <<directory, req, seen, acts>>
        /\ UNCHANGED <<users, notes, unclear>>
    BY DEF Crash, dbVars
  <1>2. knew \subseteq knew' /\ knew' \subseteq Requests
        /\ alive \subseteq alive' /\ alive' \subseteq Requests
    BY History DEF IInv
  <1>3. Known' = Known /\ NamesInv' /\ OneWholeAccount'
    BY <1>1, TablesKept
  <1>4. TypeOK' /\ IsFiniteSet(conns)'
    <2>1. IsFiniteSet({}) /\ Cardinality({}) = 0
      BY FS_EmptySet
    <2>2. pc' \in [Requests -> Places \cup Answers] /\ added' \in [Requests -> SUBSET Types]
      BY <1>1 DEF IInv, TypeOK, Answers
    <2>3. faults' \in 0..MaxFaults
      BY FaultType DEF Crash, IInv
    <2> QED BY <1>1, <1>2, <2>1, <2>2, <2>3 DEF IInv, TypeOK
  <1>5. ASSUME NEW r \in Requests PROVE LocalInv(r)'
    <2>1. LocalInv(r) /\ r \notin inserted'
      BY <1>1 DEF IInv
    <2>2. pc'[r] = "lost" \/ (pc'[r] = pc[r] /\ pc[r] \in Answers)
      BY <1>1
    <2>3. pc'[r] \in Answers /\ (pc'[r] # "lost" => pc'[r] = pc[r])
      BY <2>2 DEF Answers
    <2>4. AskedInv(r)' /\ TxInv(r)'
      BY <1>1, <1>3, <2>1, <2>3
         DEF LocalInv, AskedInv, TxInv, At, Is, Adding, OnConnection, Answers
    <2>5. AddedInv(r)' /\ DueInv(r)'
      BY <1>1, <1>2, <1>3, <2>1, <2>3 DEF LocalInv, AddedInv, DueInv, At, Is, Answers
    <2> QED BY <2>4, <2>5 DEF LocalInv
  <1> QED BY <1>3, <1>4, <1>5 DEF IInv

LEMMA StutterKeeps ==
  ASSUME IInv, UNCHANGED vars
  PROVE  IInv'
  <1>1. TypeOK' /\ IsFiniteSet(conns)'
    BY DEF vars, IInv, TypeOK
  <1>2. Known' = Known /\ NamesInv' /\ OneWholeAccount'
    BY TablesKept DEF vars
  <1>3. ASSUME NEW r \in Requests PROVE LocalInv(r)'
    <2>1. LocalInv(r) BY DEF IInv
    <2>2. AskedInv(r)' BY <1>2, <2>1 DEF vars, LocalInv, AskedInv, At, Is
    <2>3. TxInv(r)'
      <3>1. Row(r)' = Row(r) BY DEF vars, Row, NewUser, LdapUser, Is
      <3> QED BY <2>1, <3>1 DEF vars, LocalInv, TxInv, At
    <2>4. AddedInv(r)' BY <1>2, <2>1 DEF vars, LocalInv, AddedInv, At, Is
    <2>5. DueInv(r)' BY <1>2, <2>1 DEF vars, LocalInv, DueInv, At, Is, Named
    <2> QED BY <2>2, <2>3, <2>4, <2>5 DEF LocalInv
  <1> QED BY <1>1, <1>2, <1>3 DEF IInv

LEMMA NextInv == IInv /\ [Next]_vars => IInv'
  <1> SUFFICES ASSUME IInv, [Next]_vars PROVE IInv'
    OBVIOUS
  <1>1. ASSUME NEW r \in Requests, Come(r) \/ Proceed(r), Remembered PROVE IInv'
    BY <1>1, ComeKeeps, LookKeeps, SignInKeeps, ChangePasswordKeeps, HashKeeps,
       FetchKeeps, VerifyKeeps, GetConnectionKeeps, InsertKeeps, NotesKeep,
       CommitKeeps, RollbackKeeps, ReleaseKeeps, UpdateKeeps DEF Proceed
  <1> QED BY <1>1, OthersKeep, CrashKeeps, StutterKeeps DEF Next, Step

-----------------------------------------------------------------------------
\* The inductive invariant of the accounts.
THEOREM Invariance == Spec => []IInv
  BY InitInv, NextInv, PTL DEF Spec

\* The types of the tables and of the requests, and the limit of the pool.
THEOREM TypeCorrect == Spec => []TypeOK
  <1>1. IInv => TypeOK BY DEF IInv
  <1> QED BY <1>1, Invariance, PTL

\* However sign-ups and first logins race, fail and crash, a name belongs to one
\* account, which came with all its rows of userEmailNotifications
\* (AddNewUserExecutor), and nothing is left of one that was not added.
THEOREM AccountsAreWhole == Spec => []OneWholeAccount
  <1>1. IInv => OneWholeAccount BY DEF IInv
  <1> QED BY <1>1, Invariance, PTL

\* A token is for a password that was good and an account that was there; and
\* what a sign-up is told is so.
THEOREM AnswersStayTrue == Spec => []AnswersAreTrue
  <1>1. IInv => AnswersAreTrue
    <2> SUFFICES ASSUME IInv, NEW r \in Requests
                 PROVE  /\ At(r, "token") => r \in knew \cap alive
                        /\ req[r] # None /\ Is(r, "signUp") =>
                             /\ At(r, "ok") => r \in Known
                             /\ At(r, "error") /\ r \notin unclear => r \notin Known
      BY DEF AnswersAreTrue, TokenIsDue, SignUpIsTrue
    <2>1. AddedInv(r) /\ DueInv(r) BY DEF IInv, LocalInv
    <2> QED BY <2>1 DEF AddedInv, DueInv
  <1> QED BY <1>1, Invariance, PTL

\* No step replaces a password but an UPDATE of changePassword.js that knew it,
\* when the account was not deleted; what happened between its look and its
\* UPDATE notwithstanding.
THEOREM PasswordsAreKept == Spec => PasswordIsKnown
  <1> DEFINE Permitted == \A i \in Known : users'[i].pwd # users[i].pwd =>
       \E r \in knew \cap alive : req[r].id = i /\ req[r].new = users'[i].pwd
  <1>1. ASSUME IInv, [Next]_vars PROVE Permitted
    <2>1. CASE users' = users
      BY <2>1
    <2>2. ASSUME NEW r \in Requests, Update(r) PROVE Permitted
      <3>1. pc[r] = "update"
        BY <2>2 DEF Update, At
      <3>2. /\ req[r] \in Asked /\ Is(r, "change") /\ req[r].id \in Known
            /\ r \in knew \cap alive
        BY <1>1, <3>1, Basics DEF AskedInv, DueInv, At
      <3>3. users' = users \/ users' = [users EXCEPT ![req[r].id].pwd = req[r].new]
        BY <2>2 DEF Update
      <3>4. \A i \in Known : users[i] \in Accounts
        BY <1>1 DEF IInv, TypeOK, Known
      <3>5. \A i \in Known : \/ users'[i].pwd = users[i].pwd
                             \/ i = req[r].id /\ users'[i].pwd = req[r].new
        BY <1>1, <3>2, <3>3, <3>4 DEF Known, IInv, TypeOK, Accounts
      <3> QED BY <3>2, <3>5
    <2>3. ASSUME NEW r \in Requests, Commit(r) PROVE Permitted
      <3>1. pc[r] = "commit" BY <2>3 DEF Commit, At
      <3>2. r \notin Known BY <1>1, <3>1, Basics DEF AddedInv
      <3>3. users' = users \/ users' = [users EXCEPT ![r] = seen[r]]
        BY <2>3 DEF Commit, Committed
      <3> QED BY <1>1, <3>2, <3>3 DEF Known, IInv, TypeOK
    <2>4. ASSUME NEW i \in Requests, Delete(i) PROVE Permitted
      BY <1>1, <2>4, DeletedOnly DEF Delete
    <2>5. \/ users' = users
          \/ \E r \in Requests : Update(r) \/ Commit(r) \/ Delete(r)
      BY <1>1 DEF Next, Step, Proceed, Come, LookFails, SignUp, SignIn, ChangePassword,
                  Hash, Fetch, Verify, GetConnection, Insert, SelectTypes, InsertNote,
                  Rollback, Release, DirectoryChanges, Crash, dbVars, vars
    <2> QED BY <2>1, <2>2, <2>3, <2>4, <2>5
  <1>2. ASSUME IInv, [Next]_vars PROVE [Permitted]_vars
    BY <1>1, <1>2
  <1> QED BY <1>2, Invariance, PTL DEF Spec, PasswordIsKnown

=============================================================================
