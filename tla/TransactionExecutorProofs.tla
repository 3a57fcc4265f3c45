---------------------- MODULE TransactionExecutorProofs ----------------------
(***************************************************************************)
(* Proofs about TransactionExecutor, for any number of requests, users and *)
(* connections: it implements AccountBook, and its replies are true.       *)
(*                                                                         *)
(* The argument: from the SELECT to the commit a request holds the row of  *)
(* its user, so the deposit it read is still the deposit it overwrites     *)
(* (RowInv); a transaction is committed only with both writes (WriteInv);  *)
(* and count lags behind rows by what was committed since the last         *)
(* resolved call (CountInv).                                               *)
(***************************************************************************)
EXTENDS TransactionExecutor, FiniteSetTheorems, TLAPS

Mine(r) == lock[UserOf[r]] = r

\* The row is held from the SELECT on, and the deposit read is current.
RowInv(r) ==
  /\ Mine(r) => pc[r] \in {"insert", "update", "commit", "rollback"}
  /\ Mine(r) /\ pc[r] # "rollback" => read[r] = deposit[UserOf[r]]
  /\ pc[r] \in {"update", "commit"} => Mine(r)

\* What the open transaction has written, unless a statement failed.
WriteInv(r) ==
  /\ pc[r] \in {"connect", "begin", "select", "commit", "statistic"} =>
       r \notin failed
  /\ pc[r] = "insert" /\ r \notin failed => Mine(r)
  /\ pc[r] = "update" /\ r \notin failed => "row" \in written[r]
  /\ pc[r] = "commit" => "row" \in written[r] /\ "deposit" \in written[r]
  /\ pc[r] = "rollback" => r \in failed

\* The calls resolved against the rows committed.
CountInv(r) ==
  /\ pc[r] \in {"connect", "statistic"} \cup Holding => count[r] < Quantity[r]
  /\ pc[r] \in {"connect", "begin", "select", "insert", "update", "commit"} =>
       rows[r] = count[r]
  /\ pc[r] \in {"rollback", "release", "error"} /\ r \in failed
       /\ r \notin unclear => rows[r] = count[r]
  /\ pc[r] = "release" /\ r \notin failed => rows[r] = count[r] + 1
  /\ pc[r] \in {"statistic", "silent"} => rows[r] = count[r] + 1
  /\ pc[r] = "ok" => rows[r] = Quantity[r]
  /\ pc[r] = "error" /\ r \notin unclear =>
       rows[r] = count[r] /\ rows[r] < Quantity[r]

IInv ==
  /\ TypeOK
  /\ IsFiniteSet(conns)
  /\ \A r \in Requests : RowInv(r) /\ WriteInv(r) /\ CountInv(r)

USE ExecutorAssumption

LEMMA InitInv == Init => IInv
  <1> SUFFICES ASSUME Init PROVE IInv
    OBVIOUS
  <1>1. IsFiniteSet(conns) /\ Cardinality(conns) = 0
    BY FS_EmptySet DEF Init
  <1>2. TypeOK
    <2>1. conns \subseteq Requests /\ Cardinality(conns) <= PoolSize
      BY <1>1 DEF Init
    <2>2. /\ read \in [Requests -> Int] /\ count \in [Requests -> Nat]
          /\ rows \in [Requests -> Nat] /\ deposit \in [Users -> Int]
      BY DEF Init
    <2>3. faults \in 0..MaxFaults
      BY DEF Init
    <2>4. /\ pc \in [Requests -> {"connect", "statistic"} \cup Holding \cup Replies]
          /\ written \in [Requests -> SUBSET {"row", "deposit"}]
          /\ lock \in [Users -> Requests \cup {Nobody}]
          /\ failed \subseteq Requests /\ unclear \subseteq Requests
      BY DEF Init
    <2> QED
      BY <2>1, <2>2, <2>3, <2>4 DEF TypeOK
  <1>3. ASSUME NEW r \in Requests
        PROVE  RowInv(r) /\ WriteInv(r) /\ CountInv(r)
    <2>1. /\ pc[r] = "connect" /\ ~Mine(r) /\ r \notin failed
          /\ count[r] = 0 /\ rows[r] = 0 /\ Quantity[r] > 0
      BY DEF Init, Mine
    <2> QED
      BY <2>1 DEF RowInv, WriteInv, CountInv
  <1> QED
    BY <1>1, <1>2, <1>3 DEF IInv

\* A connection taken or returned.
LEMMA ConnsStep ==
  ASSUME TypeOK, IsFiniteSet(conns), NEW r \in Requests
  PROVE  /\ IsFiniteSet(conns \cup {r}) /\ IsFiniteSet(conns \ {r})
         /\ PoolHasRoom => Cardinality(conns \cup {r}) <= PoolSize
         /\ Cardinality(conns \ {r}) <= PoolSize
  <1>1. Cardinality(conns) \in Nat /\ Cardinality(conns) <= PoolSize
    BY FS_CardinalityType DEF TypeOK
  <1>2. IsFiniteSet(conns \cup {r})
        /\ Cardinality(conns \cup {r}) \in {Cardinality(conns), Cardinality(conns) + 1}
    BY FS_AddElement
  <1>3. IsFiniteSet(conns \ {r})
        /\ Cardinality(conns \ {r}) \in {Cardinality(conns), Cardinality(conns) - 1}
    BY FS_RemoveElement
  <1> QED
    BY <1>1, <1>2, <1>3 DEF PoolHasRoom

LEMMA TypeStep ==
  ASSUME IInv, [Next]_vars
  PROVE  TypeOK' /\ IsFiniteSet(conns)'
  <1>a. TypeOK /\ IsFiniteSet(conns)
    BY DEF IInv
  <1>b. PoolSize \in Nat /\ MaxFaults \in Nat
    OBVIOUS
  <1> USE DEF nodeVars, dbVars, Goto
  <1>1. ASSUME NEW r \in Requests, GetConnection(r)
        PROVE  TypeOK' /\ IsFiniteSet(conns)'
    <2>1. /\ IsFiniteSet(conns') /\ Cardinality(conns') <= PoolSize
          /\ conns' \subseteq Requests
      <3>1. CASE conns' = conns
        BY <1>a, <3>1 DEF TypeOK
      <3>2. CASE PoolHasRoom /\ conns' = conns \cup {r}
        BY <1>a, <3>2, ConnsStep DEF TypeOK
      <3> QED
        BY <1>1, <3>1, <3>2 DEF GetConnection
    <2>2. faults' \in 0..MaxFaults
      BY <1>a, <1>1 DEF GetConnection, Fault, TypeOK
    <2> QED
      BY <1>a, <1>1, <2>1, <2>2 DEF GetConnection, TypeOK, Holding, Replies
  <1>2. ASSUME NEW r \in Requests, BeginTransaction(r)
        PROVE  TypeOK' /\ IsFiniteSet(conns)'
    <2>1. faults' \in 0..MaxFaults
      BY <1>a, <1>2 DEF BeginTransaction, Fault, TypeOK
    <2> QED
      BY <1>a, <1>2, <2>1 DEF BeginTransaction, TypeOK, Holding
  <1>3. ASSUME NEW r \in Requests, Select(r)
        PROVE  TypeOK' /\ IsFiniteSet(conns)'
    <2>1. faults' \in 0..MaxFaults
      BY <1>a, <1>3 DEF Select, SelectWhen, Fault, TypeOK
    <2>2. /\ lock' \in [Users -> Requests \cup {Nobody}]
          /\ read' \in [Requests -> Int]
      BY <1>a, <1>3 DEF Select, SelectWhen, TypeOK
    <2> QED
      BY <1>a, <1>3, <2>1, <2>2 DEF Select, SelectWhen, TypeOK, Holding
  <1>4. ASSUME NEW r \in Requests, Insert(r)
        PROVE  TypeOK' /\ IsFiniteSet(conns)'
    <2>1. faults' \in 0..MaxFaults
      BY <1>a, <1>4 DEF Insert, Fault, TypeOK
    <2>2. written' \in [Requests -> SUBSET {"row", "deposit"}]
      BY <1>a, <1>4 DEF Insert, TypeOK
    <2> QED
      BY <1>a, <1>4, <2>1, <2>2 DEF Insert, TypeOK, Holding
  <1>5. ASSUME NEW r \in Requests, Update(r)
        PROVE  TypeOK' /\ IsFiniteSet(conns)'
    <2>1. faults' \in 0..MaxFaults
      BY <1>a, <1>5 DEF Update, AllDone, AfterStatements, Fault, TypeOK
    <2>2. written' \in [Requests -> SUBSET {"row", "deposit"}]
      BY <1>a, <1>5 DEF Update, AllDone, AfterStatements, TypeOK
    <2>3. pc' = [pc EXCEPT ![r] = "rollback"] \/ pc' = [pc EXCEPT ![r] = "commit"]
      BY <1>5 DEF Update, AllDone, AfterStatements
    <2> QED
      BY <1>a, <1>5, <2>1, <2>2, <2>3 DEF Update, TypeOK, Holding
  <1>6. ASSUME NEW r \in Requests, Commit(r)
        PROVE  TypeOK' /\ IsFiniteSet(conns)'
    <2>1. faults' \in 0..MaxFaults
      BY <1>a, <1>6 DEF Commit, Fault, TypeOK
    <2>2. Committed(r) =>
            /\ written' \in [Requests -> SUBSET {"row", "deposit"}]
            /\ rows' \in [Requests -> Nat]
            /\ deposit' \in [Users -> Int]
            /\ lock' \in [Users -> Requests \cup {Nobody}]
      <3>1. read[r] + AmountOf[r] \in Int /\ rows[r] + 1 \in Nat
        BY <1>a DEF TypeOK
      <3> QED
        BY <1>a, <3>1 DEF Committed, NewDeposit, Unlocked, TypeOK
    <2>3. /\ written' \in [Requests -> SUBSET {"row", "deposit"}]
          /\ rows' \in [Requests -> Nat]
          /\ deposit' \in [Users -> Int]
          /\ lock' \in [Users -> Requests \cup {Nobody}]
      BY <1>a, <1>6, <2>2 DEF Commit, TypeOK
    <2>4. pc' = [pc EXCEPT ![r] = "rollback"] \/ pc' = [pc EXCEPT ![r] = "release"]
      BY <1>6 DEF Commit
    <2>5. conns' = conns /\ read' = read /\ count' = count
          /\ failed' \subseteq Requests /\ unclear' \subseteq Requests
      BY <1>a, <1>6 DEF Commit, TypeOK
    <2> QED
      BY <1>a, <2>1, <2>3, <2>4, <2>5 DEF TypeOK, Holding
  <1>7. ASSUME NEW r \in Requests, Rollback(r)
        PROVE  TypeOK' /\ IsFiniteSet(conns)'
    <2>1. /\ written' \in [Requests -> SUBSET {"row", "deposit"}]
          /\ lock' \in [Users -> Requests \cup {Nobody}]
      BY <1>a, <1>7 DEF Rollback, Unlocked, TypeOK
    <2> QED
      BY <1>a, <1>7, <2>1 DEF Rollback, TypeOK, Holding
  <1>8. ASSUME NEW r \in Requests, Release(r)
        PROVE  TypeOK' /\ IsFiniteSet(conns)'
    <2>1. /\ IsFiniteSet(conns') /\ Cardinality(conns') <= PoolSize
          /\ conns' \subseteq Requests
      BY <1>a, <1>8, ConnsStep DEF Release, Released, TypeOK
    <2> QED
      BY <1>a, <1>8, <2>1 DEF Release, TypeOK, Holding, Replies
  <1>9. ASSUME NEW r \in Requests, Statistic(r)
        PROVE  TypeOK' /\ IsFiniteSet(conns)'
    <2>1. faults' \in 0..MaxFaults
      BY <1>a, <1>9 DEF Statistic, Fault, TypeOK
    <2>2. count' \in [Requests -> Nat]
      BY <1>a, <1>9 DEF Statistic, TypeOK
    <2> QED
      BY <1>a, <1>9, <2>1, <2>2 DEF Statistic, TypeOK, Replies
  <1>10. CASE Crash
    <2>1. faults' \in 0..MaxFaults
      BY <1>a, <1>10 DEF Crash, Fault, TypeOK
    <2>2. IsFiniteSet(conns') /\ Cardinality(conns') <= PoolSize
      BY <1>b, <1>10, FS_EmptySet DEF Crash
    <2>3. /\ pc' \in [Requests -> {"connect", "statistic"} \cup Holding \cup Replies]
          /\ written' \in [Requests -> SUBSET {"row", "deposit"}]
          /\ lock' \in [Users -> Requests \cup {Nobody}]
      BY <1>a, <1>10 DEF Crash, Replies, TypeOK
    <2> QED
      BY <1>a, <1>10, <2>1, <2>2, <2>3 DEF Crash, TypeOK
  <1>11. CASE UNCHANGED vars
    BY <1>a, <1>11 DEF vars, TypeOK
  <1> QED
    BY <1>1, <1>2, <1>3, <1>4, <1>5, <1>6, <1>7, <1>8, <1>9, <1>10, <1>11
    DEF Next, Proceed

\* What a step of another request leaves to request r.
Kept(r) ==
  /\ pc'[r] = pc[r] /\ read'[r] = read[r] /\ count'[r] = count[r]
  /\ rows'[r] = rows[r] /\ written'[r] = written[r]
  /\ r \in failed' <=> r \in failed
  /\ r \in unclear' <=> r \in unclear
  /\ lock'[UserOf[r]] = r <=> lock[UserOf[r]] = r
  /\ lock[UserOf[r]] = r => deposit'[UserOf[r]] = deposit[UserOf[r]]

LEMMA KeptInv ==
  ASSUME NEW r \in Requests, RowInv(r), WriteInv(r), CountInv(r), Kept(r)
  PROVE  RowInv(r)' /\ WriteInv(r)' /\ CountInv(r)'
  <1>1. RowInv(r)'
    BY DEF RowInv, Mine, Kept
  <1>2. WriteInv(r)'
    BY DEF WriteInv, Mine, Kept
  <1>3. CountInv(r)'
    BY DEF CountInv, Kept
  <1> QED
    BY <1>1, <1>2, <1>3

LEMMA OthersKept ==
  ASSUME IInv, NEW s \in Requests, NEW r \in Requests, r # s, Proceed(s)
  PROVE  Kept(r)
  <1>a. TypeOK /\ RowInv(s) /\ RowInv(r)
    BY DEF IInv
  <1>b. UserOf[r] \in Users /\ UserOf[s] \in Users /\ r # Nobody /\ s # Nobody
    OBVIOUS
  <1> USE <1>a, <1>b DEF TypeOK, At, Goto, nodeVars, dbVars, Kept
  <1>1. CASE GetConnection(s)
    BY <1>1 DEF GetConnection
  <1>2. CASE BeginTransaction(s)
    BY <1>2 DEF BeginTransaction
  <1>3. CASE Select(s)
    BY <1>3 DEF Select, SelectWhen
  <1>4. CASE Insert(s)
    BY <1>4 DEF Insert
  <1>5. CASE Update(s)
    BY <1>5 DEF Update, AllDone, AfterStatements
  <1>6. CASE Commit(s)
    <2>1. pc[s] = "commit" /\ Mine(s)
      BY <1>6 DEF Commit, RowInv
    <2>2. /\ pc'[r] = pc[r] /\ read'[r] = read[r] /\ count'[r] = count[r]
          /\ r \in failed' <=> r \in failed
          /\ r \in unclear' <=> r \in unclear
      BY <1>6 DEF Commit
    <2>3. Committed(s) =>
            /\ rows'[r] = rows[r] /\ written'[r] = written[r]
            /\ lock'[UserOf[r]] = r <=> lock[UserOf[r]] = r
            /\ lock[UserOf[r]] = r => deposit'[UserOf[r]] = deposit[UserOf[r]]
      <3>1. ASSUME Committed(s)
            PROVE  rows'[r] = rows[r] /\ written'[r] = written[r]
        BY <3>1 DEF Committed
      <3>2. ASSUME Committed(s)
            PROVE  lock'[UserOf[r]] = r <=> lock[UserOf[r]] = r
        BY <3>2 DEF Committed, Unlocked
      <3>3. ASSUME Committed(s), lock[UserOf[r]] = r
            PROVE  deposit'[UserOf[r]] = deposit[UserOf[r]]
        <4>1. UserOf[r] # UserOf[s]
          BY <2>1, <3>3 DEF Mine
        <4> QED
          BY <3>3, <4>1 DEF Committed
      <3> QED
        BY <3>1, <3>2, <3>3
    <2>4. \/ Committed(s)
          \/ UNCHANGED <<written, lock, deposit, rows>>
      BY <1>6 DEF Commit
    <2> QED
      BY <2>2, <2>3, <2>4
  <1>7. CASE Rollback(s)
    BY <1>7 DEF Rollback, Unlocked
  <1>8. CASE Release(s)
    BY <1>8 DEF Release
  <1>9. CASE Statistic(s)
    BY <1>9 DEF Statistic
  <1> QED
    BY <1>1, <1>2, <1>3, <1>4, <1>5, <1>6, <1>7, <1>8, <1>9 DEF Proceed

\* A request that moves keeps its own invariants.
LEMMA OwnStep ==
  ASSUME IInv, NEW r \in Requests, Proceed(r)
  PROVE  RowInv(r)' /\ WriteInv(r)' /\ CountInv(r)'
  <1>a. TypeOK /\ RowInv(r) /\ WriteInv(r) /\ CountInv(r)
    BY DEF IInv
  <1>b. /\ UserOf[r] \in Users /\ r # Nobody /\ Quantity[r] \in Nat
        /\ count[r] \in Nat /\ rows[r] \in Nat
    BY <1>a DEF TypeOK
  <1> USE DEF At, Goto, nodeVars, dbVars, Mine
  <1>1. CASE GetConnection(r)
    <2>1. /\ pc[r] = "connect" /\ pc'[r] \in {"begin", "error"}
          /\ read' = read /\ failed' = failed /\ count' = count
          /\ lock' = lock /\ deposit' = deposit /\ rows' = rows
          /\ unclear' = unclear /\ written' = written
      BY <1>a, <1>1 DEF GetConnection, TypeOK
    <2> QED
      BY <1>a, <1>b, <2>1 DEF RowInv, WriteInv, CountInv, Holding
  <1>2. CASE BeginTransaction(r)
    <2>1. /\ pc[r] = "begin"
          /\ \/ pc'[r] = "select" /\ failed' = failed
             \/ pc'[r] = "release" /\ failed' = failed \cup {r}
          /\ read' = read /\ count' = count
          /\ lock' = lock /\ deposit' = deposit /\ rows' = rows
          /\ unclear' = unclear /\ written' = written
      BY <1>a, <1>2 DEF BeginTransaction, TypeOK
    <2> QED
      BY <1>a, <1>b, <2>1 DEF RowInv, WriteInv, CountInv, Holding
  <1>3. CASE Select(r)
    <2>1. /\ pc[r] = "select" /\ pc'[r] = "insert"
          /\ count' = count /\ deposit' = deposit /\ rows' = rows
          /\ unclear' = unclear
          /\ \/ /\ failed' = failed /\ lock'[UserOf[r]] = r
                /\ read'[r] = deposit[UserOf[r]]
             \/ r \in failed' /\ lock' = lock /\ read' = read
      BY <1>a, <1>b, <1>3 DEF Select, SelectWhen, TypeOK
    <2> QED
      BY <1>a, <1>b, <2>1 DEF RowInv, WriteInv, CountInv, Holding
  <1>4. CASE Insert(r)
    <2>1. /\ pc[r] = "insert"
          /\ pc'[r] = IF lock[UserOf[r]] = r THEN "update" ELSE "rollback"
          /\ read' = read /\ count' = count /\ lock' = lock
          /\ deposit' = deposit /\ rows' = rows /\ unclear' = unclear
          /\ \/ "row" \in written'[r] /\ failed' = failed
             \/ failed' = failed \cup {r}
      BY <1>a, <1>4 DEF Insert, TypeOK
    <2> QED
      BY <1>a, <1>b, <2>1 DEF RowInv, WriteInv, CountInv, Holding
  <1>5. CASE Update(r)
    <2>1. /\ pc[r] = "update"
          /\ read' = read /\ count' = count /\ lock' = lock
          /\ deposit' = deposit /\ rows' = rows /\ unclear' = unclear
      BY <1>5 DEF Update
    <2>2. \/ /\ pc'[r] = IF r \in failed THEN "rollback" ELSE "commit"
             /\ failed' = failed
             /\ written'[r] = written[r] \cup {"deposit"}
          \/ /\ pc'[r] = "rollback" /\ failed' = failed \cup {r}
      BY <1>a, <1>5 DEF Update, AllDone, AfterStatements, TypeOK
    <2> QED
      BY <1>a, <1>b, <2>1, <2>2 DEF RowInv, WriteInv, CountInv, Holding
  <1>6. CASE Commit(r)
    <2>1. pc[r] = "commit" /\ count' = count /\ read' = read
      BY <1>6 DEF Commit
    <2>2. Committed(r) => rows'[r] = rows[r] + 1 /\ lock'[UserOf[r]] = Nobody
      BY <1>a, <1>b, <2>1 DEF Committed, Unlocked, WriteInv, RowInv, TypeOK
    <2>3. CASE /\ Committed(r) /\ pc'[r] = "release"
               /\ failed' = failed /\ unclear' = unclear
      BY <1>a, <1>b, <2>1, <2>2, <2>3 DEF RowInv, WriteInv, CountInv, Holding
    <2>4. CASE /\ pc'[r] = "rollback" /\ failed' = failed \cup {r}
               /\ UNCHANGED <<written, lock, deposit, rows, unclear>>
      BY <1>a, <1>b, <2>1, <2>4 DEF RowInv, WriteInv, CountInv, Holding
    <2>5. CASE /\ Committed(r) /\ pc'[r] = "rollback"
               /\ failed' = failed \cup {r} /\ unclear' = unclear \cup {r}
      BY <1>a, <1>b, <2>1, <2>2, <2>5 DEF RowInv, WriteInv, CountInv, Holding
    <2>6. pc \in [Requests -> {"connect", "statistic"} \cup Holding \cup Replies]
      BY <1>a DEF TypeOK
    <2> QED
      BY <1>6, <2>3, <2>4, <2>5, <2>6 DEF Commit
  <1>7. CASE Rollback(r)
    <2>1. /\ pc[r] = "rollback" /\ pc'[r] = "release"
          /\ lock'[UserOf[r]] # r
          /\ failed' = failed /\ count' = count /\ rows' = rows
          /\ unclear' = unclear
      BY <1>a, <1>b, <1>7 DEF Rollback, Unlocked, TypeOK
    <2> QED
      BY <1>a, <1>b, <2>1 DEF RowInv, WriteInv, CountInv, Holding
  <1>8. CASE Release(r)
    <2>1. /\ pc[r] = "release"
          /\ pc'[r] = IF r \in failed THEN "error" ELSE "statistic"
          /\ lock' = lock /\ deposit' = deposit /\ read' = read
          /\ failed' = failed /\ count' = count /\ rows' = rows
          /\ unclear' = unclear /\ written' = written
      BY <1>a, <1>8 DEF Release, TypeOK
    <2> QED
      BY <1>a, <1>b, <2>1 DEF RowInv, WriteInv, CountInv, Holding
  <1>9. CASE Statistic(r)
    <2>1. /\ pc[r] = "statistic"
          /\ lock' = lock /\ deposit' = deposit /\ read' = read
          /\ failed' = failed /\ rows' = rows
          /\ unclear' = unclear /\ written' = written
      BY <1>9 DEF Statistic
    <2>2. \/ /\ count'[r] = count[r] + 1
             /\ pc'[r] = IF count[r] + 1 < Quantity[r] THEN "connect" ELSE "ok"
          \/ count'[r] = count[r] /\ pc'[r] = "silent"
      BY <1>a, <1>9 DEF Statistic, More, TypeOK
    <2> QED
      BY <1>a, <1>b, <2>1, <2>2 DEF RowInv, WriteInv, CountInv, Holding
  <1> QED
    BY <1>1, <1>2, <1>3, <1>4, <1>5, <1>6, <1>7, <1>8, <1>9 DEF Proceed

\* A crash frees every row and leaves replies and committed state alone.
LEMMA CrashStep ==
  ASSUME IInv, Crash, NEW r \in Requests
  PROVE  RowInv(r)' /\ WriteInv(r)' /\ CountInv(r)'
  <1>a. TypeOK /\ RowInv(r) /\ WriteInv(r) /\ CountInv(r)
    BY DEF IInv
  <1>1. /\ pc'[r] = IF pc[r] \in Replies THEN pc[r] ELSE "lost"
        /\ lock'[UserOf[r]] # r
        /\ read' = read /\ failed' = failed /\ count' = count
        /\ deposit' = deposit /\ rows' = rows /\ unclear' = unclear
    BY DEF Crash
  <1>2. RowInv(r)'
    BY <1>1 DEF RowInv, Mine, Replies
  <1>3. WriteInv(r)'
    BY <1>1 DEF WriteInv, Replies
  <1>4. CountInv(r)'
    BY <1>a, <1>1 DEF CountInv, Replies, Holding
  <1> QED
    BY <1>2, <1>3, <1>4

LEMMA Inductive == IInv /\ [Next]_vars => IInv'
  <1> SUFFICES ASSUME IInv, [Next]_vars PROVE IInv'
    OBVIOUS
  <1>1. TypeOK' /\ IsFiniteSet(conns)'
    BY TypeStep
  <1>2. ASSUME NEW r \in Requests
        PROVE  RowInv(r)' /\ WriteInv(r)' /\ CountInv(r)'
    <2>a. RowInv(r) /\ WriteInv(r) /\ CountInv(r)
      BY DEF IInv
    <2>1. ASSUME NEW s \in Requests, Proceed(s)
          PROVE  RowInv(r)' /\ WriteInv(r)' /\ CountInv(r)'
      <3>1. CASE s = r
        BY <2>1, <3>1, OwnStep
      <3>2. CASE s # r
        BY <2>a, <2>1, <3>2, OthersKept, KeptInv
      <3> QED
        BY <3>1, <3>2
    <2>2. CASE Crash
      BY <2>2, CrashStep
    <2>3. CASE UNCHANGED vars
      <3>1. Kept(r)
        BY <2>3 DEF vars, Kept
      <3> QED
        BY <2>a, <3>1, KeptInv
    <2> QED
      BY <2>1, <2>2, <2>3 DEF Next
  <1> QED
    BY <1>1, <1>2 DEF IInv

\* IInv holds in every reachable state.
THEOREM Invariance == Spec => []IInv
  BY InitInv, Inductive, PTL DEF Spec

\* Types, and the limit of the pool.
THEOREM TypeCorrect == Spec => []TypeOK
  <1>1. IInv => TypeOK
    BY DEF IInv
  <1> QED
    BY <1>1, Invariance, PTL

\* What a client is told is true of the database.
THEOREM RepliesAreTrue == Spec => []ReplyIsTrue
  <1>1. IInv => ReplyIsTrue
    BY DEF IInv, CountInv, ReplyIsTrue, At
  <1> QED
    BY <1>1, Invariance, PTL

\* The only steps that touch committed state are commits, and a commit is
\* one Book of the abstract account book.
LEMMA CommitBooks ==
  ASSUME IInv, NEW r \in Requests, Commit(r),
         ~UNCHANGED <<deposit, rows>>
  PROVE  Book!Book(r)
  <1>a. TypeOK /\ RowInv(r) /\ WriteInv(r) /\ CountInv(r)
    BY DEF IInv
  <1>1. pc[r] = "commit" /\ Committed(r)
    BY DEF Commit, At
  <1>2. /\ "row" \in written[r] /\ "deposit" \in written[r]
        /\ read[r] = deposit[UserOf[r]]
        /\ rows[r] < Quantity[r]
    BY <1>a, <1>1 DEF RowInv, WriteInv, CountInv, Holding
  <1>3. /\ rows' = [rows EXCEPT ![r] = @ + 1]
        /\ deposit' = [deposit EXCEPT ![UserOf[r]] = @ + AmountOf[r]]
    BY <1>a, <1>1, <1>2 DEF Committed, NewDeposit, TypeOK
  <1> QED
    BY <1>2, <1>3 DEF Book!Book

LEMMA StepRefines ==
  IInv /\ [Next]_vars => [Book!Next]_<<deposit, rows>>
  <1> SUFFICES ASSUME IInv, [Next]_vars, ~UNCHANGED <<deposit, rows>>
               PROVE  Book!Next
    OBVIOUS
  <1>1. ~Crash /\ ~UNCHANGED vars
    BY DEF Crash, vars
  <1>2. PICK r \in Requests : Proceed(r)
    BY <1>1 DEF Next
  <1>3. Commit(r)
    BY <1>2 DEF Proceed, GetConnection, BeginTransaction, Select, SelectWhen,
       Insert, Update, Rollback, Release, Statistic, dbVars
  <1>4. Book!Book(r)
    BY <1>3, CommitBooks
  <1> QED
    BY <1>4 DEF Book!Next

\* The executor implements the account book: any interleaving, failure or
\* crash enters transactions whole, and no request more than it asked for.
THEOREM Refinement == Spec => EntersWhole
  <1>1. Init => Book!Init
    BY DEF Init, Book!Init
  <1> QED
    BY <1>1, StepRefines, Invariance, PTL DEF Spec, EntersWhole, Book!Spec

=============================================================================
