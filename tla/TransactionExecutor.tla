------------------------- MODULE TransactionExecutor -------------------------
(***************************************************************************)
(* NewTransactionExecutor.proceed (webServer/lib/db), as it is called by   *)
(* addBooking.js (once per request) and newTransaction.js (quantity times, *)
(* one call after the other).  Requests run concurrently in one node       *)
(* process: they share the connection pool and, in the database, the rows  *)
(* of the users.                                                           *)
(*                                                                         *)
(* The statements of a call are queued on one connection, so they run in   *)
(* the order SELECT, INSERT, UPDATE although async.parallel issues them.   *)
(* The database isolates: what an open transaction wrote (written) is seen *)
(* by nobody before its commit, and SELECT ... FOR UPDATE holds the row of *)
(* the user until then.  Any statement may fail; money is in cents.        *)
(***************************************************************************)
EXTENDS Integers, FiniteSets

CONSTANTS
  Users, Requests, UserOf, AmountOf, Quantity,   \* as in AccountBook
  Nobody,     \* holder of a row that is not locked
  PoolSize,   \* connectionLimit of the pool
  MaxFaults   \* bound on failing statements and crashes

ASSUME ExecutorAssumption ==
  /\ UserOf \in [Requests -> Users]
  /\ AmountOf \in [Requests -> Int]
  /\ Quantity \in [Requests -> Nat \ {0}]
  /\ Nobody \notin Requests
  /\ PoolSize \in Nat \ {0}
  /\ MaxFaults \in Nat

VARIABLES
  pc,         \* the step of proceed each request is at, or its reply
  conns,      \* requests that hold a connection of the pool
  read,       \* the deposit each request read
  failed,     \* requests whose call has met an error
  count,      \* calls of each request that were resolved (newTransaction.js)
  written,    \* what the open transaction of each request has written
  lock,       \* who holds the row of each user
  deposit,    \* users.currentDeposit, committed
  rows,       \* rows of each request in table transactions, committed
  \* history
  unclear,    \* requests whose commit worked although it was reported to fail
  faults

nodeVars == <<pc, conns, read, failed, count>>
dbVars   == <<written, lock, deposit, rows, unclear>>
vars     == <<pc, conns, read, failed, count, written, lock, deposit, rows,
              unclear, faults>>

Replies == {"ok", "error", "silent", "lost"}
Holding == {"begin", "select", "insert", "update", "commit", "rollback",
            "release"}

TypeOK ==
  /\ pc \in [Requests -> {"connect", "statistic"} \cup Holding \cup Replies]
  /\ conns \subseteq Requests /\ Cardinality(conns) <= PoolSize
  /\ read \in [Requests -> Int]
  /\ failed \subseteq Requests
  /\ count \in [Requests -> Nat]
  /\ written \in [Requests -> SUBSET {"row", "deposit"}]
  /\ lock \in [Users -> Requests \cup {Nobody}]
  /\ deposit \in [Users -> Int]
  /\ rows \in [Requests -> Nat]
  /\ unclear \subseteq Requests
  /\ faults \in 0..MaxFaults

Init ==
  /\ pc = [r \in Requests |-> "connect"]
  /\ conns = {}
  /\ read = [r \in Requests |-> 0]
  /\ failed = {}
  /\ count = [r \in Requests |-> 0]
  /\ written = [r \in Requests |-> {}]
  /\ lock = [u \in Users |-> Nobody]
  /\ deposit = [u \in Users |-> 0]
  /\ rows = [r \in Requests |-> 0]
  /\ unclear = {}
  /\ faults = 0

Fault == faults < MaxFaults /\ faults' = faults + 1

At(r, here)   == pc[r] = here
Goto(r, next) == pc' = [pc EXCEPT ![r] = next]
Unlocked(r)   == [u \in Users |-> IF lock[u] = r THEN Nobody ELSE lock[u]]

-----------------------------------------------------------------------------
PoolHasRoom == Cardinality(conns) < PoolSize

GetConnection(r) ==
  /\ At(r, "connect")
  /\ \/ /\ PoolHasRoom
        /\ conns' = conns \cup {r}
        /\ Goto(r, "begin")
        /\ UNCHANGED faults
     \/ Fault /\ Goto(r, "error") /\ UNCHANGED conns
  /\ UNCHANGED <<read, failed, count>>
  /\ UNCHANGED dbVars

BeginTransaction(r) ==
  /\ At(r, "begin")
  /\ \/ Goto(r, "select") /\ UNCHANGED <<failed, faults>>
     \/ Fault /\ Goto(r, "release") /\ failed' = failed \cup {r}
  /\ UNCHANGED <<conns, read, count>>
  /\ UNCHANGED dbVars

SelectWhen(r, free) ==
  /\ At(r, "select")
  /\ \/ /\ free
        /\ lock' = [lock EXCEPT ![UserOf[r]] = r]
        /\ read' = [read EXCEPT ![r] = deposit[UserOf[r]]]
        /\ UNCHANGED <<failed, faults>>
     \/ Fault /\ failed' = failed \cup {r} /\ UNCHANGED <<lock, read>>
  /\ Goto(r, "insert")
  /\ UNCHANGED <<conns, count, written, deposit, rows, unclear>>

BugNoForUpdate(r) == SelectWhen(r, TRUE)

\* SELECT currentDeposit ... FOR UPDATE waits for the row.
Select(r) == SelectWhen(r, lock[UserOf[r]] = Nobody)

\* INSERT INTO transactions was queued behind the SELECT and runs even if
\* that failed; the UPDATE is queued only by the answer to the SELECT.
Insert(r) ==
  /\ At(r, "insert")
  /\ \/ /\ written' = [written EXCEPT ![r] = @ \cup {"row"}]
        /\ UNCHANGED <<failed, faults>>
     \/ Fault /\ failed' = failed \cup {r} /\ UNCHANGED written
  /\ Goto(r, IF lock[UserOf[r]] = r THEN "update" ELSE "rollback")
  /\ UNCHANGED <<conns, read, count, lock, deposit, rows, unclear>>

\* async.parallel: commit unless one of the statements failed.
AfterStatements(r, fails) == IF fails THEN "rollback" ELSE "commit"

BugErrorsIgnored(r, fails) == "commit"
AllDone(r, fails) == AfterStatements(r, fails)

Update(r) ==
  /\ At(r, "update")
  /\ \/ /\ written' = [written EXCEPT ![r] = @ \cup {"deposit"}]
        /\ Goto(r, AllDone(r, r \in failed))
        /\ UNCHANGED <<failed, faults>>
     \/ /\ Fault
        /\ failed' = failed \cup {r}
        /\ Goto(r, AllDone(r, TRUE))
        /\ UNCHANGED written
  /\ UNCHANGED <<conns, read, count, lock, deposit, rows, unclear>>

\* updatedDeposit
NewDeposit(r) == read[r] + AmountOf[r]

\* What the database makes of COMMIT: both writes or none.
Committed(r) ==
  /\ rows' = IF "row" \in written[r] THEN [rows EXCEPT ![r] = @ + 1] ELSE rows
  /\ deposit' = IF "deposit" \in written[r]
                  THEN [deposit EXCEPT ![UserOf[r]] = NewDeposit(r)]
                  ELSE deposit
  /\ written' = [written EXCEPT ![r] = {}]
  /\ lock' = Unlocked(r)

\* The third outcome: the connection breaks after the database committed.
Commit(r) ==
  /\ At(r, "commit")
  /\ \/ /\ Committed(r)
        /\ Goto(r, "release")
        /\ UNCHANGED <<failed, unclear, faults>>
     \/ /\ Fault
        /\ failed' = failed \cup {r}
        /\ Goto(r, "rollback")
        /\ UNCHANGED <<written, lock, deposit, rows, unclear>>
     \/ /\ Fault
        /\ Committed(r)
        /\ failed' = failed \cup {r}
        /\ unclear' = unclear \cup {r}
        /\ Goto(r, "rollback")
  /\ UNCHANGED <<conns, read, count>>

Rollback(r) ==
  /\ At(r, "rollback")
  /\ written' = [written EXCEPT ![r] = {}]
  /\ lock' = Unlocked(r)
  /\ Goto(r, "release")
  /\ UNCHANGED <<conns, read, failed, count, deposit, rows, unclear, faults>>

BugNotReleased(r) == conns
Released(r) == conns \ {r}

\* The connection goes back before the statistic asks for another one.
Release(r) ==
  /\ At(r, "release")
  /\ conns' = Released(r)
  /\ Goto(r, IF r \in failed THEN "error" ELSE "statistic")
  /\ UNCHANGED <<read, failed, count, faults>>
  /\ UNCHANGED dbVars

BugOneTooMany(r) == count[r] < Quantity[r]

\* async.whilst: does the request ask for another transaction?
More(r) == count[r] + 1 < Quantity[r]

\* INSERT INTO transactionStatistic on a connection of its own.  If it fails,
\* the promise is never settled and the request never answered.
Statistic(r) ==
  /\ At(r, "statistic")
  /\ PoolHasRoom
  /\ \/ /\ count' = [count EXCEPT ![r] = @ + 1]
        /\ Goto(r, IF More(r) THEN "connect" ELSE "ok")
        /\ UNCHANGED faults
     \/ Fault /\ Goto(r, "silent") /\ UNCHANGED count
  /\ UNCHANGED <<conns, read, failed>>
  /\ UNCHANGED dbVars

\* The node process dies; the database rolls back what it had open.
Crash ==
  /\ Fault
  /\ pc' = [r \in Requests |-> IF pc[r] \in Replies THEN pc[r] ELSE "lost"]
  /\ conns' = {}
  /\ written' = [r \in Requests |-> {}]
  /\ lock' = [u \in Users |-> Nobody]
  /\ UNCHANGED <<read, failed, count, deposit, rows, unclear>>

Proceed(r) ==
  \/ GetConnection(r)
  \/ BeginTransaction(r)
  \/ Select(r)
  \/ Insert(r)
  \/ Update(r)
  \/ Commit(r)
  \/ Rollback(r)
  \/ Release(r)
  \/ Statistic(r)

Next == (\E r \in Requests : Proceed(r)) \/ Crash

Spec == Init /\ [][Next]_vars

\* node's event loop and the database get around to every request.
FairSpec == Spec /\ \A r \in Requests : WF_vars(Proceed(r))

-----------------------------------------------------------------------------
(* Properties *)

Book == INSTANCE AccountBook WITH balance <- deposit, entries <- rows

\* However requests interleave, fail or crash, rows and deposits change as if
\* each transaction were entered at once: no update of a deposit is lost and
\* none is half made.
EntersWhole == Book!Spec

\* The reply is true: "ok" when everything asked for is booked; an error only
\* when the last transaction is not, and those before it are (newTransaction
\* gives no hint of them); silence only when the last one is.
ReplyIsTrue ==
  \A r \in Requests :
    /\ At(r, "ok") => rows[r] = Quantity[r]
    /\ At(r, "error") /\ r \notin unclear =>
         rows[r] = count[r] /\ rows[r] < Quantity[r]
    /\ At(r, "silent") => rows[r] = count[r] + 1

\* No request waits for ever, for a row or for a connection: a connection is
\* never held while another one is waited for.
EveryRequestEnds == \A r \in Requests : <>(pc[r] \in Replies)

=============================================================================
