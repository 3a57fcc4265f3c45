----------------------------- MODULE AccountBook -----------------------------
(***************************************************************************)
(* What the web server promises about money: a transaction is entered once *)
(* and whole.  The row in table transactions and the new currentDeposit of *)
(* the depositor appear together, whatever else is being booked, and no    *)
(* request enters more transactions than it asks for.                      *)
(***************************************************************************)
EXTENDS Integers

CONSTANTS
  Users,      \* accounts
  Requests,   \* booking requests
  UserOf,     \* the toDepositor of a request
  AmountOf,   \* the amount of one of its transactions, in cents
  Quantity    \* how many transactions it asks for

VARIABLES
  balance,    \* currentDeposit of each user
  entries     \* rows of each request in table transactions

Init ==
  /\ balance = [u \in Users |-> 0]
  /\ entries = [r \in Requests |-> 0]

Book(r) ==
  /\ entries[r] < Quantity[r]
  /\ entries' = [entries EXCEPT ![r] = @ + 1]
  /\ balance' = [balance EXCEPT ![UserOf[r]] = @ + AmountOf[r]]

Next == \E r \in Requests : Book(r)

Spec == Init /\ [][Next]_<<balance, entries>>

=============================================================================
