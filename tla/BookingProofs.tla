---------------------------- MODULE BookingProofs ----------------------------
(***************************************************************************)
(* Proofs about what becomes of a booking: in BookingBackup, for every set *)
(* of bookings and any number of faults and crashes, and in the charts of  *)
(* CoffeeStatistics, for every calendar and any number of bookings.        *)
(*                                                                         *)
(* The backup is a balance per booking: Account(b) changes only together   *)
(* with taken (a booking is handed over), with unanswered (the server      *)
(* books what the client will send again), with doubled (a truncation      *)
(* fails after the copy) or with exposed (a line is lost).  It needs to    *)
(* know who holds what (HoldInv), that one thread at most drains the tmp   *)
(* file (ThreadInv), and that between the copy and the truncation the      *)
(* backup file holds at least what was copied (MoveInv).                   *)
(*                                                                         *)
(* The charts partition rows: a sum is the size of a set of pairs, so the  *)
(* sums of disjoint parts add up to the sum of their union (PartsAdd), and *)
(* what is left is that the calendar and the trimmed dates put each row    *)
(* into one part (RowsInv, ChartInv).                                      *)
(***************************************************************************)
EXTENDS BookingBackup, CoffeeStatistics, FiniteSetTheorems, TLAPS

-----------------------------------------------------------------------------
(* The backup.                                                             *)

HoldInv ==
  /\ ctl \in {"push", "store"} <=> cur # None
  /\ thread \in {"send", "restore"} <=> line # None

ThreadInv ==
  /\ thread # "none" => startThread
  /\ ctl = "create" => startThread /\ thread = "none"

MoveInv ==
  thread = "truncate" => \A b \in Bookings : tmp[b] <= backup[b]

BInv == TypeOK /\ HoldInv /\ ThreadInv /\ MoveInv

USE BookingsAssumption

\* One more line.
LEMMA AddIs ==
  ASSUME NEW f \in Bag, NEW b \in Bookings
  PROVE  /\ Add(f, b) \in Bag
         /\ \A c \in Bookings :
              Add(f, b)[c] = IF c = b THEN f[c] + 1 ELSE f[c]
  BY DEF Add, Bag

\* One line less.
LEMMA DropIs ==
  ASSUME NEW f \in Bag, NEW b \in Bookings, f[b] > 0
  PROVE  /\ Drop(f, b) \in Bag
         /\ \A c \in Bookings :
              Drop(f, b)[c] = IF c = b THEN f[c] - 1 ELSE f[c]
  <1>1. f[b] - 1 \in Nat
    BY DEF Bag
  <1> QED
    BY <1>1 DEF Drop, Bag

\* A part of a file is a bag, and no line is in it more often.
LEMMA PartsAre ==
  ASSUME NEW f \in Bag, NEW part \in PartsOf(f)
  PROVE  part \in Bag /\ \A b \in Bookings : part[b] <= f[b]
  <1>1. UNION {0 .. f[b] : b \in Bookings} \subseteq Nat
    BY DEF Bag
  <1>2. /\ part \in [Bookings -> UNION {0 .. f[b] : b \in Bookings}]
        /\ \A b \in Bookings : part[b] <= f[b]
    BY DEF PartsOf
  <1> QED
    BY <1>1, <1>2 DEF Bag

\* What a write does to the file and to exposed.
LEMMA WriteIs ==
  ASSUME TypeOK, NEW b \in Bookings, WriteInBackup(b)
  PROVE  /\ backup' \in Bag
         /\ exposed' \in SUBSET Bookings /\ exposed \subseteq exposed'
         /\ \A c \in Bookings :
              \/ backup'[c] = backup[c] + One(c = b)
              \/ c = b /\ backup'[c] = backup[c] /\ c \in exposed'
         /\ \A c \in Bookings : backup'[c] >= backup[c]
         /\ faults' \in 0..MaxFaults
  <1>1. backup \in Bag /\ exposed \subseteq Bookings
    BY DEF TypeOK
  <1>f. faults' \in 0..MaxFaults
    BY DEF WriteInBackup, Fault, TypeOK
  <1>2. CASE backup' = Add(backup, b) /\ exposed' = exposed
    <2>1. /\ backup' \in Bag
          /\ \A c \in Bookings :
               backup'[c] = IF c = b THEN backup[c] + 1 ELSE backup[c]
      BY <1>1, <1>2, AddIs
    <2>2. \A c \in Bookings : backup[c] \in Nat
      BY <1>1 DEF Bag
    <2> QED
      BY <1>1, <1>f, <1>2, <2>1, <2>2 DEF One
  <1>3. CASE exposed' = exposed \cup {b} /\ backup' = backup
    <2>1. \A c \in Bookings : backup[c] \in Nat
      BY <1>1 DEF Bag
    <2> QED
      BY <1>1, <1>f, <1>3, <2>1 DEF One
  <1> QED
    BY <1>2, <1>3 DEF WriteInBackup

\* What the server may make of a push.
LEMMA ServerIs ==
  ASSUME TypeOK, NEW b \in Bookings,
         Booked(b) \/ BookedUnanswered(b) \/ NotBooked(b)
  PROVE  /\ ledger' \in Bag /\ unanswered' \in Bag /\ faults' \in 0..MaxFaults
         /\ Booked(b) =>
              \A c \in Bookings : /\ ledger'[c] = ledger[c] + One(c = b)
                                  /\ unanswered'[c] = unanswered[c]
         /\ BookedUnanswered(b) =>
              \A c \in Bookings :
                /\ ledger'[c] = ledger[c] + One(c = b)
                /\ unanswered'[c] = unanswered[c] + One(c = b)
         /\ NotBooked(b) => ledger' = ledger /\ unanswered' = unanswered
  <1>1. /\ ledger \in Bag /\ unanswered \in Bag
        /\ MaxFaults \in Nat /\ faults \in 0..MaxFaults
    BY DEF TypeOK
  <1>2. \A c \in Bookings : ledger[c] \in Nat /\ unanswered[c] \in Nat
    BY <1>1 DEF Bag
  <1>3. /\ Add(ledger, b) \in Bag /\ Add(unanswered, b) \in Bag
        /\ \A c \in Bookings :
             /\ Add(ledger, b)[c] = ledger[c] + One(c = b)
             /\ Add(unanswered, b)[c] = unanswered[c] + One(c = b)
    BY <1>1, <1>2, AddIs DEF One
  <1>4. Booked(b) => ledger' = Add(ledger, b) /\ unanswered' = unanswered
                     /\ faults' = faults
    BY DEF Booked
  <1>5. BookedUnanswered(b) =>
          /\ ledger' = Add(ledger, b) /\ unanswered' = Add(unanswered, b)
          /\ faults' \in 0..MaxFaults
    BY <1>1 DEF BookedUnanswered, Fault
  <1>6. NotBooked(b) => ledger' = ledger /\ unanswered' = unanswered
                        /\ faults' \in 0..MaxFaults
    BY <1>1 DEF NotBooked, Fault, serverVars
  <1> QED
    BY <1>1, <1>3, <1>4, <1>5, <1>6

LEMMA BInitInv == Init => BInv
  <1> SUFFICES ASSUME Init PROVE BInv
    OBVIOUS
  <1>1. Empty \in Bag
    BY DEF Empty, Bag
  <1>2. /\ backup \in Bag /\ tmp \in Bag /\ ledger \in Bag
        /\ unanswered \in Bag /\ doubled \in Bag
    BY <1>1 DEF Init
  <1>3. TypeOK
    <2>1. faults \in 0..MaxFaults /\ stops \in 0..MaxStops
      BY DEF Init
    <2>2. /\ mainLoop \in BOOLEAN /\ startThread \in BOOLEAN
          /\ cur \in Bookings \cup {None} /\ line \in Bookings \cup {None}
          /\ taken \subseteq Bookings /\ exposed \subseteq Bookings
      BY DEF Init
    <2> QED
      BY <1>2, <2>1, <2>2 DEF Init, TypeOK
  <1>4. HoldInv
    BY DEF Init, HoldInv
  <1>5. ThreadInv
    BY DEF Init, ThreadInv
  <1>6. MoveInv
    BY DEF Init, MoveInv
  <1> QED
    BY <1>3, <1>4, <1>5, <1>6 DEF BInv

\* What the provers may use of TypeOK about counts.
LEMMA Counts ==
  ASSUME TypeOK, NEW b \in Bookings
  PROVE  /\ backup[b] \in Nat /\ tmp[b] \in Nat
         /\ ledger[b] \in Nat /\ unanswered[b] \in Nat /\ doubled[b] \in Nat
         /\ Account(b) \in Nat
  <1>1. /\ backup[b] \in Nat /\ tmp[b] \in Nat
        /\ ledger[b] \in Nat /\ unanswered[b] \in Nat /\ doubled[b] \in Nat
    BY DEF TypeOK, Bag
  <1> QED
    BY <1>1 DEF Account, One

\* Types, and who holds what, one step at a time.
LEMMA HoldStep == BInv /\ [Next]_vars => BInv'
  <1> SUFFICES ASSUME BInv, [Next]_vars PROVE BInv'
    OBVIOUS
  <1>a. TypeOK /\ HoldInv /\ ThreadInv /\ MoveInv
    BY DEF BInv
  <1>b. TypeOK' /\ HoldInv' /\ ThreadInv' /\ MoveInv' => BInv'
    BY DEF BInv
  <1> USE <1>a DEF ctlVars, threadVars, serverVars
  <1>1. ASSUME NEW b \in Bookings, TakeBooking(b)
        PROVE  BInv'
    <2>1. TypeOK'
      BY <1>1 DEF TakeBooking, TypeOK
    <2>2. HoldInv' /\ ThreadInv' /\ MoveInv'
      BY <1>1 DEF TakeBooking, HoldInv, ThreadInv, MoveInv
    <2> QED
      BY <1>b, <2>1, <2>2
  <1>2. CASE OtherBooking
    <2>1. TypeOK'
      BY <1>2 DEF OtherBooking, TypeOK
    <2>2. HoldInv' /\ ThreadInv' /\ MoveInv'
      BY <1>2 DEF OtherBooking, HoldInv, ThreadInv, MoveInv
    <2> QED
      BY <1>b, <2>1, <2>2
  <1>3. CASE Push
    <2>1. cur \in Bookings
      BY <1>3 DEF Push, HoldInv, TypeOK
    <2>2. Booked(cur) \/ BookedUnanswered(cur) \/ NotBooked(cur)
      BY <1>3 DEF Push
    <2>3. /\ ledger' \in Bag /\ unanswered' \in Bag
          /\ faults' \in 0..MaxFaults
      BY <2>1, <2>2, ServerIs
    <2>4. TypeOK'
      BY <1>3, <2>3 DEF Push, TypeOK
    <2>5. HoldInv' /\ ThreadInv' /\ MoveInv'
      BY <1>3, <2>1 DEF Push, HoldInv, ThreadInv, MoveInv
    <2> QED
      BY <1>b, <2>4, <2>5
  <1>4. CASE Store
    <2>1. cur \in Bookings
      BY <1>4 DEF Store, HoldInv, TypeOK
    <2>2. backup' \in Bag /\ exposed' \subseteq Bookings
          /\ faults' \in 0..MaxFaults
      BY <1>4, <2>1, WriteIs DEF Store
    <2>a. \A c \in Bookings : backup'[c] >= backup[c]
      BY <1>4, <2>1, WriteIs DEF Store
    <2>3. TypeOK'
      BY <1>4, <2>2 DEF Store, TypeOK
    <2>4. HoldInv' /\ ThreadInv'
      BY <1>4 DEF Store, HoldInv, ThreadInv
    <2>5. \A c \in Bookings :
            backup[c] \in Nat /\ tmp[c] \in Nat /\ backup'[c] \in Nat
      BY <2>2 DEF TypeOK, Bag
    <2>6. MoveInv'
      BY <1>4, <2>2, <2>a, <2>5 DEF Store, MoveInv
    <2> QED
      BY <1>b, <2>3, <2>4, <2>6
  <1>5. CASE Check
    <2>1. faults' \in 0..MaxFaults
      BY <1>5 DEF Check, CheckWhen, Fault, TypeOK
    <2>2. startThread' \in BOOLEAN
      BY <1>5 DEF Check, CheckWhen, TypeOK
    <2>3. ctl' \in {"create", "idle"}
      BY <1>5 DEF Check, CheckWhen
    <2>4. TypeOK'
      BY <1>5, <2>1, <2>2, <2>3 DEF Check, CheckWhen, TypeOK
    <2>5. HoldInv' /\ ThreadInv' /\ MoveInv'
      BY <1>5 DEF Check, CheckWhen, HoldInv, ThreadInv, MoveInv
    <2> QED
      BY <1>b, <2>4, <2>5
  <1>6. CASE Create
    <2>1. TypeOK'
      BY <1>6 DEF Create, Fault, TypeOK
    <2>2. HoldInv' /\ ThreadInv' /\ MoveInv'
      BY <1>6 DEF Create, HoldInv, ThreadInv, MoveInv
    <2> QED
      BY <1>b, <2>1, <2>2
  <1>7. CASE Terminate
    <2>1. stops' \in 0..MaxStops
      BY <1>7 DEF Terminate, Stop, TypeOK
    <2>2. TypeOK'
      BY <1>7, <2>1 DEF Terminate, TypeOK
    <2>3. HoldInv' /\ ThreadInv' /\ MoveInv'
      BY <1>7 DEF Terminate, HoldInv, ThreadInv, MoveInv
    <2> QED
      BY <1>b, <2>2, <2>3
  <1>8. CASE Open
    <2>1. Empty \in Bag
      BY DEF Empty, Bag
    <2>2. TypeOK'
      BY <1>8, <2>1 DEF Open, Fault, TypeOK
    <2>3. HoldInv' /\ ThreadInv' /\ MoveInv'
      BY <1>8 DEF Open, HoldInv, ThreadInv, MoveInv
    <2> QED
      BY <1>b, <2>2, <2>3
  <1>9. CASE Copy
    <2>1. /\ tmp' \in Bag /\ faults' \in 0..MaxFaults
          /\ \A b \in Bookings : tmp'[b] <= backup[b]
      BY <1>9, PartsAre DEF Copy, Fault, TypeOK, Bag
    <2>2. TypeOK'
      BY <1>9, <2>1 DEF Copy, TypeOK
    <2>3. HoldInv' /\ ThreadInv' /\ MoveInv'
      BY <1>9, <2>1 DEF Copy, HoldInv, ThreadInv, MoveInv
    <2> QED
      BY <1>b, <2>2, <2>3
  <1>10. CASE Truncate
    <2>1. backup' \in Bag
      BY <1>10 DEF Truncate, Truncated, Empty, Bag, TypeOK
    <2>2. doubled' \in Bag
      BY <1>10 DEF Truncate, TypeOK, Bag
    <2>3. exposed' \subseteq Bookings /\ faults' \in 0..MaxFaults
      BY <1>10 DEF Truncate, Fault, TypeOK
    <2>4. TypeOK'
      BY <1>10, <2>1, <2>2, <2>3 DEF Truncate, TypeOK, Draining
    <2>5. HoldInv' /\ ThreadInv' /\ MoveInv'
      BY <1>10 DEF Truncate, HoldInv, ThreadInv, MoveInv
    <2> QED
      BY <1>b, <2>4, <2>5
  <1>11. CASE NextLine
    <2>1. PICK b \in Bookings :
            tmp[b] > 0 /\ line' = b /\ tmp' = Drop(tmp, b)
      BY <1>11 DEF NextLine, HasLine
    <2>2. tmp' \in Bag
      BY <2>1, DropIs DEF TypeOK
    <2>3. TypeOK'
      BY <1>11, <2>1, <2>2 DEF NextLine, HasLine, TypeOK, Draining
    <2>4. HoldInv' /\ ThreadInv' /\ MoveInv'
      BY <1>11, <2>1 DEF NextLine, HasLine, HoldInv, ThreadInv, MoveInv
    <2> QED
      BY <1>b, <2>3, <2>4
  <1>12. CASE Send
    <2>1. line \in Bookings
      BY <1>12 DEF Send, HoldInv, TypeOK
    <2>2. Booked(line) \/ BookedUnanswered(line) \/ NotBooked(line)
      BY <1>12 DEF Send
    <2>3. /\ ledger' \in Bag /\ unanswered' \in Bag
          /\ faults' \in 0..MaxFaults
      BY <2>1, <2>2, ServerIs
    <2>4. TypeOK'
      BY <1>12, <2>3 DEF Send, TypeOK, Draining
    <2>5. HoldInv' /\ ThreadInv' /\ MoveInv'
      BY <1>12, <2>1 DEF Send, HoldInv, ThreadInv, MoveInv
    <2> QED
      BY <1>b, <2>4, <2>5
  <1>13. CASE Restore
    <2>1. line \in Bookings
      BY <1>13 DEF Restore, RestoreThen, HoldInv, TypeOK
    <2>2. backup' \in Bag /\ exposed' \subseteq Bookings
          /\ faults' \in 0..MaxFaults
      BY <1>13, <2>1, WriteIs DEF Restore, RestoreThen
    <2>3. TypeOK'
      BY <1>13, <2>2 DEF Restore, RestoreThen, TypeOK, Draining
    <2>4. HoldInv' /\ ThreadInv' /\ MoveInv'
      BY <1>13 DEF Restore, RestoreThen, HoldInv, ThreadInv, MoveInv
    <2> QED
      BY <1>b, <2>3, <2>4
  <1>14. CASE Exit
    <2>1. exposed' \subseteq Bookings /\ faults' \in 0..MaxFaults
      BY <1>14 DEF Exit, Fault, TypeOK
    <2>2. TypeOK'
      BY <1>14, <2>1 DEF Exit, TypeOK
    <2>3. HoldInv' /\ ThreadInv' /\ MoveInv'
      BY <1>14 DEF Exit, HoldInv, ThreadInv, MoveInv
    <2> QED
      BY <1>b, <2>2, <2>3
  <1>15. CASE Shutdown \/ Crash
    <2>1. Restarted /\ faults' = faults /\ stops' \in 0..MaxStops
      BY <1>15 DEF Shutdown, Crash, Restarted, Stop, TypeOK
    <2>2. exposed' \subseteq Bookings
      BY <2>1 DEF Restarted, TypeOK
    <2>3. TypeOK'
      BY <2>1, <2>2 DEF Restarted, TypeOK
    <2>4. HoldInv' /\ ThreadInv' /\ MoveInv'
      BY <2>1 DEF Restarted, HoldInv, ThreadInv, MoveInv
    <2> QED
      BY <1>b, <2>3, <2>4
  <1>16. CASE UNCHANGED vars
    BY <1>16 DEF vars, BInv, TypeOK, HoldInv, ThreadInv, MoveInv
  <1> QED
    BY <1>1, <1>2, <1>3, <1>4, <1>5, <1>6, <1>7, <1>8, <1>9, <1>10, <1>11,
       <1>12, <1>13, <1>14, <1>15, <1>16 DEF Next, Controller, CatchUp

\* A step moves booking b, books it behind the client's back or leaves it in
\* both files, hands it over, or exposes it.
Balance(b) ==
  \/ /\ Account(b)' + unanswered[b] + doubled[b]
          = Account(b) + unanswered'[b] + doubled'[b]
     /\ Account(b) = 0 =>
          unanswered'[b] = unanswered[b] /\ doubled'[b] = doubled[b]
     /\ b \in taken' <=> b \in taken
  \/ /\ b \notin taken /\ b \in taken'
     /\ Account(b)' = Account(b) + 1
     /\ unanswered'[b] = unanswered[b] /\ doubled'[b] = doubled[b]
  \/ /\ b \in exposed'
     /\ Account(b)' <= Account(b)
     /\ unanswered'[b] = unanswered[b] /\ doubled'[b] = doubled[b]
     /\ b \in taken' <=> b \in taken

LEMMA BalanceStep ==
  ASSUME BInv, [Next]_vars, NEW b \in Bookings
  PROVE  Balance(b) /\ (b \in exposed => b \in exposed')
  <1>a. TypeOK /\ HoldInv /\ ThreadInv /\ MoveInv /\ TypeOK'
    BY HoldStep DEF BInv
  <1>b. /\ backup[b] \in Nat /\ tmp[b] \in Nat
        /\ ledger[b] \in Nat /\ unanswered[b] \in Nat
        /\ backup'[b] \in Nat /\ tmp'[b] \in Nat
        /\ ledger'[b] \in Nat /\ unanswered'[b] \in Nat
        /\ doubled[b] \in Nat /\ doubled'[b] \in Nat
    BY <1>a DEF TypeOK, Bag
  <1> DEFINE Goal == Balance(b) /\ (b \in exposed => b \in exposed')
  <1> USE DEF ctlVars, threadVars, serverVars, Account, One, Balance
  <1>1. ASSUME NEW c \in Bookings, TakeBooking(c)
        PROVE  Goal
    BY <1>a, <1>b, <1>1 DEF TakeBooking, HoldInv
  <1>2. CASE Push
    <2>1. cur \in Bookings
      BY <1>a, <1>2 DEF Push, HoldInv, TypeOK
    <2>2. /\ line' = line /\ backup' = backup /\ tmp' = tmp
          /\ thread' = thread /\ taken' = taken /\ exposed' = exposed
          /\ doubled' = doubled
      BY <1>2 DEF Push
    <2>3. CASE Booked(cur) /\ cur' = None
      <3>1. /\ ledger'[b] = ledger[b] + One(b = cur)
            /\ unanswered'[b] = unanswered[b]
        BY <1>a, <2>1, <2>3, ServerIs
      <3> QED
        BY <1>b, <2>1, <2>2, <2>3, <3>1
    <2>4. CASE BookedUnanswered(cur) /\ cur' = cur
      <3>1. /\ ledger'[b] = ledger[b] + One(b = cur)
            /\ unanswered'[b] = unanswered[b] + One(b = cur)
        BY <1>a, <2>1, <2>4, ServerIs
      <3> QED
        BY <1>b, <2>1, <2>2, <2>4, <3>1
    <2>5. CASE NotBooked(cur) /\ cur' = cur
      <3>1. ledger' = ledger /\ unanswered' = unanswered
        BY <2>5 DEF NotBooked
      <3> QED
        BY <1>b, <2>1, <2>2, <2>5, <3>1
    <2> QED
      BY <1>2, <2>3, <2>4, <2>5 DEF Push
  <1>3. CASE Store
    <2>1. cur \in Bookings
      BY <1>a, <1>3 DEF Store, HoldInv, TypeOK
    <2>2. /\ line' = line /\ ledger' = ledger /\ tmp' = tmp /\ cur' = None
          /\ thread' = thread /\ taken' = taken /\ unanswered' = unanswered
          /\ doubled' = doubled
      BY <1>3 DEF Store
    <2>3. /\ exposed \subseteq exposed'
          /\ \/ backup'[b] = backup[b] + One(b = cur)
             \/ b = cur /\ backup'[b] = backup[b] /\ b \in exposed'
      BY <1>a, <1>3, <2>1, WriteIs DEF Store
    <2> QED
      BY <1>b, <2>1, <2>2, <2>3
  <1>4. CASE Truncate
    <2>1. tmp[b] <= backup[b]
      BY <1>a, <1>4 DEF Truncate, MoveInv
    <2>2. /\ line' = line /\ ledger' = ledger /\ tmp' = tmp /\ cur' = cur
          /\ thread = "truncate" /\ thread' = "next" /\ taken' = taken
          /\ unanswered' = unanswered
      BY <1>4 DEF Truncate
    <2>3. CASE /\ backup' = Truncated /\ doubled' = doubled
               /\ exposed' = exposed \cup {c \in Bookings : backup[c] > tmp[c]}
      <3>1. backup'[b] = 0
        BY <2>3 DEF Truncated, Empty
      <3>2. CASE backup[b] = tmp[b]
        BY <1>b, <2>2, <2>3, <3>1, <3>2 DEF Draining
      <3>3. CASE backup[b] > tmp[b]
        BY <1>b, <2>2, <2>3, <3>1, <3>3 DEF Draining
      <3> QED
        BY <1>b, <2>1, <3>2, <3>3
    <2>4. CASE /\ backup' = backup /\ exposed' = exposed
               /\ doubled' = [c \in Bookings |-> doubled[c] + tmp[c]]
      <3>1. doubled'[b] = doubled[b] + tmp[b]
        BY <2>4
      <3>2. backup'[b] = backup[b] /\ tmp'[b] = tmp[b] /\ ledger'[b] = ledger[b]
        BY <2>2, <2>4
      <3>3. Account(b)' = Account(b) + tmp[b]
        BY <1>b, <2>2, <3>2 DEF Draining
      <3>4. Account(b) = 0 => tmp[b] = 0
        BY <1>b, <2>1, <2>2 DEF Draining
      <3>5. Account(b) \in Nat
        BY <1>a, Counts
      <3> HIDE DEF Account
      <3> QED
        BY <1>b, <2>2, <2>4, <3>1, <3>3, <3>4, <3>5
    <2> QED
      BY <1>4, <2>3, <2>4 DEF Truncate
  <1>5. CASE NextLine
    <2>1. PICK c \in Bookings :
            tmp[c] > 0 /\ line' = c /\ tmp' = Drop(tmp, c)
      BY <1>5 DEF NextLine, HasLine
    <2>2. tmp'[b] = IF b = c THEN tmp[b] - 1 ELSE tmp[b]
      BY <1>a, <2>1, DropIs DEF TypeOK
    <2>3. /\ ledger' = ledger /\ backup' = backup /\ cur' = cur
          /\ thread = "next" /\ thread' = "send" /\ taken' = taken
          /\ unanswered' = unanswered /\ exposed' = exposed
          /\ doubled' = doubled
      BY <1>5 DEF NextLine, HasLine
    <2>4. line = None
      BY <1>a, <2>3 DEF HoldInv
    <2> QED
      BY <1>b, <2>1, <2>2, <2>3, <2>4 DEF Draining
  <1>6. CASE Send
    <2>1. line \in Bookings
      BY <1>a, <1>6 DEF Send, HoldInv, TypeOK
    <2>2. /\ cur' = cur /\ backup' = backup /\ tmp' = tmp
          /\ thread \in Draining /\ thread' \in Draining
          /\ taken' = taken /\ exposed' = exposed /\ doubled' = doubled
      BY <1>6 DEF Send, Draining
    <2>3. CASE Booked(line) /\ line' = None
      <3>1. /\ ledger'[b] = ledger[b] + One(b = line)
            /\ unanswered'[b] = unanswered[b]
        BY <1>a, <2>1, <2>3, ServerIs
      <3> QED
        BY <1>b, <2>1, <2>2, <2>3, <3>1
    <2>4. CASE BookedUnanswered(line) /\ line' = line
      <3>1. /\ ledger'[b] = ledger[b] + One(b = line)
            /\ unanswered'[b] = unanswered[b] + One(b = line)
        BY <1>a, <2>1, <2>4, ServerIs
      <3> QED
        BY <1>b, <2>1, <2>2, <2>4, <3>1
    <2>5. CASE NotBooked(line) /\ line' = line
      <3>1. ledger' = ledger /\ unanswered' = unanswered
        BY <2>5 DEF NotBooked
      <3> QED
        BY <1>b, <2>1, <2>2, <2>5, <3>1
    <2> QED
      BY <1>6, <2>3, <2>4, <2>5 DEF Send
  <1>7. CASE Restore
    <2>1. line \in Bookings
      BY <1>a, <1>7 DEF Restore, RestoreThen, HoldInv, TypeOK
    <2>2. /\ cur' = cur /\ ledger' = ledger /\ tmp' = tmp /\ line' = None
          /\ thread \in Draining /\ thread' \in Draining
          /\ taken' = taken /\ unanswered' = unanswered /\ doubled' = doubled
      BY <1>7 DEF Restore, RestoreThen, Draining
    <2>3. /\ exposed \subseteq exposed'
          /\ \/ backup'[b] = backup[b] + One(b = line)
             \/ b = line /\ backup'[b] = backup[b] /\ b \in exposed'
      BY <1>a, <1>7, <2>1, WriteIs DEF Restore, RestoreThen
    <2> QED
      BY <1>b, <2>1, <2>2, <2>3
  <1>8. CASE Exit
    <2>1. /\ thread = "next" /\ thread' = "none" /\ cur' = cur /\ line' = line
          /\ tmp' = tmp /\ backup' = backup /\ ledger' = ledger
          /\ taken' = taken /\ unanswered' = unanswered /\ doubled' = doubled
          /\ exposed \subseteq exposed'
          /\ tmp[b] = 0 \/ b \in exposed'
      BY <1>b, <1>8 DEF Exit, Empty
    <2> QED
      BY <1>b, <2>1 DEF Draining
  <1>9. CASE Shutdown \/ Crash
    <2>1. /\ Restarted /\ ledger' = ledger /\ backup' = backup /\ tmp' = tmp
          /\ taken' = taken /\ unanswered' = unanswered /\ cur' = None
          /\ line' = None /\ thread' = "none" /\ doubled' = doubled
          /\ exposed' = exposed \cup ({cur, line} \ {None})
               \cup {c \in Bookings : thread \in Draining /\ tmp[c] > 0}
      BY <1>9 DEF Shutdown, Crash, Restarted
    <2>2. CASE cur = b \/ line = b \/ (thread \in Draining /\ tmp[b] > 0)
      BY <1>b, <2>1, <2>2 DEF Draining
    <2>3. CASE cur # b /\ line # b /\ ~(thread \in Draining /\ tmp[b] > 0)
      BY <1>b, <2>1, <2>3 DEF Draining
    <2> QED
      BY <2>2, <2>3
  <1>10. CASE /\ UNCHANGED <<cur, line, ledger, backup, taken, unanswered, doubled,
                             exposed>>
              /\ thread \notin Draining /\ thread' \notin Draining
    BY <1>b, <1>10
  <1>11. CASE /\ UNCHANGED <<cur, line, ledger, backup, taken, unanswered,
                             doubled, exposed, tmp, thread>>
    BY <1>b, <1>11
  <1> QED
    <2>1. OtherBooking \/ Check \/ Terminate \/ UNCHANGED vars => Goal
      BY <1>11 DEF OtherBooking, Check, CheckWhen, Terminate, vars
    <2>2. Create \/ Open \/ Copy => Goal
      <3>1. Create => thread = "none"
        BY <1>a DEF Create, ThreadInv
      <3> QED
        BY <1>10, <1>11, <3>1 DEF Create, Open, Copy, Draining
    <2> QED
      BY <1>1, <1>2, <1>3, <1>4, <1>5, <1>6, <1>7, <1>8, <1>9, <2>1, <2>2
      DEF Next, Controller, CatchUp

\* The balance, with what it says before anything is exposed.
NothingYet ==
  \A b \in Bookings \ taken :
    Account(b) = 0 /\ unanswered[b] = 0 /\ doubled[b] = 0

Balanced == BookedOnce /\ NothingElseLost /\ NothingYet

LEMMA BalancedStep == BInv /\ Balanced /\ [Next]_vars => Balanced'
  <1> SUFFICES ASSUME BInv, Balanced, [Next]_vars
               PROVE  BookedOnce' /\ NothingElseLost' /\ NothingYet'
    BY DEF Balanced
  <1>a. /\ TypeOK /\ TypeOK'
        /\ BookedOnce /\ NothingElseLost /\ NothingYet
    BY HoldStep DEF BInv, Balanced
  <1>1. ASSUME NEW b \in Bookings
        PROVE  /\ Balance(b) /\ (b \in exposed => b \in exposed')
               /\ Account(b) \in Nat /\ Account(b)' \in Nat
               /\ unanswered[b] \in Nat /\ unanswered'[b] \in Nat
               /\ doubled[b] \in Nat /\ doubled'[b] \in Nat
    <2>1. Balance(b) /\ (b \in exposed => b \in exposed')
      BY BalanceStep
    <2>2. Account(b) \in Nat /\ unanswered[b] \in Nat /\ doubled[b] \in Nat
      BY <1>a, Counts
    <2>3. /\ backup'[b] \in Nat /\ tmp'[b] \in Nat
          /\ ledger'[b] \in Nat /\ unanswered'[b] \in Nat /\ doubled'[b] \in Nat
      BY <1>a DEF TypeOK, Bag
    <2>4. Account(b)' \in Nat
      BY <2>3 DEF Account, One
    <2> QED
      BY <2>1, <2>2, <2>3, <2>4
  <1>2. ASSUME NEW b \in Bookings
        PROVE  Account(b)' <= One(b \in taken') + unanswered'[b] + doubled'[b]
    <2>1. Account(b) <= One(b \in taken) + unanswered[b] + doubled[b]
      BY <1>a DEF BookedOnce
    <2> HIDE DEF Account
    <2> QED
      BY <1>1, <2>1 DEF Balance, One
  <1>3. ASSUME NEW b \in Bookings, b \in taken', b \notin exposed'
        PROVE  Account(b)' = 1 + unanswered'[b] + doubled'[b]
    <2>1. b \in taken => Account(b) = 1 + unanswered[b] + doubled[b]
      BY <1>a, <1>1, <1>3 DEF NothingElseLost
    <2>2. b \notin taken => Account(b) = unanswered[b] + doubled[b]
      BY <1>a DEF NothingYet
    <2> QED
      BY <1>1, <1>3, <2>1, <2>2 DEF Balance
  <1>4. ASSUME NEW b \in Bookings, b \notin taken'
        PROVE  Account(b)' = 0 /\ unanswered'[b] = 0 /\ doubled'[b] = 0
    <2>1. b \notin taken =>
            Account(b) = 0 /\ unanswered[b] = 0 /\ doubled[b] = 0
      BY <1>a DEF NothingYet
    <2> HIDE DEF Account
    <2> QED
      BY <1>1, <1>4, <2>1 DEF Balance
  <1> QED
    BY <1>a, <1>2, <1>3, <1>4
    DEF BookedOnce, NothingElseLost, NothingYet, TypeOK

LEMMA BalancedInit == Init => Balanced
  <1> SUFFICES ASSUME Init PROVE Balanced
    OBVIOUS
  <1>1. ASSUME NEW b \in Bookings
        PROVE  /\ Account(b) = 0 /\ unanswered[b] = 0 /\ doubled[b] = 0
               /\ One(b \in taken) = 0
    BY DEF Init, Empty, Account, One, Draining
  <1>2. BookedOnce
    <2>1. ASSUME NEW b \in Bookings
          PROVE  Account(b) <= One(b \in taken) + unanswered[b] + doubled[b]
      <3> HIDE DEF Account, One
      <3> QED
        BY <1>1
    <2> QED
      BY <2>1 DEF BookedOnce
  <1>3. NothingElseLost
    BY DEF NothingElseLost, Init
  <1>4. NothingYet
    BY <1>1 DEF NothingYet
  <1> QED
    BY <1>2, <1>3, <1>4 DEF Balanced

\* BInv and the balance hold in every reachable state.
THEOREM Invariance == Spec => [](BInv /\ Balanced)
  BY BInitInv, HoldStep, BalancedInit, BalancedStep, PTL DEF Spec

\* Types, for every set of bookings.
THEOREM TypeCorrect == Spec => []TypeOK
  <1>1. BInv => TypeOK
    BY DEF BInv
  <1> QED
    BY <1>1, Invariance, PTL

\* Only a lost reply or a truncation that failed ever multiplies a booking,
\* and each of them only once.
THEOREM NeverMultiplied == Spec => []BookedOnce
  <1>1. Balanced => BookedOnce
    BY DEF Balanced
  <1> QED
    BY <1>1, Invariance, PTL

\* The kinds of exposure are all there is to lose a booking by, and without
\* one it is accounted for exactly: a crash with the booking in hand, a write
\* or a read that failed, and the append between copy and truncation.
THEOREM LostOnlyIfExposed == Spec => []NothingElseLost
  <1>1. Balanced => NothingElseLost
    BY DEF Balanced
  <1> QED
    BY <1>1, Invariance, PTL

\* start_thread keeps a second thread from being created.
THEOREM OneCatchUp == Spec => []SingleCatchUp
  <1>1. BInv => SingleCatchUp
    BY DEF BInv, ThreadInv, SingleCatchUp
  <1> QED
    BY <1>1, Invariance, PTL

HIDE BookingsAssumption

-----------------------------------------------------------------------------
(* The sums of the statistics.                                             *)

\* What sums count: the cups of rows, each a pair of a row and 1 or 2.
CupsOf(S) == {c \in S \X {1, 2} : c[2] <= Weight(cups[c[1]].kind)}
BarsOf(S) == {c \in S \X {1, 2} : c[2] <= Height(cups[c[1]].kind)}

\* The sum of the sizes of disjoint sets is the size of their union.
LEMMA TotalOfParts ==
  ASSUME NEW D, IsFiniteSet(D), NEW A, \A d \in D : IsFiniteSet(A[d]),
         \A d, e \in D : d # e => A[d] \cap A[e] = {},
         NEW f, DOMAIN f = D, \A d \in D : f[d] = Cardinality(A[d])
  PROVE  Total(f) = Cardinality(UNION {A[d] : d \in D})
  <1> DEFINE P == UNION {{d} \X (1..f[d]) : d \in DOMAIN f}
             U == UNION {A[d] : d \in D}
             b == [d \in D |-> CHOOSE g : g \in Bijection(1..f[d], A[d])]
             h == [p \in P |-> b[p[1]][p[2]]]
  <1> HIDE DEF b, h, P, U
  <1>1. ASSUME NEW d \in D
        PROVE  f[d] \in Nat /\ b[d] \in Bijection(1..f[d], A[d])
    <2>1. Cardinality(A[d]) \in Nat /\ ExistsBijection(1..Cardinality(A[d]), A[d])
      BY FS_CardinalityType
    <2>2. f[d] \in Nat /\ \E g : g \in Bijection(1..f[d], A[d])
      BY <2>1 DEF ExistsBijection
    <2> QED
      BY <2>2 DEF b
  <1>3. P = UNION {{d} \X (1..f[d]) : d \in D}
    BY DEF P
  <1>4. ASSUME NEW p \in P
        PROVE  p[1] \in D /\ p[2] \in 1..f[p[1]] /\ p = <<p[1], p[2]>>
    BY <1>3
  <1>5. ASSUME NEW d \in D, NEW k \in 1..f[d] PROVE <<d, k>> \in P
    BY <1>3
  <1>6. ASSUME NEW d \in D
        PROVE  /\ b[d] \in [1..f[d] -> A[d]]
               /\ \A j, k \in 1..f[d] : b[d][j] = b[d][k] => j = k
               /\ \A t \in A[d] : \E k \in 1..f[d] : b[d][k] = t
    <2> DEFINE n == 1..f[d]
    <2>1. b[d] \in Bijection(n, A[d])
      BY <1>1
    <2> HIDE DEF n
    <2>2. b[d] \in [n -> A[d]] /\ \A j, k \in n : b[d][j] = b[d][k] => j = k
      BY <2>1 DEF Bijection, Injection, IsInjective
    <2>3. \A t \in A[d] : \E k \in n : b[d][k] = t
      BY <2>1 DEF Bijection, Surjection
    <2> QED
      BY <2>2, <2>3 DEF n
  <1>7. \A p \in P : h[p] = b[p[1]][p[2]] /\ h[p] \in A[p[1]]
    <2> SUFFICES ASSUME NEW p \in P PROVE h[p] = b[p[1]][p[2]] /\ h[p] \in A[p[1]]
      OBVIOUS
    <2>1. b[p[1]] \in [1..f[p[1]] -> A[p[1]]] /\ p[2] \in 1..f[p[1]]
      BY <1>4, <1>6
    <2>2. b[p[1]][p[2]] \in A[p[1]]
      BY <2>1
    <2> QED
      BY <2>2 DEF h
  <1>8. h \in [P -> U]
    BY <1>4, <1>7 DEF h, U
  <1>9. ASSUME NEW p \in P, NEW q \in P, h[p] = h[q] PROVE p = q
    <2>1. p[1] = q[1]
      BY <1>4, <1>7, <1>9
    <2>2. p[2] = q[2]
      BY <1>4, <1>6, <1>7, <1>9, <2>1
    <2> QED
      BY <1>4, <2>1, <2>2
  <1>10. ASSUME NEW t \in U PROVE \E p \in P : h[p] = t
    <2>1. PICK d \in D : t \in A[d]
      BY DEF U
    <2>2. PICK k \in 1..f[d] : b[d][k] = t
      BY <1>6, <2>1
    <2>3. <<d, k>> \in P /\ h[<<d, k>>] = b[d][k]
      BY <1>5, <1>7
    <2> QED
      BY <2>2, <2>3
  <1>11. h \in Injection(P, U) /\ h \in Surjection(P, U)
    BY <1>8, <1>9, <1>10 DEF Injection, IsInjective, Surjection
  <1>12. IsFiniteSet(U)
    <2> DEFINE T == {A[d] : d \in D}
    <2>1. [d \in D |-> A[d]] \in Surjection(D, T)
      BY DEF Surjection
    <2>2. IsFiniteSet(T)
      BY <2>1, FS_Surjection
    <2> QED
      BY <2>2, FS_UNION DEF U
  <1>13. Cardinality(P) = Cardinality(U)
    BY <1>11, <1>12, FS_Injection
  <1>14. Total(f) = Cardinality(P)
    BY DEF Total, P
  <1> QED
    BY <1>13, <1>14 DEF U

\* A finite set of numbers has a highest one.
LEMMA MaxIsHighest ==
  ASSUME NEW S \in SUBSET Nat, S # {}, NEW n \in Nat, \A y \in S : y <= n
  PROVE  Max(S) \in S /\ \A y \in S : y <= Max(S)
  <1> DEFINE T == {k \in Nat : \A y \in S : y <= k}
         less == OpToRel(<, Nat)
  <1>0. T \subseteq Nat /\ T # {}
    OBVIOUS
  <1> HIDE DEF T
  <1>1. PICK m \in T : \A k \in T : ~ (<<k, m>> \in less)
    <2> IsWellFoundedOn(less, Nat)
      BY NatLessThanWellFounded
    <2> HIDE DEF less
    <2> QED
      BY <1>0, WFMin
  <1>2. \A k \in T : m <= k
    <2> SUFFICES ASSUME NEW k \in T, k < m PROVE FALSE
      BY <1>0
    <2>1. <<k, m>> \in less
      BY <1>0 DEF OpToRel
    <2> QED
      BY <1>1, <2>1
  <1>3. m \in S
    <2> SUFFICES ASSUME m \notin S PROVE FALSE
      OBVIOUS
    <2>1. \A y \in S : y <= m - 1
      BY <1>0 DEF T
    <2>2. PICK y \in S : TRUE
      OBVIOUS
    <2>3. m \in Nat /\ y \in Nat /\ y <= m - 1
      BY <1>0, <2>1
    <2>4. m - 1 \in Nat
      BY <2>3
    <2>5. m - 1 \in T
      BY <2>1, <2>4 DEF T
    <2>6. m <= m - 1
      BY <1>2, <2>5
    <2> QED
      BY <2>3, <2>6
  <1> QED
    BY <1>0, <1>3 DEF Max, T

-----------------------------------------------------------------------------
(* The counts of rows.                                                     *)

LEMMA CountsAreNumbers ==
  ASSUME NEW S, IsFiniteSet(S)
  PROVE  /\ IsFiniteSet(CupsOf(S)) /\ IsFiniteSet(BarsOf(S))
         /\ SumCoffees(S) = Cardinality(CupsOf(S)) /\ SumCoffees(S) \in Nat
         /\ AddedUp(S) = Cardinality(BarsOf(S)) /\ AddedUp(S) \in Nat
  <1>1. IsFiniteSet({1, 2})
    <2>1. IsFiniteSet({1}) /\ {1, 2} = {1} \cup {2}
      BY FS_Singleton
    <2> QED
      BY <2>1, FS_AddElement
  <1>2. IsFiniteSet(S \X {1, 2})
    BY <1>1, FS_Product
  <1>3. CupsOf(S) \in SUBSET (S \X {1, 2}) /\ BarsOf(S) \in SUBSET (S \X {1, 2})
    BY DEF CupsOf, BarsOf
  <1>4. IsFiniteSet(CupsOf(S)) /\ IsFiniteSet(BarsOf(S))
    BY <1>2, <1>3, FS_Subset
  <1>5. SumCoffees(S) = Cardinality(CupsOf(S)) /\ AddedUp(S) = Cardinality(BarsOf(S))
    BY DEF SumCoffees, AddedUp, CupsOf, BarsOf
  <1>6. Cardinality(CupsOf(S)) \in Nat /\ Cardinality(BarsOf(S)) \in Nat
    BY <1>4, FS_CardinalityType
  <1> QED
    BY <1>4, <1>5, <1>6

\* More rows count at least as much.
LEMMA CountsGrow ==
  ASSUME NEW T, IsFiniteSet(T), NEW S \in SUBSET T
  PROVE  SumCoffees(S) <= SumCoffees(T) /\ AddedUp(S) <= AddedUp(T)
  <1>1. IsFiniteSet(S)
    BY FS_Subset
  <1>2. CupsOf(S) \in SUBSET CupsOf(T) /\ BarsOf(S) \in SUBSET BarsOf(T)
    BY DEF CupsOf, BarsOf
  <1>3. /\ Cardinality(CupsOf(S)) <= Cardinality(CupsOf(T))
        /\ Cardinality(BarsOf(S)) <= Cardinality(BarsOf(T))
    BY <1>2, FS_Subset, CountsAreNumbers
  <1> QED
    BY <1>1, <1>3, CountsAreNumbers

\* Two parts count as much as the whole.
LEMMA CountsAdd ==
  ASSUME NEW S, IsFiniteSet(S), NEW T, IsFiniteSet(T), S \cap T = {}
  PROVE  /\ SumCoffees(S \cup T) = SumCoffees(S) + SumCoffees(T)
         /\ AddedUp(S \cup T) = AddedUp(S) + AddedUp(T)
  <1>1. IsFiniteSet(S \cup T)
    BY FS_Union
  <1>2. /\ CupsOf(S \cup T) = CupsOf(S) \cup CupsOf(T) /\ CupsOf(S) \cap CupsOf(T) = {}
        /\ BarsOf(S \cup T) = BarsOf(S) \cup BarsOf(T) /\ BarsOf(S) \cap BarsOf(T) = {}
    BY DEF CupsOf, BarsOf
  <1>3. /\ Cardinality(CupsOf(S \cup T)) = Cardinality(CupsOf(S)) + Cardinality(CupsOf(T))
        /\ Cardinality(BarsOf(S \cup T)) = Cardinality(BarsOf(S)) + Cardinality(BarsOf(T))
    <2>1. IsFiniteSet(CupsOf(S)) /\ IsFiniteSet(CupsOf(T)) /\ Cardinality({}) = 0
      BY CountsAreNumbers, FS_EmptySet
    <2>2. IsFiniteSet(BarsOf(S)) /\ IsFiniteSet(BarsOf(T))
      BY CountsAreNumbers
    <2>3. /\ Cardinality(CupsOf(S)) \in Nat /\ Cardinality(CupsOf(T)) \in Nat
          /\ Cardinality(BarsOf(S)) \in Nat /\ Cardinality(BarsOf(T)) \in Nat
      BY <2>1, <2>2, FS_CardinalityType
    <2>4. /\ Cardinality(CupsOf(S) \cup CupsOf(T)) = Cardinality(CupsOf(S))
               + Cardinality(CupsOf(T)) - Cardinality(CupsOf(S) \cap CupsOf(T))
          /\ Cardinality(BarsOf(S) \cup BarsOf(T)) = Cardinality(BarsOf(S))
               + Cardinality(BarsOf(T)) - Cardinality(BarsOf(S) \cap BarsOf(T))
      BY <2>1, <2>2, FS_Union
    <2>5. /\ Cardinality(CupsOf(S) \cap CupsOf(T)) = 0
          /\ Cardinality(BarsOf(S) \cap BarsOf(T)) = 0
      BY <1>2, <2>1
    <2>6. /\ Cardinality(CupsOf(S) \cup CupsOf(T)) =
               Cardinality(CupsOf(S)) + Cardinality(CupsOf(T))
          /\ Cardinality(BarsOf(S) \cup BarsOf(T)) =
               Cardinality(BarsOf(S)) + Cardinality(BarsOf(T))
      BY <2>3, <2>4, <2>5
    <2> QED
      BY <1>2, <2>6
  <1> QED
    BY <1>1, <1>3, CountsAreNumbers

\* Rows without coffees count nothing, and where every row is a coffee of the
\* listed kinds the database and the handlers count the same.
LEMMA CountsAgree ==
  ASSUME NEW S, NEW T \in SUBSET S,
         \A i \in S : cups[i].kind \in Large \cup Single => i \in T
  PROVE  /\ SumCoffees(S) = SumCoffees(T)
         /\ (\A i \in T : cups[i].kind \in Large \cup Single) =>
               AddedUp(T) = SumCoffees(S)
  <1>1. CupsOf(S) = CupsOf(T)
    <2>1. ASSUME NEW c \in CupsOf(S) PROVE c \in CupsOf(T)
      <3>1. c \in S \X {1, 2} /\ c[2] <= Weight(cups[c[1]].kind)
        BY DEF CupsOf
      <3>2. cups[c[1]].kind \in Large \cup Single
        BY <3>1 DEF Weight
      <3> QED
        BY <3>1, <3>2 DEF CupsOf
    <2>2. ASSUME NEW c \in CupsOf(T) PROVE c \in CupsOf(S)
      BY DEF CupsOf
    <2> QED
      BY <2>1, <2>2
  <1>2. ASSUME \A i \in T : cups[i].kind \in Large \cup Single
        PROVE  BarsOf(T) = CupsOf(T)
    <2>1. \A i \in T : Height(cups[i].kind) = Weight(cups[i].kind)
      BY <1>2 DEF Height, Weight
    <2> QED
      BY <2>1 DEF BarsOf, CupsOf
  <1>3. SumCoffees(S) = Cardinality(CupsOf(S)) /\ SumCoffees(T) = Cardinality(CupsOf(T))
    BY DEF SumCoffees, CupsOf
  <1>4. AddedUp(T) = Cardinality(BarsOf(T))
    BY DEF AddedUp, BarsOf
  <1> QED
    BY <1>1, <1>2, <1>3, <1>4

\* The sums of the parts of a finite set of rows.
LEMMA PartsAdd ==
  ASSUME NEW D, IsFiniteSet(D), NEW A, NEW S, IsFiniteSet(S),
         S = UNION {A[d] : d \in D}, \A d, e \in D : d # e => A[d] \cap A[e] = {},
         NEW f, DOMAIN f = D
  PROVE  /\ (\A d \in D : f[d] = SumCoffees(A[d])) => Total(f) = SumCoffees(S)
         /\ (\A d \in D : f[d] = AddedUp(A[d])) => Total(f) = AddedUp(S)
  <1>1. \A d \in D : A[d] \in SUBSET S
    OBVIOUS
  <1>2. \A d \in D : IsFiniteSet(A[d])
    BY <1>1, FS_Subset
  <1> DEFINE C == [d \in D |-> CupsOf(A[d])]
             B == [d \in D |-> BarsOf(A[d])]
  <1>3. \A d \in D : /\ IsFiniteSet(C[d]) /\ SumCoffees(A[d]) = Cardinality(C[d])
                     /\ IsFiniteSet(B[d]) /\ AddedUp(A[d]) = Cardinality(B[d])
    BY <1>2, CountsAreNumbers
  <1>4. \A d, e \in D : d # e => C[d] \cap C[e] = {} /\ B[d] \cap B[e] = {}
    BY DEF CupsOf, BarsOf
  <1>5. UNION {C[d] : d \in D} = CupsOf(S) /\ UNION {B[d] : d \in D} = BarsOf(S)
    <2>1. \A d \in D : C[d] = CupsOf(A[d]) /\ B[d] = BarsOf(A[d])
      OBVIOUS
    <2> HIDE DEF C, B
    <2>2. ASSUME NEW c \in CupsOf(S) PROVE \E d \in D : c \in C[d]
      <3>1. PICK d \in D : c[1] \in A[d]
        BY DEF CupsOf
      <3>2. c \in CupsOf(A[d])
        BY <3>1 DEF CupsOf
      <3> QED
        BY <2>1, <3>2
    <2>3. ASSUME NEW c \in BarsOf(S) PROVE \E d \in D : c \in B[d]
      <3>1. PICK d \in D : c[1] \in A[d]
        BY DEF BarsOf
      <3>2. c \in BarsOf(A[d])
        BY <3>1 DEF BarsOf
      <3> QED
        BY <2>1, <3>2
    <2>4. \A d \in D : C[d] \subseteq CupsOf(S) /\ B[d] \subseteq BarsOf(S)
      BY <1>1, <2>1 DEF CupsOf, BarsOf
    <2> QED
      BY <2>2, <2>3, <2>4
  <1> HIDE DEF C, B
  <1>6. ASSUME \A d \in D : f[d] = SumCoffees(A[d])
        PROVE  Total(f) = Cardinality(UNION {C[d] : d \in D})
    <2>1. /\ \A d \in D : IsFiniteSet(C[d])
          /\ \A d, e \in D : d # e => C[d] \cap C[e] = {}
          /\ \A d \in D : f[d] = Cardinality(C[d])
      BY <1>3, <1>4, <1>6
    <2> QED
      BY <2>1, TotalOfParts
  <1>7. ASSUME \A d \in D : f[d] = AddedUp(A[d])
        PROVE  Total(f) = Cardinality(UNION {B[d] : d \in D})
    <2>1. /\ \A d \in D : IsFiniteSet(B[d])
          /\ \A d, e \in D : d # e => B[d] \cap B[e] = {}
          /\ \A d \in D : f[d] = Cardinality(B[d])
      BY <1>3, <1>4, <1>7
    <2> QED
      BY <2>1, TotalOfParts
  <1>8. SumCoffees(S) = Cardinality(CupsOf(S)) /\ AddedUp(S) = Cardinality(BarsOf(S))
    BY CountsAreNumbers
  <1> QED
    BY <1>5, <1>6, <1>7, <1>8

-----------------------------------------------------------------------------
(* The calendar.                                                           *)

\* A date between two of one month is of that month.
LEMMA Between ==
  ASSUME NEW x \in Nat, NEW y \in Nat, NEW z \in Nat, x <= z, z <= y,
         x \div 10000 = y \div 10000, (x \div 100) % 100 = (y \div 100) % 100
  PROVE  z \div 10000 = y \div 10000 /\ (z \div 100) % 100 = (y \div 100) % 100
  OBVIOUS

LEMMA SameMonday ==
  ASSUME NEW d \in Nat, NEW t \in Nat, t - ((t - 1) % 7) <= d, d <= t - ((t - 1) % 7) + 6
  PROVE  d - ((d - 1) % 7) = t - ((t - 1) % 7)
  OBVIOUS

LEMMA Numbers ==
  ASSUME NEW x \in Nat
  PROVE  /\ x \div 10000 \in Nat /\ x % 10000 \in Nat
         /\ \A y \in Nat : x <= y => x \div 10000 <= y \div 10000
  OBVIOUS

LEMMA CalendarFacts ==
  /\ Len(Calendar) \in Nat /\ Days = 1..Len(Calendar)
  /\ \A d \in Days : /\ Year(d) \in Nat /\ Month(d) \in 1..12
                     /\ DayNumber(d) \in 1..d /\ MonthDay(d) \in Nat
                     /\ SameMonth(d - DayNumber(d) + 1, d)
  /\ \A d, e \in Days : d <= e => Year(d) <= Year(e)
  /\ \A d, e \in Days : \A c \in d..e : SameMonth(d, e) => SameMonth(c, e)
  <1>0. /\ Calendar \in Seq(Nat)
        /\ \A d \in Days : /\ Month(d) \in 1..12 /\ DayNumber(d) \in 1..d
                           /\ SameMonth(d - DayNumber(d) + 1, d)
        /\ \A d, e \in Days : d < e => Calendar[d] < Calendar[e]
    BY CalendarAssumption
  <1>1. Len(Calendar) \in Nat /\ Days = 1..Len(Calendar)
    BY <1>0 DEF Days
  <1>2. \A d \in Days : Calendar[d] \in Nat
    BY <1>0 DEF Days
  <1>3. ASSUME NEW d \in Days PROVE Year(d) \in Nat /\ MonthDay(d) \in Nat
    <2>1. Calendar[d] \in Nat
      BY <1>2
    <2> QED
      BY <2>1, Numbers DEF Year, MonthDay
  <1>4. ASSUME NEW d \in Days, NEW e \in Days, d <= e
        PROVE  Calendar[d] <= Calendar[e]
    <2>1. d < e \/ d = e
      BY <1>1, <1>4
    <2>2. d < e => Calendar[d] < Calendar[e]
      BY <1>0
    <2>3. Calendar[d] \in Nat /\ Calendar[e] \in Nat
      BY <1>2
    <2> QED
      BY <2>1, <2>2, <2>3
  <1>5. ASSUME NEW d \in Days, NEW e \in Days, d <= e
        PROVE  Year(d) <= Year(e)
    <2>1. Calendar[d] <= Calendar[e] /\ Calendar[d] \in Nat /\ Calendar[e] \in Nat
      BY <1>2, <1>4, <1>5
    <2> QED
      BY <2>1, Numbers DEF Year
  <1>6. ASSUME NEW d \in Days, NEW e \in Days, NEW c \in d..e, SameMonth(d, e)
        PROVE  SameMonth(c, e)
    <2>1. c \in Days /\ d <= c /\ c <= e
      BY <1>1
    <2> DEFINE x == Calendar[d]
               y == Calendar[e]
               z == Calendar[c]
    <2>2. x \in Nat /\ y \in Nat /\ z \in Nat /\ x <= z /\ z <= y
      BY <1>2, <1>4, <2>1
    <2>3. x \div 10000 = y \div 10000 /\ (x \div 100) % 100 = (y \div 100) % 100
      BY <1>6 DEF SameMonth, Year, Month
    <2> HIDE DEF x, y, z
    <2>4. z \div 10000 = y \div 10000 /\ (z \div 100) % 100 = (y \div 100) % 100
      BY <2>2, <2>3, Between
    <2> QED
      BY <2>4 DEF SameMonth, Year, Month, y, z
  <1>7. /\ \A d \in Days : /\ Year(d) \in Nat /\ Month(d) \in 1..12
                     /\ DayNumber(d) \in 1..d /\ MonthDay(d) \in Nat
                     /\ SameMonth(d - DayNumber(d) + 1, d)
    BY <1>0, <1>3
  <1>8. \A d, e \in Days : d <= e => Year(d) <= Year(e)
    BY <1>5
  <1>9. \A d, e \in Days : \A c \in d..e : SameMonth(d, e) => SameMonth(c, e)
    BY <1>6
  <1> QED
    BY <1>1, <1>7, <1>8, <1>9

\* The first day of the month of a day.
LEMMA FirstOfMonth ==
  ASSUME NEW d \in Days
  PROVE  /\ d - DayNumber(d) + 1 \in Days /\ d - DayNumber(d) + 1 <= d
         /\ SameMonth(d - DayNumber(d) + 1, d)
  <1>1. /\ Len(Calendar) \in Nat /\ d \in 1..Len(Calendar) /\ DayNumber(d) \in 1..d
        /\ SameMonth(d - DayNumber(d) + 1, d)
    BY CalendarFacts
  <1>2. d - DayNumber(d) + 1 \in 1..Len(Calendar) /\ d - DayNumber(d) + 1 <= d
    BY <1>1
  <1> QED
    BY <1>1, <1>2, CalendarFacts

\* Within four weeks the number of a day tells it, within a month its date.
LEMMA NumberTellsDay ==
  ASSUME NEW d \in Days, NEW e \in Days, DayNumber(d) = DayNumber(e),
         d - e < 28, e - d < 28
  PROVE  d = e
  <1>1. d \in Nat /\ e \in Nat
    BY CalendarFacts
  <1>2. (d < e => e - d >= 28) /\ (e < d => d - e >= 28)
    BY CalendarAssumption
  <1> QED
    BY <1>1, <1>2

LEMMA DateTellsDay ==
  ASSUME NEW d \in Days, NEW e \in Days, MonthDay(d) = MonthDay(e),
         d - e <= 31, e - d <= 31
  PROVE  d = e
  <1>1. d \in Nat /\ e \in Nat
    BY CalendarFacts
  <1>2. (d < e => e - d >= 365) /\ (e < d => d - e >= 365)
    BY CalendarAssumption
  <1> QED
    BY <1>1, <1>2

\* The days of a month, from its first to its last, are the days of that month.
LEMMA MonthIsWhole ==
  ASSUME NEW from \in Days, NEW to \in Days, from <= to, WholeMonth(from, to), NEW d \in Days
  PROVE  SameMonth(d, from) <=> d \in from..to
  <1>1. /\ Len(Calendar) \in Nat /\ Days = 1..Len(Calendar)
        /\ from \in Nat /\ to \in Nat /\ d \in Nat /\ d <= Len(Calendar)
    BY CalendarFacts
  <1>2. SameMonth(from, to) /\ DayNumber(from) = 1
    BY DEF WholeMonth
  <1>3. ASSUME d \in from..to PROVE SameMonth(d, from)
    <2>1. SameMonth(d, to)
      BY <1>2, <1>3, CalendarFacts
    <2> QED
      BY <1>2, <2>1 DEF SameMonth
  <1>4. ASSUME SameMonth(d, from), d < from PROVE FALSE
    <2>1. DayNumber(from) - DayNumber(d) = from - d
      BY <1>4, CalendarAssumption
    <2>2. DayNumber(d) \in Nat /\ DayNumber(d) >= 1
      BY <1>1, CalendarFacts
    <2> QED
      BY <1>1, <1>2, <1>4, <2>1, <2>2
  <1>5. ASSUME SameMonth(d, from), to < d PROVE FALSE
    <2>1. to + 1 \in Days /\ to < to + 1 /\ DayNumber(to + 1) = 1
      BY <1>1, <1>5 DEF WholeMonth
    <2>2. SameMonth(to, d)
      BY <1>2, <1>5 DEF SameMonth
    <2>3. SameMonth(to + 1, d)
      BY <1>1, <1>5, <2>2, CalendarFacts
    <2>4. SameMonth(to, to + 1)
      BY <2>2, <2>3 DEF SameMonth
    <2>5. DayNumber(to + 1) - DayNumber(to) = (to + 1) - to
      BY <2>1, <2>4, CalendarAssumption
    <2>6. DayNumber(to) \in Nat /\ DayNumber(to) >= 1
      BY <1>1, CalendarFacts
    <2> QED
      BY <1>1, <2>1, <2>5, <2>6
  <1> QED
    BY <1>1, <1>3, <1>4, <1>5

\* A week has one Monday and one number, and no other week of a year has it.
LEMMA WeekIsWhole ==
  ASSUME NEW d \in Days, NEW t \in Days, d <= t, Monday(t) + 6 \in Days,
         Year(Monday(t)) = Year(Monday(t) + 6), WeekNo[t] < 52
  PROVE  SameWeek(d, t) <=> d \in WeekOf(t)
  <1>1. /\ Len(Calendar) \in Nat /\ Days = 1..Len(Calendar)
        /\ d \in Nat /\ t \in Nat /\ d >= 1
    BY CalendarFacts
  <1>2. /\ Monday(d) \in Int /\ Monday(d) <= d /\ d <= Monday(d) + 6
        /\ Monday(t) \in Int /\ Monday(t) <= t /\ t <= Monday(t) + 6
    BY <1>1 DEF Monday
  <1>3. ASSUME SameWeek(d, t) PROVE d \in WeekOf(t)
    <2>1. d = t \/ d < t
      BY <1>1
    <2>2. Monday(d) = Monday(t)
      BY <1>3, <2>1, CalendarAssumption DEF SameWeek
    <2> QED
      BY <1>1, <1>2, <2>2 DEF WeekOf
  <1>4. ASSUME d \in WeekOf(t) PROVE SameWeek(d, t)
    <2>1. Monday(t) <= d /\ d <= Monday(t) + 6 /\ Monday(t) >= 1
      BY <1>1, <1>2, <1>4 DEF WeekOf, Monday
    <2>2. Monday(d) = Monday(t)
      BY <1>1, <2>1, SameMonday DEF Monday
    <2>3. WeekNo[d] = WeekNo[t]
      BY <1>1, <2>2, CalendarAssumption
    <2>4. Monday(t) \in Days
      BY <1>1, <1>2, <2>1
    <2>5. /\ Year(Monday(t)) <= Year(d) /\ Year(d) <= Year(Monday(t) + 6)
          /\ Year(Monday(t)) <= Year(t) /\ Year(t) <= Year(Monday(t) + 6)
      BY <1>2, <2>1, <2>4, CalendarFacts
    <2>6. Year(d) \in Nat /\ Year(t) \in Nat /\ Year(Monday(t)) \in Nat
      BY <2>4, CalendarFacts
    <2>7. Year(d) = Year(t)
      BY <2>5, <2>6
    <2> QED
      BY <2>3, <2>7 DEF SameWeek
  <1> QED
    BY <1>3, <1>4

-----------------------------------------------------------------------------
(* The invariant.                                                          *)

Sales == [user : Users, kind : Kinds, group : Groups \cup {NoGroup},
          at : Days, stored : Days, counted : {"due", "done", "failed"}]

\* A trimmed date is not later and of the same month.
RowsInv ==
  \A i \in DOMAIN cups : /\ cups[i].at <= today /\ cups[i].stored <= cups[i].at
                         /\ SameMonth(cups[i].stored, cups[i].at)

Charts == [stage : {"none", "running", "shown", "failed"}, scope : Scopes,
           asked : FirstDay..LastDay, answered : FirstDay..LastDay,
           ran : SUBSET Weeks, fails : BOOLEAN, seen : [Weeks -> SUBSET (DOMAIN cups)],
           columns : [Weeks -> [0..6 -> Nat]]]

\* The rows that come into column i.
InColumn(w, i) ==
  {r \in chart.seen[w] : /\ DateOf(chart.scope, r) \in QueryDays(w, chart.asked)
                         /\ cups[r].kind \notin NotCoffee
                         /\ DayNumber(DateOf(chart.scope, r))
                              = DayNumber(LabelDay(w, chart.answered, i))}

\* What a query found is still there, and the columns were made of it.
ChartInv ==
  /\ chart.asked <= today
  /\ \A w \in Weeks : chart.seen[w] \subseteq Rows(chart.scope)
  /\ chart.stage = "shown" =>
       /\ chart.asked <= chart.answered
       /\ \A w \in Weeks, i \in 0..6 : chart.columns[w][i] = AddedUp(InColumn(w, i))

StatisticsInv == StatisticsTypeOK /\ chart \in Charts /\ RowsInv /\ ChartInv

LEMMA InRows ==
  ASSUME NEW s \in Scopes
  PROVE  /\ Rows(s) \subseteq DOMAIN cups
         /\ \/ s.of = "all" /\ s = Everybody
            \/ s.of = "user" /\ s.id \in Users /\ s = OfUser(s.id)
            \/ s.of = "group" /\ s.id \in Groups /\ s = OfGroup(s.id)
         /\ \A i \in DOMAIN cups :
              /\ s.of = "user" => (i \in Rows(s) <=> cups[i].user = s.id)
              /\ s.of = "group" =>
                   (i \in Rows(s) <=> cups[i].counted = "done" /\ cups[i].group = s.id)
              /\ s.of = "all" => (i \in Rows(s) <=> cups[i].counted = "done")
  <1>1. \/ s.of = "all" /\ s = Everybody
        \/ s.of = "user" /\ s.id \in Users /\ s = OfUser(s.id)
        \/ s.of = "group" /\ s.id \in Groups /\ s = OfGroup(s.id)
    BY DEF Scopes, Everybody, OfUser, OfGroup
  <1>2. Rows(s) \subseteq DOMAIN cups
    BY DEF Rows
  <1>3. ASSUME NEW i \in DOMAIN cups
        PROVE  /\ s.of = "user" => (i \in Rows(s) <=> cups[i].user = s.id)
               /\ s.of = "group" =>
                    (i \in Rows(s) <=> cups[i].counted = "done" /\ cups[i].group = s.id)
               /\ s.of = "all" => (i \in Rows(s) <=> cups[i].counted = "done")
    <2>1. CASE s.of = "user"
      BY <2>1 DEF Rows
    <2>2. CASE s.of = "group"
      BY <2>2 DEF Rows
    <2>3. CASE s.of = "all"
      BY <2>3 DEF Rows
    <2> QED
      BY <1>1, <2>1, <2>2, <2>3
  <1> QED
    BY <1>1, <1>2, <1>3

\* Rows keep what a chart reads of them, and what was counted stays counted.
RowsKept ==
  /\ DOMAIN cups \subseteq DOMAIN cups'
  /\ \A i \in DOMAIN cups :
       /\ cups'[i].user = cups[i].user /\ cups'[i].kind = cups[i].kind
       /\ cups'[i].group = cups[i].group /\ cups'[i].at = cups[i].at
       /\ cups'[i].stored = cups[i].stored
       /\ cups[i].counted = "done" => cups'[i].counted = "done"

LEMMA KeptRows ==
  ASSUME RowsKept, NEW s \in Scopes
  PROVE  Rows(s) \subseteq Rows(s)' /\ \A i \in DOMAIN cups : DateOf(s, i)' = DateOf(s, i)
  <1>1. s.of \in {"all", "user", "group"}
    BY InRows
  <1>2. ASSUME NEW i \in Rows(s) PROVE i \in Rows(s)'
    BY <1>1 DEF Rows, RowsKept
  <1>3. \A i \in DOMAIN cups : DateOf(s, i)' = DateOf(s, i)
    BY DEF DateOf, RowsKept
  <1> QED
    BY <1>2, <1>3

\* A chart that nobody touches stays as it was.
LEMMA KeptChart ==
  ASSUME StatisticsInv, RowsKept, chart' = chart, today <= today', today' \in Int
  PROVE  chart' \in Charts' /\ ChartInv'
  <1>1. chart \in Charts /\ chart.scope \in Scopes /\ today \in Int
        /\ chart.asked \in Int /\ chart.asked <= today
    BY StatisticsAssumption DEF StatisticsInv, StatisticsTypeOK, Charts, ChartInv
  <1>2. chart' \in Charts'
    BY <1>1 DEF RowsKept, Charts
  <1>3. \A w \in Weeks : chart.seen[w] \subseteq Rows(chart.scope)
    BY DEF StatisticsInv, ChartInv
  <1>4. /\ Rows(chart.scope) \subseteq DOMAIN cups /\ Rows(chart.scope) \subseteq Rows(chart.scope)'
        /\ \A i \in DOMAIN cups : DateOf(chart.scope, i)' = DateOf(chart.scope, i)
    <2>1. \A s \in Scopes : Rows(s) \subseteq Rows(s)' /\ Rows(s) \subseteq DOMAIN cups
      BY KeptRows, InRows
    <2>2. \A s \in Scopes : \A i \in DOMAIN cups : DateOf(s, i)' = DateOf(s, i)
      BY KeptRows
    <2> QED
      BY <1>1, <2>1, <2>2
  <1>5. \A w \in Weeks : chart'.seen[w] \subseteq Rows(chart.scope)'
    BY <1>3, <1>4
  <1>6. ASSUME chart.stage = "shown", NEW w \in Weeks, NEW i \in 0..6
        PROVE  chart'.columns[w][i] = AddedUp(InColumn(w, i))'
    <2>1. chart.columns[w][i] = AddedUp(InColumn(w, i))
      BY <1>6 DEF StatisticsInv, ChartInv
    <2>2. InColumn(w, i) \subseteq DOMAIN cups
      BY <1>3, <1>4 DEF InColumn
    <2>3. InColumn(w, i)' = InColumn(w, i)
      <3>1. \A r \in chart.seen[w] :
              /\ r \in DOMAIN cups /\ cups'[r].kind = cups[r].kind
              /\ DateOf(chart.scope, r)' = DateOf(chart.scope, r)
        BY <1>3, <1>4 DEF RowsKept
      <3>2. QueryDays(w, chart.asked)' = QueryDays(w, chart.asked)
            /\ LabelDay(w, chart.answered, i)' = LabelDay(w, chart.answered, i)
        BY DEF QueryDays, LabelDay
      <3>3. chart'.seen[w] = chart.seen[w]
        OBVIOUS
      <3> QED
        BY <3>1, <3>2, <3>3 DEF InColumn, DayNumber, NotCoffee
    <2>4. \A S \in SUBSET DOMAIN cups : AddedUp(S)' = AddedUp(S)
      BY DEF AddedUp, RowsKept
    <2> QED
      BY <2>1, <2>2, <2>3, <2>4
  <1>7. chart'.asked <= today' /\ (chart.stage = "shown" => chart'.asked <= chart'.answered)
    BY <1>1 DEF StatisticsInv, ChartInv
  <1> QED
    BY <1>2, <1>5, <1>6, <1>7 DEF ChartInv

LEMMA StatisticsInitInv == StatisticsInit => StatisticsInv
  <1> SUFFICES ASSUME StatisticsInit PROVE StatisticsInv
    OBVIOUS
  <1>1. /\ cups = <<>> /\ DOMAIN cups = {} /\ today = FirstDay /\ chart = NoChart
        /\ FirstDay \in FirstDay..LastDay /\ Everybody \in Scopes
    BY StatisticsAssumption, CalendarFacts DEF StatisticsInit, Scopes
  <1>2. chart \in Charts
    BY <1>1 DEF Charts, NoChart, Fresh, NoRows, NoColumns
  <1>3. StatisticsTypeOK
    <2>1. cups \in Seq(Sales)
      BY <1>1
    <2> QED
      BY <1>1, <2>1, StatisticsAssumption DEF StatisticsTypeOK, StatisticsInit, NoChart, Fresh, NoRows, NoColumns, Sales
  <1>4. ChartInv
    BY <1>1, StatisticsAssumption, CalendarFacts DEF ChartInv, NoChart, Fresh, NoRows
  <1> QED
    BY <1>1, <1>2, <1>3, <1>4 DEF StatisticsInv, RowsInv

\* A booking is a row, and its trimmed date a day.
LEMMA BookKeeps ==
  ASSUME StatisticsInv, Book
  PROVE  StatisticsInv'
  <1>1. PICK u \in Users, k \in Kinds, d \in CupDays :
          d <= today /\ cups' = Append(cups, Sale(u, k, d))
    BY DEF Book
  <1>2. UNCHANGED <<group, setting, renamed, today, chart, changes>>
    BY DEF Book
  <1>3. d \in Days /\ d \in Nat /\ today \in Nat
    <2>1. today \in FirstDay..LastDay
      BY DEF StatisticsInv, StatisticsTypeOK
    <2>2. d \in Days /\ FirstDay \in Days
      BY StatisticsAssumption
    <2>3. Days = 1..Len(Calendar) /\ Len(Calendar) \in Nat
      BY CalendarFacts
    <2> QED
      BY <2>1, <2>2, <2>3
  <1>4. /\ StoredDate(u, k, d) \in Days /\ StoredDate(u, k, d) <= d
        /\ SameMonth(StoredDate(u, k, d), d)
    BY <1>3, FirstOfMonth DEF StoredDate, SameMonth
  <1>5. Sale(u, k, d) \in Sales
    BY <1>3, <1>4 DEF Sale, Sales, StatisticsInv, StatisticsTypeOK
  <1>6. cups \in Seq(Sales)
    BY DEF StatisticsInv, StatisticsTypeOK, Sales
  <1>7. /\ cups' \in Seq(Sales) /\ Len(cups) \in Nat /\ DOMAIN cups = 1..Len(cups)
        /\ DOMAIN cups' = 1..Len(cups) + 1
        /\ \A i \in DOMAIN cups : cups'[i] = cups[i]
        /\ cups'[Len(cups) + 1] = Sale(u, k, d)
    BY <1>1, <1>5, <1>6
  <1>8. RowsKept
    BY <1>7 DEF RowsKept
  <1>9. chart' \in Charts' /\ ChartInv'
    BY <1>2, <1>3, <1>8, KeptChart
  <1>10. RowsInv'
    <2>1. ASSUME NEW i \in DOMAIN cups'
          PROVE  /\ cups'[i].at <= today /\ cups'[i].stored <= cups'[i].at
                 /\ SameMonth(cups'[i].stored, cups'[i].at)
      <3>1. CASE i \in DOMAIN cups
        BY <1>7, <3>1 DEF StatisticsInv, RowsInv
      <3>2. CASE i = Len(cups) + 1
        BY <1>1, <1>4, <1>7, <3>2 DEF Sale
      <3> QED
        BY <1>7, <3>1, <3>2
    <2> QED
      BY <1>2, <2>1 DEF RowsInv, SameMonth, Year, Month
  <1>11. StatisticsTypeOK'
    BY <1>2, <1>7, <1>9 DEF StatisticsInv, StatisticsTypeOK, Sales, Charts
  <1> QED
    BY <1>9, <1>10, <1>11 DEF StatisticsInv

\* The second row, or the error.
LEMMA CountedKeeps ==
  ASSUME StatisticsInv, NEW i \in DOMAIN cups, Counted(i)
  PROVE  StatisticsInv'
  <1>1. PICK outcome \in {"done", "failed"} :
          cups' = [cups EXCEPT ![i].counted = outcome]
    BY DEF Counted
  <1>2. /\ UNCHANGED <<group, setting, renamed, today, chart, changes>>
        /\ cups[i].counted = "due"
    BY DEF Counted
  <1>3. cups \in Seq(Sales) /\ today \in Nat
    BY StatisticsAssumption, CalendarFacts DEF StatisticsInv, StatisticsTypeOK, Sales
  <1>4. /\ cups' \in Seq(Sales) /\ DOMAIN cups' = DOMAIN cups
        /\ \A j \in DOMAIN cups : j # i => cups'[j] = cups[j]
        /\ cups'[i] = [cups[i] EXCEPT !.counted = outcome] /\ cups[i] \in Sales
    <2>1. /\ DOMAIN cups = 1..Len(cups) /\ Len(cups) \in Nat
          /\ cups \in [1..Len(cups) -> Sales]
      BY <1>3
    <2>2. cups[i] \in Sales
      BY <2>1
    <2>3. [cups[i] EXCEPT !.counted = outcome] \in Sales
      BY <2>2 DEF Sales
    <2>4. cups' \in [1..Len(cups) -> Sales]
      BY <1>1, <2>1, <2>3
    <2>5. cups' \in Seq(Sales)
      BY <2>1, <2>4
    <2> QED
      BY <1>1, <2>1, <2>2, <2>5
  <1>5. RowsKept
    BY <1>2, <1>4 DEF RowsKept, Sales
  <1>6. chart' \in Charts' /\ ChartInv'
    BY <1>2, <1>3, <1>5, KeptChart
  <1>7. RowsInv'
    <2>1. ASSUME NEW j \in DOMAIN cups
          PROVE  cups'[j].at = cups[j].at /\ cups'[j].stored = cups[j].stored
      BY <1>4 DEF Sales
    <2> QED
      BY <1>2, <1>4, <2>1 DEF StatisticsInv, RowsInv, SameMonth, Year, Month
  <1>8. StatisticsTypeOK'
    BY <1>2, <1>4, <1>6 DEF StatisticsInv, StatisticsTypeOK, Sales, Charts
  <1> QED
    BY <1>6, <1>7, <1>8 DEF StatisticsInv

\* Changes of settings and names, and midnight.
LEMMA OthersKeep ==
  ASSUME StatisticsInv, SetGroup \/ SetPrecision \/ Rename \/ Midnight
  PROVE  StatisticsInv'
  <1>1. /\ cups' = cups /\ chart' = chart
        /\ today' = today \/ (today < LastDay /\ today' = today + 1)
    <2>1. SetGroup => UNCHANGED <<cups, setting, renamed, today, chart>>
      BY Zenon DEF SetGroup
    <2>2. SetPrecision => UNCHANGED <<cups, group, renamed, today, chart>>
      BY Zenon DEF SetPrecision
    <2>3. Rename => UNCHANGED <<cups, group, setting, today, chart>>
      BY Zenon DEF Rename
    <2>4. Midnight => /\ today < LastDay /\ today' = today + 1
                      /\ UNCHANGED <<cups, group, setting, renamed, chart, changes>>
      BY Zenon DEF Midnight
    <2> QED
      BY <2>1, <2>2, <2>3, <2>4
  <1>2. today \in FirstDay..LastDay /\ FirstDay \in Int /\ LastDay \in Int
    BY StatisticsAssumption, CalendarFacts DEF StatisticsInv, StatisticsTypeOK
  <1>3. today' \in FirstDay..LastDay /\ today <= today' /\ today' \in Int
    BY <1>1, <1>2
  <1>4. RowsKept
    BY <1>1 DEF RowsKept
  <1>5. chart' \in Charts' /\ ChartInv'
    BY <1>1, <1>3, <1>4, KeptChart
  <1>6. RowsInv'
    <2>1. cups \in Seq(Sales)
      BY DEF StatisticsInv, StatisticsTypeOK, Sales
    <2>2. ASSUME NEW i \in DOMAIN cups PROVE cups[i].at \in Nat /\ cups[i].at <= today
      <3>1. cups[i] \in Sales
        BY <2>1
      <3>2. cups[i].at \in Days
        BY <3>1 DEF Sales
      <3> QED
        BY <3>2, CalendarFacts DEF StatisticsInv, RowsInv
    <2>3. \A i \in DOMAIN cups : cups[i].at <= today'
      BY <1>2, <1>3, <2>2
    <2> QED
      BY <1>1, <2>3 DEF StatisticsInv, RowsInv, SameMonth, Year, Month
  <1>7. /\ group' \in [Users -> Groups \cup {NoGroup}]
        /\ setting' \in [Users -> {"full", "monthly"}]
        /\ renamed' \subseteq Kinds /\ changes' \in 0..MaxChanges
    <2>1. CASE SetGroup
      BY <2>1, StatisticsAssumption DEF SetGroup, Changed, StatisticsInv, StatisticsTypeOK
    <2>2. CASE SetPrecision
      BY <2>2, StatisticsAssumption DEF SetPrecision, Changed, StatisticsInv, StatisticsTypeOK
    <2>3. CASE Rename
      BY <2>3, StatisticsAssumption DEF Rename, Changed, StatisticsInv, StatisticsTypeOK
    <2>4. CASE Midnight
      BY <2>4 DEF Midnight, StatisticsInv, StatisticsTypeOK
    <2> QED
      BY <2>1, <2>2, <2>3, <2>4
  <1>8. StatisticsTypeOK'
    BY <1>1, <1>3, <1>7 DEF StatisticsInv, StatisticsTypeOK
  <1> QED
    BY <1>5, <1>6, <1>8 DEF StatisticsInv

\* A chart nothing was found for.
LEMMA EmptyIsRight ==
  ASSUME StatisticsInv, UNCHANGED <<cups, group, setting, renamed, today, changes>>,
         chart' \in Charts, chart'.stage # "shown", chart'.asked <= today,
         \A w \in Weeks : chart'.seen[w] = {}
  PROVE  StatisticsInv'
  <1>1. chart' \in Charts'
    BY DEF Charts
  <1>2. ChartInv'
    BY DEF ChartInv
  <1>3. RowsInv'
    BY DEF StatisticsInv, RowsInv, SameMonth, Year, Month
  <1>4. StatisticsTypeOK'
    BY <1>1 DEF StatisticsInv, StatisticsTypeOK, Charts
  <1> QED
    BY <1>1, <1>2, <1>3, <1>4 DEF StatisticsInv

LEMMA EmptyFields ==
  ASSUME NEW s \in Scopes, NEW a \in FirstDay..LastDay,
         NEW g \in {"none", "running", "failed"}
  PROVE  /\ Fresh(g, s, a) \in Charts /\ Fresh(g, s, a).stage # "shown"
         /\ Fresh(g, s, a).asked = a /\ \A w \in Weeks : Fresh(g, s, a).seen[w] = {}
  <1>1. FirstDay \in FirstDay..LastDay
    BY StatisticsAssumption, CalendarFacts
  <1>2. /\ NoRows \in [Weeks -> SUBSET (DOMAIN cups)] /\ \A w \in Weeks : NoRows[w] = {}
        /\ NoColumns \in [Weeks -> [0..6 -> Nat]]
    BY DEF NoRows, NoColumns
  <1> QED
    BY <1>1, <1>2 DEF Fresh, Charts

LEMMA EmptyChart ==
  ASSUME StatisticsInv, UNCHANGED <<cups, group, setting, renamed, today, changes>>,
         NEW s \in Scopes, NEW a \in FirstDay..LastDay, a <= today,
         NEW g \in {"none", "running", "failed"}, chart' = Fresh(g, s, a)
  PROVE  StatisticsInv'
  <1>1. /\ chart' \in Charts /\ chart'.stage # "shown" /\ chart'.asked <= today
        /\ \A w \in Weeks : chart'.seen[w] = {}
    BY EmptyFields
  <1> QED
    BY <1>1, EmptyIsRight

LEMMA AskWeekKeeps ==
  ASSUME StatisticsInv, AskWeek
  PROVE  StatisticsInv'
  <1>1. UNCHANGED <<cups, group, setting, renamed, today, changes>>
    BY DEF AskWeek
  <1>2. PICK s \in WeekScopes : chart' = Fresh("running", s, today)
    BY Zenon DEF AskWeek
  <1>3. today \in FirstDay..LastDay /\ today <= today /\ s \in Scopes
    BY StatisticsAssumption, CalendarFacts DEF StatisticsInv, StatisticsTypeOK
  <1> QED
    BY <1>1, <1>2, <1>3, EmptyChart

LEMMA CloseWeekKeeps ==
  ASSUME StatisticsInv, CloseWeek
  PROVE  StatisticsInv'
  <1>1. UNCHANGED <<cups, group, setting, renamed, today, changes>>
    BY DEF CloseWeek
  <1>2. chart' = Fresh("none", Everybody, FirstDay)
    BY Zenon DEF CloseWeek, NoChart
  <1>3. FirstDay \in FirstDay..LastDay /\ FirstDay <= today /\ Everybody \in Scopes
    BY StatisticsAssumption, CalendarFacts DEF StatisticsInv, StatisticsTypeOK, Scopes
  <1> QED
    BY <1>1, <1>2, <1>3, EmptyChart

LEMMA RunQueryKeeps ==
  ASSUME StatisticsInv, NEW w \in Weeks, RunQuery(w)
  PROVE  StatisticsInv'
  <1>1. UNCHANGED <<cups, group, setting, renamed, today, changes>>
    BY DEF RunQuery
  <1>2. chart \in Charts /\ chart.stage = "running" /\ chart.scope \in Scopes
    BY DEF StatisticsInv, RunQuery, Charts
  <1>3. /\ today \in FirstDay..LastDay /\ FirstDay <= today
        /\ FirstDay \in FirstDay..LastDay /\ Everybody \in Scopes
    BY StatisticsAssumption, CalendarFacts DEF StatisticsInv, StatisticsTypeOK, Scopes
  <1>4. \A s \in Scopes : Rows(s)' = Rows(s) /\ Rows(s) \subseteq DOMAIN cups
    BY <1>1, InRows DEF Rows
  <1>5. chart' \in Charts' /\ ChartInv'
    <2>1. CASE chart' = Failed
      <3>1. chart' = Fresh("failed", Everybody, FirstDay)
        BY <2>1, Zenon DEF Failed
      <3>2. StatisticsInv'
        BY <1>1, <1>3, <3>1, EmptyChart
      <3> QED
        BY <3>2 DEF StatisticsInv
    <2>2. CASE chart' = [chart EXCEPT !.ran = @ \cup {w},
                                      !.seen[w] = Rows(chart.scope),
                                      !.fails = @ \/ \E i \in Found(w) : ~Listed(i)]
      <3>1. /\ chart'.stage = chart.stage /\ chart'.scope = chart.scope
            /\ chart'.asked = chart.asked
            /\ chart'.seen = [chart.seen EXCEPT ![w] = Rows(chart.scope)]
        BY <1>2, <2>2 DEF Charts
      <3>2. chart' \in Charts'
        <4>1. (chart.fails \/ \E i \in Found(w) : ~Listed(i)) \in BOOLEAN
          BY <1>2 DEF Charts
        <4>2. chart' \in Charts
          BY <1>2, <1>4, <2>2, <4>1 DEF Charts
        <4> QED
          BY <1>1, <4>2 DEF Charts
      <3>3. \A v \in Weeks : chart'.seen[v] \subseteq Rows(chart.scope)
        BY <1>2, <3>1 DEF StatisticsInv, ChartInv, Charts
      <3>4. Rows(chart.scope)' = Rows(chart.scope)
        BY <1>2, <1>4, <3>1
      <3>5. chart'.asked <= today'
        BY <1>1, <3>1 DEF StatisticsInv, ChartInv
      <3> QED
        BY <1>2, <3>1, <3>2, <3>3, <3>4, <3>5 DEF ChartInv
    <2> QED
      BY <2>1, <2>2 DEF RunQuery
  <1>6. RowsInv'
    BY <1>1 DEF StatisticsInv, RowsInv, SameMonth, Year, Month
  <1>7. StatisticsTypeOK'
    BY <1>1, <1>5 DEF StatisticsInv, StatisticsTypeOK, Charts
  <1> QED
    BY <1>5, <1>6, <1>7 DEF StatisticsInv

\* The answer makes the columns of what the queries saw.
LEMMA AnswerWeekKeeps ==
  ASSUME StatisticsInv, AnswerWeek
  PROVE  StatisticsInv'
  <1>1. UNCHANGED <<cups, group, setting, renamed, today, changes>>
    BY DEF AnswerWeek
  <1>2. chart \in Charts /\ chart.stage = "running" /\ chart.scope \in Scopes
    BY DEF StatisticsInv, AnswerWeek, Charts
  <1>3. /\ today \in FirstDay..LastDay /\ FirstDay <= today
        /\ FirstDay \in FirstDay..LastDay /\ Everybody \in Scopes
    BY StatisticsAssumption, CalendarFacts DEF StatisticsInv, StatisticsTypeOK, Scopes
  <1>4. \A s \in Scopes : Rows(s)' = Rows(s) /\ Rows(s) \subseteq DOMAIN cups
    BY <1>1, InRows DEF Rows
  <1>5. chart' \in Charts' /\ ChartInv'
    <2>1. CASE chart' = Failed
      <3>1. chart' = Fresh("failed", Everybody, FirstDay)
        BY <2>1, Zenon DEF Failed
      <3>2. StatisticsInv'
        BY <1>1, <1>3, <3>1, EmptyChart
      <3> QED
        BY <3>2 DEF StatisticsInv
    <2>2. CASE chart' = [chart EXCEPT
              !.stage = "shown", !.answered = today,
              !.columns = [w \in Weeks |-> [i \in 0..6 |->
                 Column(w, today, chart.seen[w] \cap Found(w), i)]]]
      <3> DEFINE made(w, i) == Column(w, today, chart.seen[w] \cap Found(w), i)
      <3>1. /\ chart'.stage = "shown" /\ chart'.scope = chart.scope
            /\ chart'.asked = chart.asked /\ chart'.seen = chart.seen
            /\ chart'.answered = today
            /\ chart'.columns = [w \in Weeks |-> [i \in 0..6 |-> made(w, i)]]
        BY <1>2, <2>2 DEF Charts
      <3>2. ASSUME NEW w \in Weeks, NEW i \in 0..6
            PROVE  made(w, i) = AddedUp(InColumn(w, i)') /\ made(w, i) \in Nat
        <4>1. /\ chart.seen[w] \subseteq Rows(chart.scope)
              /\ Rows(chart.scope) \subseteq DOMAIN cups
          BY <1>2, <1>4 DEF StatisticsInv, ChartInv
        <4>2. InColumn(w, i)' =
                {r \in chart.seen[w] \cap Found(w) :
                   DayNumber(DateOf(chart.scope, r)) = DayNumber(LabelDay(w, today, i))}
          <5>1. \A r \in chart.seen[w] : DateOf(chart.scope, r)' = DateOf(chart.scope, r)
            BY <1>1, <3>1 DEF DateOf
          <5>2. InColumn(w, i)' =
                  {r \in chart.seen[w] :
                     /\ DateOf(chart.scope, r) \in QueryDays(w, chart.asked)
                     /\ cups[r].kind \notin NotCoffee
                     /\ DayNumber(DateOf(chart.scope, r)) = DayNumber(LabelDay(w, today, i))}
            BY <1>1, <3>1, <5>1 DEF InColumn, DayNumber, QueryDays, LabelDay
          <5>3. \A r \in chart.seen[w] : r \in Found(w) <=>
                  /\ DateOf(chart.scope, r) \in QueryDays(w, chart.asked)
                  /\ cups[r].kind \notin NotCoffee
            BY <4>1 DEF Found, CoffeesOn, RowsOn
          <5> QED
            BY <5>2, <5>3
        <4>3. InColumn(w, i)' \subseteq DOMAIN cups
          BY <4>1, <4>2
        <4>4. IsFiniteSet(InColumn(w, i)')
          <5>1. cups \in Seq(Sales)
            BY DEF StatisticsInv, StatisticsTypeOK, Sales
          <5>2. IsFiniteSet(DOMAIN cups)
            BY <5>1, FS_Interval
          <5> QED
            BY <4>3, <5>2, FS_Subset
        <4>5. made(w, i) = AddedUp(InColumn(w, i)')
          BY <4>2 DEF Column
        <4> QED
          BY <4>4, <4>5, CountsAreNumbers
      <3> HIDE DEF made
      <3>3. chart'.columns \in [Weeks -> [0..6 -> Nat]]
        BY <3>1, <3>2
      <3>4. chart' \in Charts'
        <4>1. chart' \in Charts
          BY <1>2, <1>3, <2>2, <3>1, <3>3 DEF Charts
        <4> QED
          BY <1>1, <4>1 DEF Charts
      <3>5. ASSUME NEW w \in Weeks, NEW i \in 0..6
            PROVE  chart'.columns[w][i] = AddedUp(InColumn(w, i))'
        <4>1. AddedUp(InColumn(w, i))' = AddedUp(InColumn(w, i)')
          BY <1>1 DEF AddedUp
        <4> QED
          BY <3>1, <3>2, <4>1
      <3>6. /\ chart'.asked <= today' /\ chart'.asked <= chart'.answered
            /\ \A w \in Weeks : chart'.seen[w] \subseteq Rows(chart.scope)'
        BY <1>1, <1>2, <1>4, <3>1 DEF StatisticsInv, ChartInv
      <3> QED
        BY <3>4, <3>5, <3>6 DEF ChartInv
    <2> QED
      BY <2>1, <2>2 DEF AnswerWeek
  <1>6. RowsInv'
    BY <1>1 DEF StatisticsInv, RowsInv, SameMonth, Year, Month
  <1>7. StatisticsTypeOK'
    BY <1>1, <1>5 DEF StatisticsInv, StatisticsTypeOK, Charts
  <1> QED
    BY <1>5, <1>6, <1>7 DEF StatisticsInv

\* The tables and the week chart.
THEOREM StatisticsInvariance == StatisticsSpec => []StatisticsInv
  <1>1. ASSUME StatisticsInv, StatisticsNext PROVE StatisticsInv'
    BY <1>1, BookKeeps, CountedKeeps, OthersKeep, AskWeekKeeps, CloseWeekKeeps,
       RunQueryKeeps, AnswerWeekKeeps DEF StatisticsNext
  <1>2. ASSUME StatisticsInv, UNCHANGED statisticsVars PROVE StatisticsInv'
    <2>1. UNCHANGED <<cups, group, setting, renamed, today, chart, changes>>
      BY <1>2 DEF statisticsVars
    <2>2. RowsKept /\ today <= today' /\ today' \in Int
      BY <1>2, <2>1, StatisticsAssumption, CalendarFacts
         DEF RowsKept, StatisticsInv, StatisticsTypeOK
    <2>3. chart' \in Charts' /\ ChartInv'
      BY <1>2, <2>1, <2>2, KeptChart
    <2>4. RowsInv'
      BY <1>2, <2>1 DEF StatisticsInv, RowsInv, SameMonth, Year, Month
    <2>5. StatisticsTypeOK'
      BY <1>2, <2>1 DEF StatisticsInv, StatisticsTypeOK
    <2> QED
      BY <2>3, <2>4, <2>5 DEF StatisticsInv
  <1> QED
    BY <1>1, <1>2, StatisticsInitInv, PTL DEF StatisticsSpec

\* The tables are of the types of their columns.
THEOREM StatisticsTypeCorrect == StatisticsSpec => []StatisticsTypeOK
  <1>1. StatisticsInv => StatisticsTypeOK
    BY DEF StatisticsInv
  <1> QED
    BY <1>1, StatisticsInvariance, PTL

-----------------------------------------------------------------------------
(* What the charts show.                                                   *)

LEMMA RowFacts ==
  ASSUME StatisticsInv
  PROVE  /\ IsFiniteSet(DOMAIN cups) /\ today \in Days /\ cups \in Seq(Sales)
         /\ \A i \in DOMAIN cups : cups[i] \in Sales
         /\ \A s \in Scopes : /\ Rows(s) \subseteq DOMAIN cups /\ IsFiniteSet(Rows(s))
              /\ \A i \in DOMAIN cups : /\ DateOf(s, i) \in Days /\ DateOf(s, i) <= today
                                        /\ SameMonth(DateOf(s, i), cups[i].at)
  <1>1. cups \in Seq(Sales) /\ today \in FirstDay..LastDay
    BY DEF StatisticsInv, StatisticsTypeOK, Sales
  <1>2. IsFiniteSet(DOMAIN cups)
    BY <1>1, FS_Interval
  <1>3. today \in Days /\ today \in Nat
    BY <1>1, StatisticsAssumption, CalendarFacts
  <1>4. \A i \in DOMAIN cups : cups[i] \in Sales
    BY <1>1
  <1>5. ASSUME NEW s \in Scopes, NEW i \in DOMAIN cups
        PROVE  /\ DateOf(s, i) \in Days /\ DateOf(s, i) <= today
               /\ SameMonth(DateOf(s, i), cups[i].at)
    <2>1. /\ cups[i].at \in Days /\ cups[i].stored \in Days
          /\ cups[i].at \in Nat /\ cups[i].stored \in Nat
      BY <1>4, CalendarFacts DEF Sales
    <2>2. /\ cups[i].at <= today /\ cups[i].stored <= cups[i].at
          /\ SameMonth(cups[i].stored, cups[i].at)
      BY DEF StatisticsInv, RowsInv
    <2> QED
      BY <1>3, <2>1, <2>2 DEF DateOf, SameMonth
  <1>6. \A s \in Scopes : Rows(s) \subseteq DOMAIN cups /\ IsFiniteSet(Rows(s))
    BY <1>2, InRows, FS_Subset
  <1> QED
    BY <1>1, <1>2, <1>3, <1>4, <1>5, <1>6

LEMMA WeekShown == StatisticsInv => WeekIsTrue
  <1> SUFFICES ASSUME StatisticsInv, chart.stage = "shown",
                      chart.answered - chart.asked <= 20, NEW w \in Weeks, NEW i \in 0..6
               PROVE  LET day   == IF w = "this" THEN chart.answered + i - 6
                                                 ELSE chart.answered + i - 13
                          there == {r \in chart.seen[w] : /\ DateOf(chart.scope, r) = day
                                                          /\ cups[r].kind \notin NotCoffee}
                      IN  /\ chart.columns[w][i] <= AddedUp(there)
                          /\ i + (chart.answered - chart.asked) <= 6
                               => chart.columns[w][i] = AddedUp(there)
    BY DEF WeekIsTrue
  <1> DEFINE day   == IF w = "this" THEN chart.answered + i - 6 ELSE chart.answered + i - 13
             there == {r \in chart.seen[w] : /\ DateOf(chart.scope, r) = day
                                             /\ cups[r].kind \notin NotCoffee}
  <1>1. /\ chart.scope \in Scopes /\ chart.seen[w] \subseteq Rows(chart.scope)
        /\ chart.columns[w][i] = AddedUp(InColumn(w, i)) /\ chart.asked <= chart.answered
        /\ chart.asked \in FirstDay..LastDay /\ chart.answered \in FirstDay..LastDay
    BY DEF StatisticsInv, StatisticsTypeOK, ChartInv
  <1>2. /\ FirstDay \in Nat /\ LastDay \in Nat /\ FirstDay > 14 /\ Days = 1..Len(Calendar)
        /\ LastDay <= Len(Calendar) /\ Len(Calendar) \in Nat
    BY StatisticsAssumption, CalendarFacts
  <1>3. chart.asked \in Nat /\ chart.answered \in Nat /\ w \in {"this", "last"}
    BY <1>1, <1>2 DEF Weeks
  <1> DEFINE n == chart.asked
             m == chart.answered
  <1>12. n \in Nat /\ m \in Nat /\ n <= m /\ m - n <= 20 /\ m > 14 /\ m <= Len(Calendar)
    BY <1>1, <1>2, <1>3
  <1>13. /\ w = "this" => day = m + i - 6 /\ LabelDay(w, m, i) = m - (6 - i)
                          /\ QueryDays(w, n) = n - 7..n
         /\ w = "last" => day = m + i - 13 /\ LabelDay(w, m, i) = m - 7 - (6 - i)
                          /\ QueryDays(w, n) = n - 14..n - 7
    BY DEF LabelDay, QueryDays
  <1> HIDE DEF day, n, m
  <1>4. day \in Days /\ day \in Nat /\ LabelDay(w, chart.answered, i) = day
    <2>1. day \in Days /\ day \in Nat /\ LabelDay(w, m, i) = day
      BY <1>2, <1>3, <1>12, <1>13, SMTT(40)
    <2> QED
      BY <2>1 DEF m
  <1>5. ASSUME NEW d \in QueryDays(w, chart.asked)
        PROVE  d - day < 28 /\ day - d < 28
    <2>1. d \in QueryDays(w, n)
      BY DEF n
    <2> QED
      BY <1>3, <1>12, <1>13, <2>1, SMTT(40)
  <1>6. i + (chart.answered - chart.asked) <= 6 => day \in QueryDays(w, chart.asked)
    <2>1. i + (m - n) <= 6 => day \in QueryDays(w, n)
      BY <1>3, <1>12, <1>13
    <2> QED
      BY <2>1 DEF m, n
  <1>7. \A r \in chart.seen[w] : DateOf(chart.scope, r) \in Days
    BY <1>1, RowFacts
  <1>8. InColumn(w, i) \subseteq there
    <2> SUFFICES ASSUME NEW r \in InColumn(w, i) PROVE r \in there
      OBVIOUS
    <2>1. /\ r \in chart.seen[w] /\ cups[r].kind \notin NotCoffee
          /\ DateOf(chart.scope, r) \in QueryDays(w, chart.asked)
          /\ DayNumber(DateOf(chart.scope, r)) = DayNumber(day)
      BY <1>4 DEF InColumn
    <2>2. DateOf(chart.scope, r) = day
      BY <1>4, <1>5, <1>7, <2>1, NumberTellsDay
    <2> QED
      BY <2>1, <2>2
  <1>9. i + (chart.answered - chart.asked) <= 6 => InColumn(w, i) = there
    <2> SUFFICES ASSUME i + (chart.answered - chart.asked) <= 6, NEW r \in there
                 PROVE  r \in InColumn(w, i)
      BY <1>8
    <2> QED
      BY <1>4, <1>6 DEF InColumn
  <1>10. IsFiniteSet(there)
    <2>1. there \subseteq Rows(chart.scope)
      BY <1>1
    <2> QED
      BY <1>1, <2>1, RowFacts, FS_Subset
  <1> HIDE DEF there
  <1>11. chart.columns[w][i] <= AddedUp(there)
    BY <1>1, <1>8, <1>10, CountsGrow
  <1> QED
    BY <1>1, <1>9, <1>11 DEF there, day

\* A week chart shows in each column the coffees of its day.
THEOREM StatisticsWeekIsTrue == StatisticsSpec => []WeekIsTrue
  BY WeekShown, StatisticsInvariance, PTL

LEMMA UsersAddUp ==
  ASSUME StatisticsInv, NEW M \in CupDays
  PROVE  Total([u \in Users |-> Count(OfUser(u), M).month])
           = Count(Everybody, M).month
             + SumCoffees({i \in DOMAIN cups : /\ cups[i].counted # "done"
                                              /\ SameMonth(cups[i].at, M)})
  <1> DEFINE S    == {i \in DOMAIN cups : SameMonth(cups[i].at, M)}
             done == {i \in DOMAIN cups : cups[i].counted = "done" /\ SameMonth(cups[i].at, M)}
             rest == {i \in DOMAIN cups : cups[i].counted # "done" /\ SameMonth(cups[i].at, M)}
             A    == [u \in Users |-> {i \in DOMAIN cups : /\ cups[i].user = u
                                                          /\ SameMonth(cups[i].at, M)}]
             f    == [u \in Users |-> Count(OfUser(u), M).month]
  <1>1. /\ IsFiniteSet(DOMAIN cups) /\ \A i \in DOMAIN cups : cups[i].user \in Users
        /\ \A s \in Scopes : \A i \in DOMAIN cups : SameMonth(DateOf(s, i), cups[i].at)
    BY RowFacts DEF Sales
  <1>2. IsFiniteSet(S) /\ IsFiniteSet(done) /\ IsFiniteSet(rest)
    BY <1>1, FS_Subset
  <1>3. S = UNION {A[u] : u \in Users}
    <2>1. \A i \in S : i \in A[cups[i].user] /\ cups[i].user \in Users
      BY <1>1
    <2>2. \A u \in Users : A[u] \subseteq S
      OBVIOUS
    <2> HIDE DEF S, A
    <2> QED
      BY <2>1, <2>2
  <1>4. \A u, v \in Users : u # v => A[u] \cap A[v] = {}
    OBVIOUS
  <1>5. ASSUME NEW s \in Scopes
        PROVE  Count(s, M).month
                 = SumCoffees({i \in Rows(s) : SameMonth(cups[i].at, M)})
    <2>1. Rows(s) \subseteq DOMAIN cups
      BY InRows
    <2>2. \A i \in Rows(s) : SameMonth(DateOf(s, i), M) <=> SameMonth(cups[i].at, M)
      BY <1>1, <2>1 DEF SameMonth
    <2>3. {i \in Rows(s) : SameMonth(DateOf(s, i), M)}
            = {i \in Rows(s) : SameMonth(cups[i].at, M)}
      BY <2>2
    <2> QED
      BY <2>3 DEF Count
  <1>6. \A u \in Users : f[u] = SumCoffees(A[u])
    <2> SUFFICES ASSUME NEW u \in Users PROVE f[u] = SumCoffees(A[u])
      OBVIOUS
    <2>1. /\ OfUser(u) \in Scopes
          /\ Rows(OfUser(u)) = {i \in DOMAIN cups : cups[i].user = u}
      BY DEF Scopes, OfUser, Rows
    <2>2. {i \in Rows(OfUser(u)) : SameMonth(cups[i].at, M)} = A[u]
      BY <2>1
    <2> HIDE DEF A
    <2> QED
      BY <1>5, <2>1, <2>2
  <1>7. DOMAIN f = Users /\ IsFiniteSet(Users)
    BY StatisticsAssumption
  <1>8. Count(Everybody, M).month = SumCoffees(done)
    <2>1. /\ Everybody \in Scopes
          /\ Rows(Everybody) = {i \in DOMAIN cups : cups[i].counted = "done"}
      BY DEF Scopes, Everybody, Rows
    <2>2. {i \in Rows(Everybody) : SameMonth(cups[i].at, M)} = done
      BY <2>1
    <2> HIDE DEF done
    <2> QED
      BY <1>5, <2>1, <2>2
  <1>9. done \cap rest = {} /\ S = done \cup rest
    OBVIOUS
  <1> HIDE DEF S, A, f, done, rest
  <1>10. Total(f) = SumCoffees(S)
    BY <1>2, <1>3, <1>4, <1>6, <1>7, PartsAdd
  <1>11. SumCoffees(S) = SumCoffees(done) + SumCoffees(rest)
    BY <1>2, <1>9, CountsAdd
  <1> QED
    BY <1>8, <1>10, <1>11 DEF f, rest

LEMMA GroupsAddUp ==
  ASSUME StatisticsInv
  PROVE  Counter(Everybody)
           = Total([g \in Groups |-> Counter(OfGroup(g))])
             + SumCoffees({i \in Rows(Everybody) : cups[i].group = NoGroup})
  <1> DEFINE S    == {i \in Rows(Everybody) : cups[i].group # NoGroup}
             none == {i \in Rows(Everybody) : cups[i].group = NoGroup}
             A    == [g \in Groups |-> {i \in Rows(Everybody) : cups[i].group = g}]
             f    == [g \in Groups |-> Counter(OfGroup(g))]
  <1>1. /\ Everybody \in Scopes /\ IsFiniteSet(Rows(Everybody))
        /\ \A i \in Rows(Everybody) : cups[i].group \in Groups \cup {NoGroup}
    <2>1. Everybody \in Scopes
      BY DEF Scopes
    <2> QED
      BY <2>1, RowFacts DEF Sales
  <1>2. IsFiniteSet(S) /\ IsFiniteSet(none)
    BY <1>1, FS_Subset
  <1>3. S = UNION {A[g] : g \in Groups}
    <2>1. \A i \in S : i \in A[cups[i].group] /\ cups[i].group \in Groups
      BY <1>1
    <2>2. \A g \in Groups : A[g] \subseteq S
      BY StatisticsAssumption
    <2> HIDE DEF S, A
    <2> QED
      BY <2>1, <2>2
  <1>4. \A g, h \in Groups : g # h => A[g] \cap A[h] = {}
    OBVIOUS
  <1>5. \A g \in Groups : f[g] = SumCoffees(A[g])
    <2> SUFFICES ASSUME NEW g \in Groups PROVE f[g] = SumCoffees(A[g])
      OBVIOUS
    <2>1. Rows(OfGroup(g)) = {i \in DOMAIN cups : cups[i].counted = "done" /\ cups[i].group = g}
      BY DEF OfGroup, Rows
    <2>2. Rows(Everybody) = {i \in DOMAIN cups : cups[i].counted = "done"}
      BY DEF Everybody, Rows
    <2>3. Rows(OfGroup(g)) = A[g]
      BY <2>1, <2>2
    <2> HIDE DEF A
    <2> QED
      BY <2>3 DEF Counter
  <1>6. DOMAIN f = Groups /\ IsFiniteSet(Groups)
    BY StatisticsAssumption
  <1>7. S \cap none = {} /\ Rows(Everybody) = S \cup none
    OBVIOUS
  <1> HIDE DEF S, A, f, none
  <1>8. Total(f) = SumCoffees(S)
    BY <1>2, <1>3, <1>4, <1>5, <1>6, PartsAdd
  <1>9. SumCoffees(Rows(Everybody)) = SumCoffees(S) + SumCoffees(none)
    BY <1>2, <1>7, CountsAdd
  <1> QED
    BY <1>8, <1>9 DEF f, none, Counter

\* The users' coffees of a month, and the groups' of all time, are everybody's.
THEOREM StatisticsCountersAddUp == StatisticsSpec => []CountersAddUp
  <1>1. StatisticsInv => CountersAddUp
    BY UsersAddUp, GroupsAddUp, Zenon DEF CountersAddUp
  <1> QED
    BY <1>1, StatisticsInvariance, PTL

-----------------------------------------------------------------------------
(* The dashboard.                                                          *)

Spans == {"day", "week", "month"}
SameSpan(span, d, e) ==
  CASE span = "day"   -> d = e
    [] span = "week"  -> SameWeek(d, e)
    [] span = "month" -> SameMonth(d, e)
InSpan(s, span, d) == {i \in Rows(s) : SameSpan(span, DateOf(s, i), d)}

LEMMA CountOfSpan ==
  ASSUME StatisticsInv, NEW s \in Scopes, NEW span \in Spans, NEW d
  PROVE  /\ Count(s, d)[span] = SumCoffees(InSpan(s, span, d))
         /\ Count(s, d)[span] \in Nat /\ Count(s, d)[span] <= Counter(s)
         /\ Counter(s) \in Nat /\ InSpan(s, span, d) \subseteq Rows(s)
  <1>1. Count(s, d)[span] = SumCoffees(InSpan(s, span, d))
    <2>1. CASE span = "day"
      <3>1. InSpan(s, span, d) = RowsOn(s, {d})
        BY <2>1 DEF InSpan, SameSpan, RowsOn
      <3> QED
        BY <2>1, <3>1 DEF Count
    <2>2. CASE span = "week"
      <3>1. InSpan(s, span, d) = {i \in Rows(s) : SameWeek(DateOf(s, i), d)}
        BY <2>2 DEF InSpan, SameSpan
      <3> QED
        BY <2>2, <3>1 DEF Count
    <2>3. CASE span = "month"
      <3>1. InSpan(s, span, d) = {i \in Rows(s) : SameMonth(DateOf(s, i), d)}
        BY <2>3 DEF InSpan, SameSpan
      <3> QED
        BY <2>3, <3>1 DEF Count
    <2> QED
      BY <2>1, <2>2, <2>3 DEF Spans
  <1>2. IsFiniteSet(Rows(s)) /\ InSpan(s, span, d) \in SUBSET Rows(s)
    BY RowFacts DEF InSpan
  <1>3. IsFiniteSet(InSpan(s, span, d))
    BY <1>2, FS_Subset
  <1> QED
    BY <1>1, <1>2, <1>3, CountsAreNumbers, CountsGrow DEF Counter

\* No count is above the highest of the days there are coffees of.
LEMMA HighestIsHigh ==
  ASSUME StatisticsInv, NEW s \in Scopes, NEW span \in Spans
  PROVE  /\ Highest(s)[span] \in Nat
         /\ \A i \in Rows(s) : Count(s, DateOf(s, i))[span] <= Highest(s)[span]
  <1> DEFINE B == {0} \cup {Count(s, d)[span] : d \in {DateOf(s, i) : i \in Rows(s)}}
  <1>1. \A d : Count(s, d)[span] \in Nat /\ Count(s, d)[span] <= Counter(s)
    BY CountOfSpan
  <1>2. Counter(s) \in Nat
    BY CountOfSpan
  <1>3. B \in SUBSET Nat /\ B # {} /\ \A y \in B : y <= Counter(s)
    BY <1>1, <1>2
  <1>4. \A i \in Rows(s) : Count(s, DateOf(s, i))[span] \in B
    OBVIOUS
  <1>5. Highest(s)[span] = Max(B)
    BY DEF Highest, Spans
  <1> HIDE DEF B
  <1>6. Max(B) \in B /\ \A y \in B : y <= Max(B)
    BY <1>2, <1>3, MaxIsHighest
  <1> QED
    BY <1>3, <1>4, <1>5, <1>6

LEMMA NoRowsNoCoffees == SumCoffees({}) = 0
  <1>1. CupsOf({}) = {} /\ Cardinality({}) = 0 /\ IsFiniteSet({})
    BY FS_EmptySet DEF CupsOf
  <1> QED
    BY <1>1, CountsAreNumbers

LEMMA DashboardShown == StatisticsInv => DashboardIsTrue
  <1> SUFFICES ASSUME StatisticsInv PROVE DashboardIsTrue
    OBVIOUS
  <1>1. ASSUME NEW s \in Scopes, NEW span \in Spans
        PROVE  Current(s)[span] <= Highest(s)[span]
    <2>1. /\ Current(s)[span] = SumCoffees(InSpan(s, span, today))
          /\ Current(s)[span] \in Nat
      BY CountOfSpan DEF Current
    <2>2. CASE InSpan(s, span, today) = {}
      BY <2>1, <2>2, NoRowsNoCoffees, HighestIsHigh
    <2>3. CASE InSpan(s, span, today) # {}
      <3>1. PICK i \in Rows(s) : SameSpan(span, DateOf(s, i), today)
        BY <2>3 DEF InSpan
      <3>2. \A d : SameSpan(span, d, DateOf(s, i)) <=> SameSpan(span, d, today)
        <4>1. CASE span = "day"
          BY <3>1, <4>1 DEF SameSpan
        <4>2. CASE span = "week"
          BY <3>1, <4>2 DEF SameSpan, SameWeek
        <4>3. CASE span = "month"
          BY <3>1, <4>3 DEF SameSpan, SameMonth
        <4> QED
          BY <4>1, <4>2, <4>3 DEF Spans
      <3>3. InSpan(s, span, DateOf(s, i)) = InSpan(s, span, today)
        BY <3>2 DEF InSpan
      <3>4. Count(s, DateOf(s, i))[span] = Current(s)[span]
        BY <2>1, <3>3, CountOfSpan
      <3> QED
        BY <3>4, HighestIsHigh
    <2> QED
      BY <2>2, <2>3
  <1>2. ASSUME NEW s \in Scopes, Year(Monday(today)) = Year(Monday(today) + 6),
               WeekNo[today] < 52
        PROVE  Current(s).week = SumCoffees(RowsOn(s, WeekOf(today)))
    <2>1. /\ today \in Days /\ today \in FirstDay..LastDay /\ Days = 1..Len(Calendar)
          /\ LastDay \in FirstDay..Len(Calendar) - 6 /\ FirstDay \in Nat /\ FirstDay > 14
          /\ Len(Calendar) \in Nat
      <3>1. today \in Days /\ today \in FirstDay..LastDay
        BY RowFacts DEF StatisticsInv, StatisticsTypeOK
      <3>2. /\ LastDay \in FirstDay..Len(Calendar) - 6 /\ FirstDay \in Days /\ FirstDay > 14
        BY StatisticsAssumption
      <3>3. Days = 1..Len(Calendar) /\ Len(Calendar) \in Nat
        BY CalendarFacts
      <3> QED
        BY <3>1, <3>2, <3>3
    <2>2. Monday(today) + 6 \in Days
      BY <2>1 DEF Monday
    <2>3. \A i \in Rows(s) : DateOf(s, i) \in Days /\ DateOf(s, i) <= today
      BY RowFacts
    <2>4. \A i \in Rows(s) : SameWeek(DateOf(s, i), today) <=> DateOf(s, i) \in WeekOf(today)
      BY <1>2, <2>1, <2>2, <2>3, WeekIsWhole
    <2>5. {i \in Rows(s) : SameWeek(DateOf(s, i), today)} = RowsOn(s, WeekOf(today))
      BY <2>4 DEF RowsOn
    <2> QED
      BY <2>5 DEF Current, Count
  <1> QED
    BY <1>1, <1>2, Zenon DEF DashboardIsTrue, Spans

\* The dashboard counts what it says, and no more than there ever was.
THEOREM StatisticsDashboardIsTrue == StatisticsSpec => []DashboardIsTrue
  BY DashboardShown, StatisticsInvariance, PTL

-----------------------------------------------------------------------------
(* The charts of one query.                                                *)

\* The pie: its two fixed slices and those of the other products.
LEMMA PieIsWhole ==
  ASSUME NEW found, IsFiniteSet(found)
  PROVE  LET slice(K) == AddedUp({i \in found : cups[i].kind \in K})
             others   == {cups[i].kind : i \in found} \ {1, 2, 3, 4}
         IN  slice({1, 2}) + slice({3, 4}) + Total([k \in others |-> slice({k})])
               = AddedUp(found)
  <1> DEFINE part(K) == {i \in found : cups[i].kind \in K}
             others  == {cups[i].kind : i \in found} \ {1, 2, 3, 4}
             rest    == {i \in found : cups[i].kind \notin {1, 2, 3, 4}}
             A       == [k \in others |-> part({k})]
             f       == [k \in others |-> AddedUp(part({k}))]
  <1>1. \A K : IsFiniteSet(part(K))
    BY FS_Subset
  <1>2. IsFiniteSet(rest) /\ IsFiniteSet(part({1, 2}) \cup part({3, 4}))
    BY FS_Subset
  <1>3. IsFiniteSet(others)
    <2> DEFINE all == {cups[i].kind : i \in found}
    <2>1. [i \in found |-> cups[i].kind] \in Surjection(found, all)
      BY DEF Surjection
    <2>2. IsFiniteSet(all)
      BY <2>1, FS_Surjection
    <2> QED
      BY <2>2, FS_Subset
  <1>4. rest = UNION {A[k] : k \in others}
    <2>1. \A i \in rest : i \in A[cups[i].kind] /\ cups[i].kind \in others
      OBVIOUS
    <2>2. \A k \in others : A[k] \subseteq rest
      OBVIOUS
    <2> HIDE DEF rest, A, others
    <2> QED
      BY <2>1, <2>2
  <1>5. \A k, l \in others : k # l => A[k] \cap A[l] = {}
    OBVIOUS
  <1>6. DOMAIN f = others /\ \A k \in others : f[k] = AddedUp(A[k])
    OBVIOUS
  <1>7. /\ part({1, 2}) \cap part({3, 4}) = {}
        /\ (part({1, 2}) \cup part({3, 4})) \cap rest = {}
        /\ found = (part({1, 2}) \cup part({3, 4})) \cup rest
    OBVIOUS
  <1> HIDE DEF part, others, rest, A, f
  <1>8. Total(f) = AddedUp(rest)
    BY <1>2, <1>3, <1>4, <1>5, <1>6, PartsAdd
  <1>9. AddedUp(found) = AddedUp(part({1, 2})) + AddedUp(part({3, 4})) + AddedUp(rest)
    <2>1. AddedUp(part({1, 2}) \cup part({3, 4}))
            = AddedUp(part({1, 2})) + AddedUp(part({3, 4}))
      BY <1>1, <1>7, CountsAdd
    <2>2. AddedUp((part({1, 2}) \cup part({3, 4})) \cup rest)
            = AddedUp(part({1, 2}) \cup part({3, 4})) + AddedUp(rest)
      BY <1>2, <1>7, CountsAdd
    <2> QED
      BY <1>7, <2>1, <2>2
  <1>10. AddedUp(part({1, 2})) + AddedUp(part({3, 4})) + Total(f) = AddedUp(found)
    BY <1>8, <1>9
  <1> QED
    BY <1>10 DEF part, others, f

\* The bars of the days.
LEMMA BarsAreWhole ==
  ASSUME StatisticsInv, NEW s \in Scopes, NEW from \in Days, NEW to \in Days,
         to - from \in 0..31
  PROVE  /\ DOMAIN CustomRange(s, from, to) = from..to
         /\ Total(CustomRange(s, from, to)) = AddedUp(CoffeesOn(s, from..to))
  <1> DEFINE found == CoffeesOn(s, from..to)
             D     == from..to
             A     == [d \in D |-> {i \in found : DateOf(s, i) = d}]
             f     == CustomRange(s, from, to)
  <1>1. /\ from \in Nat /\ to \in Nat /\ Days = 1..Len(Calendar) /\ Len(Calendar) \in Nat
    BY CalendarFacts
  <1>2. IsFiniteSet(D) /\ \A d \in D : d \in Days
    BY <1>1, FS_Interval
  <1>3. IsFiniteSet(found) /\ \A i \in found : DateOf(s, i) \in D
    <2>1. found \subseteq Rows(s) /\ \A i \in found : DateOf(s, i) \in D
      BY DEF CoffeesOn, RowsOn
    <2> QED
      BY <2>1, RowFacts, FS_Subset
  <1>4. DOMAIN f = D
    BY DEF CustomRange
  <1>5. ASSUME NEW d \in D PROVE f[d] = AddedUp(A[d])
    <2>1. \A i \in found : MonthDay(DateOf(s, i)) = MonthDay(d) <=> DateOf(s, i) = d
      <3> SUFFICES ASSUME NEW i \in found, MonthDay(DateOf(s, i)) = MonthDay(d)
                   PROVE  DateOf(s, i) = d
        OBVIOUS
      <3>1. DateOf(s, i) \in D /\ DateOf(s, i) \in Days /\ d \in Days
        BY <1>2, <1>3
      <3>2. DateOf(s, i) - d <= 31 /\ d - DateOf(s, i) <= 31
        BY <1>1, <3>1
      <3> QED
        BY <3>1, <3>2, DateTellsDay
    <2>2. {i \in found : MonthDay(DateOf(s, i)) = MonthDay(d)} = A[d]
      BY <2>1
    <2>3. f[d] = AddedUp({i \in found : MonthDay(DateOf(s, i)) = MonthDay(d)})
      BY DEF CustomRange
    <2> QED
      BY <2>2, <2>3
  <1>6. found = UNION {A[d] : d \in D}
    <2>1. \A i \in found : i \in A[DateOf(s, i)] /\ DateOf(s, i) \in D
      BY <1>3
    <2>2. \A d \in D : A[d] \subseteq found
      OBVIOUS
    <2> HIDE DEF found, A, D
    <2> QED
      BY <2>1, <2>2
  <1>7. \A d, e \in D : d # e => A[d] \cap A[e] = {}
    OBVIOUS
  <1> HIDE DEF found, D, A, f
  <1>8. Total(f) = AddedUp(found)
    BY <1>2, <1>3, <1>4, <1>5, <1>6, <1>7, PartsAdd
  <1> QED
    BY <1>4, <1>8 DEF found, D, f

\* The sums of single days.
LEMMA DaysAreWhole ==
  ASSUME StatisticsInv, NEW s \in Scopes, NEW from \in Days, NEW to \in Days
  PROVE  Total([d \in from..to |-> DayStatistic(s, d)]) = SumCoffees(RowsOn(s, from..to))
  <1> DEFINE S == RowsOn(s, from..to)
             D == from..to
             A == [d \in D |-> RowsOn(s, {d})]
             f == [d \in D |-> DayStatistic(s, d)]
  <1>1. IsFiniteSet(D)
    BY CalendarFacts, FS_Interval
  <1>2. IsFiniteSet(S)
    <2>1. S \subseteq Rows(s)
      BY DEF RowsOn
    <2> QED
      BY <2>1, RowFacts, FS_Subset
  <1>3. S = UNION {A[d] : d \in D}
    <2>1. \A i \in S : i \in A[DateOf(s, i)] /\ DateOf(s, i) \in D
      BY DEF RowsOn
    <2>2. \A d \in D : A[d] \subseteq S
      BY DEF RowsOn
    <2> HIDE DEF S, A, D
    <2> QED
      BY <2>1, <2>2
  <1>4. \A d, e \in D : d # e => A[d] \cap A[e] = {}
    BY DEF RowsOn
  <1>5. DOMAIN f = D /\ \A d \in D : f[d] = SumCoffees(A[d])
    BY DEF DayStatistic
  <1> HIDE DEF S, D, A, f
  <1>6. Total(f) = SumCoffees(S)
    BY <1>1, <1>2, <1>3, <1>4, <1>5, PartsAdd
  <1> QED
    BY <1>6 DEF S, D, f

LEMMA ChartsShown == StatisticsInv => ChartsAgree
  <1> SUFFICES ASSUME StatisticsInv, NEW s \in Scopes, NEW r \in Ranges,
                      Accepted(r[1], r[2], 31), ~CustomRangeFails(s, r[1], r[2])
               PROVE  LET bars  == CustomRange(s, r[1], r[2])
                          total == Total(bars)
                      IN  /\ DOMAIN bars = r[1]..r[2]
                          /\ total = CoffeeConsumption(s, r[1], r[2])
                          /\ total = Total([d \in r[1]..r[2] |-> DayStatistic(s, d)])
                          /\ WholeMonth(r[1], r[2]) =>
                               total = MonthStatistic(s, Year(r[1]))[Month(r[1])]
    BY DEF ChartsAgree
  <1> DEFINE from  == r[1]
             to    == r[2]
             found == CoffeesOn(s, from..to)
             S     == RowsOn(s, from..to)
             total == Total(CustomRange(s, from, to))
  <1>1. /\ from \in Days /\ to \in Days /\ to - from \in 0..31
        /\ from \in Nat /\ to \in Nat
    <2>1. Ranges \subseteq Days \X Days
      BY StatisticsAssumption
    <2>2. from \in Days /\ to \in Days
      BY <2>1
    <2>3. to - from \in 0..31
      BY DEF Accepted
    <2>4. Days = 1..Len(Calendar)
      BY CalendarFacts
    <2> QED
      BY <2>2, <2>3, <2>4
  <1>2. /\ S \subseteq Rows(s) /\ found = {i \in S : cups[i].kind \notin NotCoffee}
        /\ IsFiniteSet(found)
    <2>1. S \subseteq Rows(s) /\ found = {i \in S : cups[i].kind \notin NotCoffee}
      BY DEF RowsOn, CoffeesOn
    <2>2. found \subseteq Rows(s)
      BY <2>1
    <2> QED
      BY <2>1, <2>2, RowFacts, FS_Subset
  <1>3. \A i \in found : cups[i].kind \in Large \cup Single
    BY DEF CustomRangeFails, Listed
  <1>4. AddedUp(found) = SumCoffees(S)
    <2>1. \A i \in S : cups[i].kind \in Large \cup Single => i \in found
      BY <1>2 DEF Large, Single, NotCoffee
    <2>2. found \in SUBSET S
      BY <1>2
    <2> HIDE DEF S, found
    <2> QED
      BY <1>3, <2>1, <2>2, CountsAgree
  <1>5. CoffeeConsumption(s, from, to) = AddedUp(found)
    BY <1>2, PieIsWhole DEF CoffeeConsumption
  <1>6. WholeMonth(from, to) => MonthStatistic(s, Year(from))[Month(from)] = SumCoffees(S)
    <2> SUFFICES ASSUME WholeMonth(from, to)
                 PROVE  MonthStatistic(s, Year(from))[Month(from)] = SumCoffees(S)
      OBVIOUS
    <2>1. Month(from) \in 1..12 /\ from <= to
      <3>1. \A d \in Days : Month(d) \in 1..12
        BY CalendarFacts
      <3>2. Month(from) \in 1..12
        BY <1>1, <3>1
      <3> HIDE DEF from, to
      <3>3. from <= to
        BY <1>1
      <3> QED
        BY <3>2, <3>3
    <2>2. MonthStatistic(s, Year(from))[Month(from)]
            = SumCoffees({i \in Rows(s) : /\ Year(DateOf(s, i)) = Year(from)
                                          /\ Month(DateOf(s, i)) = Month(from)})
      BY <2>1 DEF MonthStatistic
    <2>3. \A i \in Rows(s) : SameMonth(DateOf(s, i), from) <=> DateOf(s, i) \in from..to
      BY <1>1, <2>1, RowFacts, MonthIsWhole
    <2>4. {i \in Rows(s) : /\ Year(DateOf(s, i)) = Year(from)
                           /\ Month(DateOf(s, i)) = Month(from)} = S
      BY <2>3 DEF RowsOn, SameMonth
    <2> QED
      BY <2>2, <2>4
  <1>7. Total([d \in from..to |-> DayStatistic(s, d)]) = SumCoffees(S)
    BY <1>1, DaysAreWhole
  <1>8. DOMAIN CustomRange(s, from, to) = from..to /\ total = AddedUp(found)
    BY <1>1, BarsAreWhole
  <1> QED
    BY <1>4, <1>5, <1>6, <1>7, <1>8, Zenon

\* Every chart of a range comes to the same number.
THEOREM StatisticsChartsAgree == StatisticsSpec => []ChartsAgree
  BY ChartsShown, StatisticsInvariance, PTL
=============================================================================
