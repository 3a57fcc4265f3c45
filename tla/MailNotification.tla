-------------------------- MODULE MailNotification --------------------------
(***************************************************************************)
(* The mails a user gets about the own account (webServer/lib/mail.js).    *)
(* After a booking, sendMailToUser reads which kinds of mail are enabled   *)
(* and which reminders were sent, and sends what is due: a receipt, and    *)
(* the reminders "balance low" and "out of money".  A reminder is sent     *)
(* once: its column `sent' is set after the mail, and cleared when a       *)
(* credit lifts the balance or the user sets another limit                 *)
(* (routes/user/mail.js).                                                  *)
(*                                                                         *)
(* Calls for several bookings of the same user run side by side, and none  *)
(* of their statements is in a transaction.  This module is about one user;*)
(* balances are in units of CHEAPEST_ITEM_VALUE.                           *)
(***************************************************************************)
EXTENDS Integers, FiniteSets

\* (Operators named Bug... are slips of the code one definition further down
\* could suffer; each is used to show that a property would notice.)

CONSTANTS
  Calls,      \* bookings in progress, from the reading of the user on
  Amounts,    \* what is credited or charged
  Limits,     \* values of emailCreditLimitForNotification
  MaxSteps,   \* bound on bookings and settings
  MaxFaults   \* bound on failing statements and mails, and crashes

ASSUME MailAssumption ==
  /\ Amounts \subseteq Nat \ {0}
  /\ Limits \subseteq Nat
  /\ MaxSteps \in Nat
  /\ MaxFaults \in Nat

Cheapest == 1   \* CHEAPEST_ITEM_VALUE

\* NEW_PURCHASE and CREDIT_DEBIT_RECEIVED are the receipts; every booking is
\* due exactly one of them.
Reminders == {"low", "out"}
Kinds     == Reminders \cup {"receipt"}

VARIABLES
  deposit,  \* currentDeposit
  limit,    \* emailCreditLimitForNotification
  enabled,  \* column isEnabled; "mail" is enableEmailNotification
  sent,     \* column sent, of the reminders
  call,     \* what each call of sendMailToUser is at
  \* history
  told,     \* how often a reminder was sent since the balance was lifted
  owed,     \* reminders a booking made due since then
  mishaps,  \* what went wrong or crossed so far
  steps, faults

vars == <<deposit, limit, enabled, sent, call, told, owed, mishaps, steps,
          faults>>
history == <<told, owed, steps>>

\* A call: of what booking, the user's row read before it, the balance after
\* it, and, read by the call, the kinds enabled and the reminders not sent;
\* then the reminders to clear, the mails to send and the reminders to mark.
None == [pc |-> "none", credit |-> FALSE, limit |-> 0, mail |-> FALSE,
         deposit |-> 0, enabled |-> {}, unsent |-> {}, clear |-> {},
         send |-> {}, mark |-> {}]
Call == [pc : {"none", "read", "booked", "loaded", "failed", "sending"},
         credit : BOOLEAN, limit : {0} \cup Limits, mail : BOOLEAN,
         deposit : Int, enabled : SUBSET Kinds, unsent : SUBSET Reminders,
         clear : SUBSET Reminders, send : SUBSET Kinds,
         mark : SUBSET Reminders]

TypeOK ==
  /\ deposit \in Int
  /\ limit \in Limits
  /\ enabled \in SUBSET (Kinds \cup {"mail"})
  /\ sent \in SUBSET Reminders
  /\ call \in [Calls -> Call]
  /\ told \in [Reminders -> Nat]
  /\ owed \in SUBSET Reminders
  /\ mishaps \in SUBSET {"overlap", "credit", "setting", "mail", "database",
                        "crash"}
  /\ steps \in 0 .. MaxSteps
  /\ faults \in 0 .. MaxFaults

Init ==
  /\ deposit = 0
  /\ limit \in Limits
  /\ enabled = Kinds \cup {"mail"}
  /\ sent = {}
  /\ call = [c \in Calls |-> None]
  /\ told = [r \in Reminders |-> 0]
  /\ owed = {}
  /\ mishaps = {}
  /\ steps = 0
  /\ faults = 0

-----------------------------------------------------------------------------
Running == {c \in Calls : call[c].pc # "none"}
Quiet   == Running = {}

\* What goes wrong if a call begins now: calls overlap, one of two is for a
\* credit, or a setting is not yet complete.
Overlapping(credit) ==
  {m \in {"overlap", "credit", "setting"} :
     \E c \in Running :
       \/ m = "overlap"
       \/ m = "credit" /\ (credit \/ call[c].credit)
       \/ m = "setting" /\ call[c].pc = "failed"}

Lifted(r, d, l) == IF r = "out" THEN d > Cheapest ELSE d >= l
Due(r, d, l)    == IF r = "out" THEN d < Cheapest ELSE d <= l

Step  == steps < MaxSteps /\ steps' = steps + 1
Fault == faults < MaxFaults /\ faults' = faults + 1

\* addBooking or newTransaction reads the user's row,
Read(c, credit) ==
  /\ call[c].pc = "none"
  /\ Step
  /\ call' = [call EXCEPT ![c] =
       [None EXCEPT !.pc = "read", !.credit = credit, !.limit = limit,
                    !.mail = "mail" \in enabled]]
  /\ mishaps' = mishaps \cup Overlapping(credit)
  /\ UNCHANGED <<deposit, limit, enabled, sent, told, owed, faults>>

After(c, amount) ==
  IF call[c].credit THEN deposit + amount ELSE deposit - amount

\* The balance is d after the booking.
DepositBecomes(c, d) ==
  LET lift == {r \in Reminders : call[c].credit /\ Lifted(r, d, limit)}
      due  == {r \in Reminders : Due(r, d, limit) /\ {r, "mail"} \subseteq enabled}
  IN  /\ deposit' = d
      /\ told' = [r \in Reminders |-> IF r \in lift THEN 0 ELSE told[r]]
      /\ owed' = (owed \ lift) \cup due

\* books,
Booked(c, amount) ==
  /\ call[c].pc = "read"
  /\ DepositBecomes(c, After(c, amount))
  /\ call' = [call EXCEPT ![c].pc = "booked", ![c].deposit = deposit']
  /\ UNCHANGED <<limit, enabled, sent, mishaps, steps, faults>>

\* fails to, which ends it,
NotBooked(c) ==
  /\ call[c].pc = "read"
  /\ call' = [call EXCEPT ![c] = None]
  /\ UNCHANGED <<deposit, limit, enabled, sent, history, mishaps, faults>>

\* or books and is told otherwise or nothing: the commit's answer is lost, a
\* later item of the request fails, or the row of the statistics does.
BookedUnnoticed(c, amount) ==
  /\ call[c].pc = "read"
  /\ Fault
  /\ DepositBecomes(c, After(c, amount))
  /\ call' = [call EXCEPT ![c] = None]
  /\ mishaps' = mishaps \cup {"database"}
  /\ UNCHANGED <<limit, enabled, sent, steps>>

\* sendMailToUser reads the table userEmailNotifications.
ToClear(c) ==
  {r \in Reminders : call[c].credit /\ Lifted(r, call[c].deposit, call[c].limit)}

BugNeverClears(c) == {}

Cleared(c) == ToClear(c)

Load(c) ==
  /\ call[c].pc = "booked"
  /\ call' = [call EXCEPT ![c].pc = "loaded",
                          ![c].enabled = enabled \cap Kinds,
                          ![c].unsent = Reminders \ sent,
                          ![c].clear = Cleared(c)]
  /\ UNCHANGED <<deposit, limit, enabled, sent, history, mishaps, faults>>

LoadFails(c) ==
  /\ call[c].pc = "booked"
  /\ Fault
  /\ call' = [call EXCEPT ![c] = None]
  /\ mishaps' = mishaps \cup {"database"}
  /\ UNCHANGED <<deposit, limit, enabled, sent, history>>

\* After a credit it clears the reminders that may come again.  The statements
\* are sent at once; if one fails, nothing is mailed, but the others count.
Ended(record) ==
  IF record.pc = "failed" /\ record.clear = {} THEN None ELSE record

Clear(c, r) ==
  /\ r \in call[c].clear
  /\ sent' = sent \ {r}
  /\ call' = [call EXCEPT ![c] =
       Ended([call[c] EXCEPT !.clear = @ \ {r}, !.unsent = @ \cup {r}])]
  /\ UNCHANGED <<deposit, limit, enabled, history, mishaps, faults>>

ClearFails(c, r) ==
  /\ r \in call[c].clear
  /\ Fault
  /\ call' = [call EXCEPT ![c] =
       Ended([call[c] EXCEPT !.clear = @ \ {r}, !.pc = "failed"])]
  /\ mishaps' = mishaps \cup {"database"}
  /\ UNCHANGED <<deposit, limit, enabled, sent, history>>

\* Then it sends what is enabled and due.
ToSend(record) ==
  {k \in record.enabled :
     /\ record.mail
     /\ \/ k = "receipt"
        \/ k \in record.unsent /\ Due(k, record.deposit, record.limit)}

Over(record) ==
  IF record.send = {} /\ record.mark = {} THEN None ELSE record

Decide(c) ==
  /\ call[c].pc = "loaded" /\ call[c].clear = {}
  /\ call' = [call EXCEPT ![c] =
       Over([call[c] EXCEPT !.pc = "sending", !.send = ToSend(call[c])])]
  /\ UNCHANGED <<deposit, limit, enabled, sent, history, mishaps, faults>>

\* A reminder that was mailed is marked.
BugMarksReceipts(k) == {k}

ToMark(k) == {k} \cap Reminders

Send(c, k) ==
  /\ k \in call[c].send
  /\ call' = [call EXCEPT ![c] =
       Over([call[c] EXCEPT !.send = @ \ {k}, !.mark = @ \cup ToMark(k)])]
  /\ told' = [r \in Reminders |-> told[r] + IF r = k THEN 1 ELSE 0]
  /\ UNCHANGED <<deposit, limit, enabled, sent, owed, mishaps, steps, faults>>

SendFails(c, k) ==
  /\ k \in call[c].send
  /\ Fault
  /\ call' = [call EXCEPT ![c] = Over([call[c] EXCEPT !.send = @ \ {k}])]
  /\ mishaps' = mishaps \cup {"mail"}
  /\ UNCHANGED <<deposit, limit, enabled, sent, history>>

BugMarksNothing(r) == sent

Marked(r) == sent \cup {r}

Mark(c, r) ==
  /\ r \in call[c].mark
  /\ sent' = Marked(r)
  /\ call' = [call EXCEPT ![c] = Over([call[c] EXCEPT !.mark = @ \ {r}])]
  /\ UNCHANGED <<deposit, limit, enabled, history, mishaps, faults>>

MarkFails(c, r) ==
  /\ r \in call[c].mark
  /\ Fault
  /\ call' = [call EXCEPT ![c] = Over([call[c] EXCEPT !.mark = @ \ {r}])]
  /\ mishaps' = mishaps \cup {"database"}
  /\ UNCHANGED <<deposit, limit, enabled, sent, history>>

-----------------------------------------------------------------------------
\* PUT enableEmailNotification, PUT emailSettings
SetEnabled(kind) ==
  /\ Step
  /\ \/ enabled' = enabled \cup {kind}
     \/ enabled' = enabled \ {kind}
  /\ mishaps' = mishaps \cup IF Quiet THEN {} ELSE {"setting"}
  /\ UNCHANGED <<deposit, limit, sent, call, told, owed, faults>>

\* PUT emailCreditLimitForNotification: the limit, then, separately, `sent'.
\* The second statement runs as a call of its own.
SetLimit(c, l) ==
  /\ call[c].pc = "none"
  /\ Step
  /\ limit' = l
  /\ call' = [call EXCEPT ![c] =
       [None EXCEPT !.pc = "failed", !.clear = {"low"}]]
  /\ told' = [told EXCEPT !["low"] = 0]
  /\ owed' = owed \ {"low"}
  /\ mishaps' = mishaps \cup IF Quiet THEN {} ELSE {"setting"}
  /\ UNCHANGED <<deposit, enabled, sent, faults>>

\* The server stops; the database keeps what was written.
Crash ==
  /\ ~Quiet
  /\ Fault
  /\ call' = [c \in Calls |-> None]
  /\ mishaps' = mishaps \cup {"crash"}
  /\ UNCHANGED <<deposit, limit, enabled, sent, history>>

SendMailToUser(c) ==
  \/ Load(c) \/ LoadFails(c)
  \/ \E r \in Reminders : Clear(c, r) \/ ClearFails(c, r)
  \/ Decide(c)
  \/ \E k \in Kinds : Send(c, k) \/ SendFails(c, k)
  \/ \E r \in Reminders : Mark(c, r) \/ MarkFails(c, r)

Next ==
  \/ \E c \in Calls, credit \in BOOLEAN : Read(c, credit)
  \/ \E c \in Calls, a \in Amounts : Booked(c, a) \/ BookedUnnoticed(c, a)
  \/ \E c \in Calls : NotBooked(c)
  \/ \E c \in Calls : SendMailToUser(c)
  \/ \E k \in Kinds \cup {"mail"} : SetEnabled(k)
  \/ \E c \in Calls, l \in Limits : SetLimit(c, l)
  \/ Crash

Spec == Init /\ [][Next]_vars

-----------------------------------------------------------------------------
(* Properties *)

\* A reminder comes at most once until a credit lifts the balance or the
\* limit is set anew (what the column `sent' is for), unless calls for two
\* bookings overlapped, a setting crossed a call, or the mark was lost.
OneReminder ==
  \A r \in Reminders :
    \/ told[r] <= 1
    \/ mishaps \cap {"overlap", "setting", "database", "crash"} # {}

\* When all calls have ended, every reminder a booking made due was sent,
\* unless a credit or a setting crossed a call, or something failed.
Missed == Quiet /\ \E r \in owed : told[r] = 0

ReminderComes ==
  Missed =>
    mishaps \cap {"credit", "setting", "mail", "database", "crash"} # {}

=============================================================================
