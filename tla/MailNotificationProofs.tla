----------------------- MODULE MailNotificationProofs -----------------------
(***************************************************************************)
(* Proofs about MailNotification, for any number of calls, any amounts and *)
(* limits, and any bounds: a reminder comes once, and comes, except for    *)
(* the accidents that mishaps names.                                       *)
(*                                                                         *)
(* That it comes once rests on calls that do not overlap: then whoever     *)
(* reads `sent' meets no mark that is still to be written (Once).  That it *)
(* comes does not: calls for debits may overlap, as long as no credit and  *)
(* no setting is among them, because then `sent' is only set for what was  *)
(* sent and whoever booked below the limit mails it or finds it mailed     *)
(* (Comes).                                                                *)
(***************************************************************************)
EXTENDS MailNotification, TLAPS

USE MailAssumption

\* No accident that OneReminder excepts, and none that ReminderComes excepts.
OneAtATime == mishaps \cap {"overlap", "setting", "database", "crash"} = {}
Uncrossed  == mishaps \cap {"credit", "setting", "mail", "database", "crash"} = {}

\* What a call holds at each place.
FlowInv ==
  \A c \in Calls :
    /\ call[c].clear # {} => \/ call[c].pc = "failed"
                             \/ call[c].pc = "loaded" /\ call[c].credit
    /\ call[c].send # {} \/ call[c].mark # {} => call[c].pc = "sending"

Alone == OneAtATime => \A c, d \in Running : c = d

\* Only calls for debits run beside each other.
Apart ==
  Uncrossed => \A c, d \in Running :
                 c # d => ~call[c].credit /\ call[c].pc # "failed"

\* What a call was told of the user's settings is what they are.
Known ==
  "setting" \notin mishaps =>
    \A c \in Running : call[c].pc # "failed" =>
      call[c].limit = limit /\ (call[c].mail <=> "mail" \in enabled)

\* A reminder that was sent is marked, or will be, and nobody is about to send
\* it again or takes it for lifted.
Once(r) ==
  OneAtATime =>
    /\ told[r] <= 1
    /\ told[r] = 1 => r \in sent \/ \E c \in Calls : r \in call[c].mark
    /\ \A c \in Calls :
         \/ call[c].pc = "booked" /\ r \in ToClear(c)
         \/ call[c].pc = "loaded" /\ r \in call[c].unsent
         \/ r \in call[c].clear \cup call[c].send
         => told[r] = 0

\* The call that will send r.
Will(c, r) ==
  \/ /\ call[c].pc = "booked" /\ call[c].mail /\ r \in enabled
     /\ Due(r, call[c].deposit, call[c].limit)
  \/ /\ call[c].pc = "loaded" /\ call[c].mail /\ r \in call[c].enabled
     /\ Due(r, call[c].deposit, call[c].limit)
     /\ r \in call[c].unsent \cup call[c].clear
  \/ r \in call[c].send

\* What is owed was sent or will be, and what is marked was sent or will be
\* cleared.
Comes(r) ==
  Uncrossed =>
    /\ r \in owed /\ told[r] = 0 => \E c \in Calls : Will(c, r)
    /\ r \in sent /\ told[r] = 0 =>
         \E c \in Calls : \/ r \in call[c].clear
                          \/ call[c].pc = "booked" /\ r \in ToClear(c)
    /\ \A c \in Calls : r \in call[c].mark => told[r] # 0

IInv ==
  /\ TypeOK
  /\ FlowInv
  /\ Alone /\ Apart /\ Known
  /\ \A r \in Reminders : Once(r) /\ Comes(r)

LEMMA CallTyped ==
  ASSUME IInv PROVE \A c \in Calls : call[c] \in Call
BY DEF IInv, TypeOK

-----------------------------------------------------------------------------
\* The step of one call leaves the others alone.
LEMMA CallMoves ==
  ASSUME call \in [Calls -> Call], NEW c \in Calls, NEW v \in Call,
         call' = [call EXCEPT ![c] = v]
  PROVE  /\ call' \in [Calls -> Call] /\ call'[c] = v
         /\ \A d \in Calls : d # c => call'[d] = call[d] /\ ToClear(d)' = ToClear(d)
  BY DEF ToClear

\* A call that is not there does and knows nothing.
LEMMA NoneIsIdle ==
  /\ None \in Call /\ None.pc = "none" /\ None.clear = {} /\ None.send = {}
  /\ None.mark = {}
  BY DEF None, Call

\* At the start nothing is booked.
LEMMA InitKeeps == Init => IInv
  <1> SUFFICES ASSUME Init PROVE IInv
    OBVIOUS
  <1>1. \A c \in Calls : call[c] = None
    BY DEF Init
  <1>2. TypeOK
    BY NoneIsIdle DEF Init, TypeOK
  <1>3. FlowInv /\ Running = {}
    BY <1>1, NoneIsIdle DEF FlowInv, Running
  <1>4. Alone /\ Apart /\ Known
    BY <1>3 DEF Alone, Apart, Known
  <1>5. ASSUME NEW r \in Reminders PROVE Once(r) /\ Comes(r)
    BY <1>1, NoneIsIdle DEF Init, Once, Comes
  <1> QED
    BY <1>2, <1>3, <1>4, <1>5 DEF IInv

-----------------------------------------------------------------------------
\* A booking begins.
LEMMA ReadKeeps ==
  ASSUME IInv, NEW c \in Calls, NEW credit \in BOOLEAN, Read(c, credit)
  PROVE  IInv'
  <1> DEFINE v == [None EXCEPT !.pc = "read", !.credit = credit, !.limit = limit,
                               !.mail = "mail" \in enabled]
  <1>1. /\ call' = [call EXCEPT ![c] = v] /\ mishaps' = mishaps \cup Overlapping(credit)
        /\ call[c].pc = "none" /\ steps' \in 0 .. MaxSteps
        /\ UNCHANGED <<deposit, limit, enabled, sent, told, owed, faults>>
    BY DEF Read, Step, IInv, TypeOK
  <1>2. /\ v \in Call /\ v.pc = "read" /\ v.credit = credit /\ v.limit = limit
        /\ v.mail <=> "mail" \in enabled
        /\ v.clear = {} /\ v.send = {} /\ v.mark = {}
    <2> DEFINE m == "mail" \in enabled
    <2>1. m \in BOOLEAN
      OBVIOUS
    <2>2. v = [None EXCEPT !.pc = "read", !.credit = credit, !.limit = limit, !.mail = m]
      OBVIOUS
    <2> HIDE DEF m, v
    <2>3. /\ v.pc = "read" /\ v.credit = credit /\ v.limit = limit /\ v.mail = m
          /\ v.clear = {} /\ v.send = {} /\ v.mark = {}
      BY <2>2 DEF None
    <2>4. v = [pc |-> "read", credit |-> credit, limit |-> limit, mail |-> m,
               deposit |-> 0, enabled |-> {}, unsent |-> {}, clear |-> {},
               send |-> {}, mark |-> {}]
      BY <2>2 DEF None
    <2>5. limit \in Limits
      BY DEF IInv, TypeOK
    <2>6. v \in Call
      BY <2>1, <2>4, <2>5 DEF Call
    <2> QED BY <2>1, <2>3, <2>6 DEF m
  <1> HIDE DEF v
  <1>3. /\ call' \in [Calls -> Call] /\ call'[c] = v
        /\ \A d \in Calls : d # c => call'[d] = call[d] /\ ToClear(d)' = ToClear(d)
    BY <1>1, <1>2, CallMoves DEF IInv, TypeOK
  <1>4. TypeOK'
    BY <1>1, <1>3 DEF IInv, TypeOK, Overlapping
  <1>5. FlowInv'
    BY <1>2, <1>3 DEF IInv, FlowInv
  <1>6. Running' = Running \cup {c} /\ c \notin Running
    BY <1>1, <1>2, <1>3 DEF Running
  <1>7. \A d \in Running :
          /\ "overlap" \in mishaps'
          /\ credit \/ call[d].credit => "credit" \in mishaps'
          /\ call[d].pc = "failed" => "setting" \in mishaps'
    BY <1>1 DEF Overlapping
  <1>8. Alone'
    BY <1>1, <1>6, <1>7 DEF IInv, Alone, OneAtATime
  <1>9. Apart'
    BY <1>1, <1>2, <1>3, <1>6, <1>7 DEF IInv, Apart, Uncrossed
  <1>10. Known'
    BY <1>1, <1>2, <1>3, <1>6 DEF IInv, Known
  <1>11. ASSUME NEW r \in Reminders PROVE Once(r)' /\ Comes(r)'
    <2>1. OneAtATime' => OneAtATime
      BY <1>1 DEF OneAtATime
    <2>2. Uncrossed' => Uncrossed
      BY <1>1 DEF Uncrossed
    <2>3. /\ call[c].clear = {} /\ call[c].send = {} /\ call[c].mark = {}
      BY <1>1 DEF IInv, FlowInv
    <2>4. Once(r)'
      BY <1>1, <1>2, <1>3, <2>1, <2>3 DEF IInv, Once
    <2>5. \A d \in Calls : Will(d, r) => Will(d, r)'
      BY <1>1, <1>2, <1>3, <2>3 DEF Will, Due
    <2>6. Comes(r)'
      BY <1>1, <1>2, <1>3, <2>2, <2>3, <2>5 DEF IInv, Comes
    <2> QED BY <2>4, <2>6
  <1> QED
    BY <1>4, <1>5, <1>8, <1>9, <1>10, <1>11 DEF IInv

\* A balance is a whole number.
LEMMA AfterIs ==
  ASSUME IInv, NEW c \in Calls, NEW amount \in Amounts
  PROVE  After(c, amount) \in Int
  BY MailAssumption DEF IInv, TypeOK, After

\* The booking: what it lifts is told of again, and what it makes due it will
\* tell itself.
LEMMA BookedKeeps ==
  ASSUME IInv, NEW c \in Calls, NEW amount \in Amounts, Booked(c, amount)
  PROVE  IInv'
  <1> DEFINE d == After(c, amount)
             v == [call[c] EXCEPT !.pc = "booked", !.deposit = d]
             lift == {r \in Reminders : call[c].credit /\ Lifted(r, d, limit)}
             due == {r \in Reminders : Due(r, d, limit) /\ {r, "mail"} \subseteq enabled}
  <1>1. /\ deposit' = d /\ call' = [call EXCEPT ![c] = v]
        /\ told' = [r \in Reminders |-> IF r \in lift THEN 0 ELSE told[r]]
        /\ owed' = (owed \ lift) \cup due /\ call[c].pc = "read"
        /\ UNCHANGED <<limit, enabled, sent, mishaps, steps, faults>>
    BY DEF Booked, DepositBecomes
  <1>2. d \in Int
    BY AfterIs
  <1>3. /\ v \in Call /\ v.pc = "booked" /\ v.deposit = d /\ v.credit = call[c].credit
        /\ v.limit = call[c].limit /\ v.mail = call[c].mail /\ v.clear = call[c].clear
        /\ v.send = call[c].send /\ v.mark = call[c].mark
    BY <1>2, CallTyped DEF Call
  <1>4. \A r \in Reminders :
          /\ r \in lift <=> v.credit /\ Lifted(r, v.deposit, limit)
          /\ r \in due <=> Due(r, v.deposit, limit) /\ {r, "mail"} \subseteq enabled
    BY <1>3
  <1>5. lift \subseteq Reminders /\ due \subseteq Reminders
    OBVIOUS
  <1> HIDE DEF d, v, lift, due
  <1>6. /\ call' \in [Calls -> Call] /\ call'[c] = v
        /\ \A e \in Calls : e # c => call'[e] = call[e] /\ ToClear(e)' = ToClear(e)
    BY <1>1, <1>3, CallMoves DEF IInv, TypeOK
  <1>7. TypeOK'
    <2>1. told' \in [Reminders -> Nat]
      BY <1>1 DEF IInv, TypeOK
    <2> QED BY <1>1, <1>2, <1>5, <1>6, <2>1 DEF IInv, TypeOK
  <1>8. /\ call[c].clear = {} /\ call[c].send = {} /\ call[c].mark = {}
    BY <1>1 DEF IInv, FlowInv
  <1>9. FlowInv'
    BY <1>3, <1>6, <1>8 DEF IInv, FlowInv
  <1>10. Running' = Running /\ c \in Running
    BY <1>1, <1>3, <1>6 DEF Running
  <1>11. Alone' /\ Apart' /\ Known'
    <2>1. \A e \in Calls : call'[e].credit = call[e].credit
                           /\ (call'[e].pc = "failed" <=> call[e].pc = "failed")
      BY <1>1, <1>3, <1>6
    <2>2. Alone' /\ Apart'
      BY <1>1, <1>10, <2>1 DEF IInv, Alone, Apart, OneAtATime, Uncrossed, Running
    <2>3. Known'
      BY <1>1, <1>3, <1>6, <1>10 DEF IInv, Known, Running
    <2> QED BY <2>2, <2>3
  <1>12. /\ OneAtATime' <=> OneAtATime
         /\ Uncrossed' <=> Uncrossed
    BY <1>1 DEF OneAtATime, Uncrossed
  <1>13. OneAtATime \/ Uncrossed =>
           call[c].limit = limit /\ (call[c].mail <=> "mail" \in enabled)
    BY <1>1, <1>10 DEF IInv, Known, OneAtATime, Uncrossed
  <1>14. ASSUME NEW r \in Reminders PROVE Once(r)' /\ Comes(r)'
    <2>1. told'[r] = IF r \in lift THEN 0 ELSE told[r]
      BY <1>1
    <2>2. ASSUME OneAtATime \/ Uncrossed PROVE r \in ToClear(c)' <=> r \in lift
      BY <1>3, <1>4, <1>6, <1>13, <2>2 DEF ToClear
    <2>3. Once(r)'
      BY <1>1, <1>3, <1>6, <1>8, <1>12, <2>1, <2>2 DEF IInv, Once
    <2>4. ASSUME Uncrossed PROVE Comes(r)'
      <3>1. \A e \in Calls : e # c => (Will(e, r)' <=> Will(e, r))
        BY <1>1, <1>6 DEF Will
      <3>2. r \in due => Will(c, r)'
        BY <1>1, <1>3, <1>4, <1>6, <1>13, <2>4 DEF Will
      <3>3. ~Will(c, r)
        BY <1>1, <1>8 DEF Will
      <3>4. r \in owed' /\ told'[r] = 0 => \E e \in Calls : Will(e, r)'
        <4>1. CASE r \in due
          BY <3>2, <4>1
        <4>2. CASE r \notin due
          BY <1>1, <2>1, <2>4, <3>1, <3>3, <4>2 DEF IInv, Comes
        <4> QED BY <4>1, <4>2
      <3>5. r \in sent' /\ told'[r] = 0 =>
              \E e \in Calls : \/ r \in call'[e].clear
                               \/ call'[e].pc = "booked" /\ r \in ToClear(e)'
        <4>1. CASE r \in lift
          BY <1>3, <1>6, <2>2, <2>4, <4>1
        <4>2. CASE r \notin lift
          BY <1>1, <1>6, <1>8, <2>1, <2>4, <4>2 DEF IInv, Comes
        <4> QED BY <4>1, <4>2
      <3>6. ASSUME NEW e \in Calls, r \in call'[e].mark PROVE told'[r] # 0
        <4>1. e # c /\ r \in call[e].mark /\ e \in Running
          BY <1>3, <1>6, <1>8, <3>6 DEF IInv, FlowInv, Running
        <4>2. ~call[c].credit
          BY <1>10, <2>4, <4>1 DEF IInv, Apart
        <4>3. told'[r] = told[r]
          BY <1>3, <1>4, <2>1, <4>2
        <4> QED BY <2>4, <4>1, <4>3 DEF IInv, Comes
      <3> QED BY <3>4, <3>5, <3>6 DEF Comes
    <2>5. Comes(r)'
      BY <1>12, <2>4 DEF Comes
    <2> QED BY <2>3, <2>5
  <1> QED
    BY <1>7, <1>9, <1>11, <1>14 DEF IInv

-----------------------------------------------------------------------------
\* What a call holds at its places, as in FlowInv.
Flows(v) ==
  /\ v.clear # {} => v.pc = "failed" \/ (v.pc = "loaded" /\ v.credit)
  /\ v.send # {} \/ v.mark # {} => v.pc = "sending"

\* v is what the call c has become, or it has ended.
Goes(c, v) ==
  /\ call[c].pc # "none" /\ v \in Call
  /\ v.pc # "none" => /\ v.credit = call[c].credit /\ v.limit = call[c].limit
                      /\ v.mail = call[c].mail
                      /\ call[c].pc = "failed" => v.pc = "failed"

\* A step of one call that knows what it knew keeps what the calls are to each
\* other.
LEMMA CallsKeep ==
  ASSUME IInv, NEW c \in Calls, NEW v, Goes(c, v), call' = [call EXCEPT ![c] = v],
         UNCHANGED <<limit, enabled>>, mishaps \subseteq mishaps', Flows(v),
         v.pc = "failed" => call[c].pc = "failed" \/ "database" \in mishaps'
  PROVE  FlowInv' /\ Alone' /\ Apart' /\ Known'
  <1>1. /\ call' \in [Calls -> Call] /\ call'[c] = v
        /\ \A d \in Calls : d # c => call'[d] = call[d] /\ ToClear(d)' = ToClear(d)
    BY CallMoves DEF Goes, IInv, TypeOK
  <1>2. FlowInv'
    BY <1>1 DEF IInv, FlowInv, Flows
  <1>3. Running' \subseteq Running /\ c \in Running
    BY <1>1 DEF Running, Goes
  <1>4. Alone'
    BY <1>3 DEF IInv, Alone, OneAtATime
  <1>5. Apart'
    <2>1. ASSUME Uncrossed', NEW a \in Running', NEW b \in Running', a # b
          PROVE  ~call'[a].credit /\ call'[a].pc # "failed"
      <3>1. Uncrossed /\ "database" \notin mishaps'
        BY <2>1 DEF Uncrossed
      <3>2. ~call[a].credit /\ call[a].pc # "failed"
        BY <1>3, <2>1, <3>1 DEF IInv, Apart
      <3> QED BY <1>1, <2>1, <3>1, <3>2 DEF Goes, Running
    <2> QED BY <2>1 DEF Apart
  <1>6. Known'
    <2>1. ASSUME "setting" \notin mishaps', NEW a \in Running', call'[a].pc # "failed"
          PROVE  call'[a].limit = limit /\ (call'[a].mail <=> "mail" \in enabled)
      <3>1. CASE a # c
        BY <1>1, <1>3, <2>1, <3>1 DEF IInv, Known
      <3>2. CASE a = c
        <4>1. v.pc # "none" /\ v.pc # "failed"
          BY <1>1, <2>1, <3>2 DEF Running
        <4>2. call[c].limit = limit /\ (call[c].mail <=> "mail" \in enabled)
          BY <1>3, <2>1, <4>1 DEF IInv, Known, Goes
        <4> QED BY <1>1, <3>2, <4>1, <4>2 DEF Goes
      <3> QED BY <3>1, <3>2
    <2> QED BY <2>1 DEF Known
  <1> QED
    BY <1>2, <1>4, <1>5, <1>6

\* A failing statement is an accident that both properties except.
LEMMA FaultKeeps ==
  ASSUME IInv, NEW c \in Calls, NEW v, Goes(c, v), call' = [call EXCEPT ![c] = v],
         Flows(v), Fault, mishaps' = mishaps \cup {"database"},
         UNCHANGED <<deposit, limit, enabled, sent, history>>
  PROVE  IInv'
  <1>1. call' \in [Calls -> Call]
    BY CallMoves DEF Goes, IInv, TypeOK
  <1>2. TypeOK'
    BY <1>1 DEF IInv, TypeOK, Fault, history
  <1>3. FlowInv' /\ Alone' /\ Apart' /\ Known'
    BY CallsKeep
  <1>4. ASSUME NEW r \in Reminders PROVE Once(r)' /\ Comes(r)'
    BY DEF Once, Comes, OneAtATime, Uncrossed
  <1> QED
    BY <1>2, <1>3, <1>4 DEF IInv

\* A call that is over is not there any more, otherwise it is what it was.
LEMMA OverIs ==
  ASSUME NEW v \in Call
  PROVE  /\ Over(v) \in Call
         /\ Over(v) = v \/ (Over(v) = None /\ v.send = {} /\ v.mark = {})
         /\ Ended(v) \in Call
         /\ Ended(v) = v \/ (Ended(v) = None /\ v.pc = "failed" /\ v.clear = {})
  BY NoneIsIdle DEF Over, Ended

LEMMA NotBookedKeeps ==
  ASSUME IInv, NEW c \in Calls, NotBooked(c) PROVE IInv'
  <1>1. /\ call' = [call EXCEPT ![c] = None] /\ call[c].pc = "read"
        /\ UNCHANGED <<deposit, limit, enabled, sent, told, owed, steps, mishaps, faults>>
    BY DEF NotBooked, history
  <1>2. Goes(c, None) /\ Flows(None)
    BY <1>1, NoneIsIdle DEF Goes, Flows
  <1>3. /\ call' \in [Calls -> Call] /\ call'[c] = None
        /\ \A d \in Calls : d # c => call'[d] = call[d] /\ ToClear(d)' = ToClear(d)
    BY <1>1, NoneIsIdle, CallMoves DEF IInv, TypeOK
  <1>4. TypeOK'
    BY <1>1, <1>3 DEF IInv, TypeOK
  <1>5. FlowInv' /\ Alone' /\ Apart' /\ Known'
    BY <1>1, <1>2, NoneIsIdle, CallsKeep
  <1>6. ASSUME NEW r \in Reminders PROVE Once(r)' /\ Comes(r)'
    <2>1. /\ call[c].clear = {} /\ call[c].send = {} /\ call[c].mark = {}
      BY <1>1 DEF IInv, FlowInv
    <2>2. Once(r)'
      BY <1>1, <1>3, <2>1, NoneIsIdle DEF IInv, Once, OneAtATime
    <2>3. \A d \in Calls : Will(d, r) => Will(d, r)'
      BY <1>1, <1>3, <2>1 DEF Will
    <2>4. Comes(r)'
      BY <1>1, <1>3, <2>1, <2>3, NoneIsIdle DEF IInv, Comes, Uncrossed
    <2> QED BY <2>2, <2>4
  <1> QED
    BY <1>4, <1>5, <1>6 DEF IInv

\* A booking nobody learns of is an accident both properties except.
LEMMA BookedUnnoticedKeeps ==
  ASSUME IInv, NEW c \in Calls, NEW amount \in Amounts, BookedUnnoticed(c, amount)
  PROVE  IInv'
  <1>1. /\ call' = [call EXCEPT ![c] = None] /\ call[c].pc = "read"
        /\ mishaps' = mishaps \cup {"database"} /\ faults' \in 0 .. MaxFaults
        /\ deposit' = After(c, amount)
        /\ told' \in [Reminders -> Nat] /\ owed' \in SUBSET Reminders
        /\ UNCHANGED <<limit, enabled, sent, steps>>
    BY DEF BookedUnnoticed, DepositBecomes, Fault, IInv, TypeOK
  <1>2. Goes(c, None) /\ Flows(None)
    BY <1>1, NoneIsIdle DEF Goes, Flows
  <1>3. call' \in [Calls -> Call]
    BY <1>1, NoneIsIdle, CallMoves DEF IInv, TypeOK
  <1>4. TypeOK'
    BY <1>1, <1>3, AfterIs DEF IInv, TypeOK
  <1>5. FlowInv' /\ Alone' /\ Apart' /\ Known'
    BY <1>1, <1>2, NoneIsIdle, CallsKeep
  <1>6. ASSUME NEW r \in Reminders PROVE Once(r)' /\ Comes(r)'
    BY <1>1 DEF Once, Comes, OneAtATime, Uncrossed
  <1> QED
    BY <1>4, <1>5, <1>6 DEF IInv

\* sendMailToUser reads what was sent: a mark that is still to come would be
\* another call's.
LEMMA LoadKeeps ==
  ASSUME IInv, NEW c \in Calls, Load(c) PROVE IInv'
  <1> DEFINE v == [call[c] EXCEPT !.pc = "loaded", !.enabled = enabled \cap Kinds,
                                  !.unsent = Reminders \ sent, !.clear = ToClear(c)]
  <1>1. /\ call' = [call EXCEPT ![c] = v] /\ call[c].pc = "booked"
        /\ UNCHANGED <<deposit, limit, enabled, sent, told, owed, steps, mishaps, faults>>
    BY DEF Load, Cleared, history
  <1>2. /\ v \in Call /\ v.pc = "loaded" /\ v.deposit = call[c].deposit
        /\ v.credit = call[c].credit /\ v.limit = call[c].limit /\ v.mail = call[c].mail
        /\ v.clear = ToClear(c) /\ v.send = call[c].send /\ v.mark = call[c].mark
        /\ v.enabled = enabled \cap Kinds /\ v.unsent = Reminders \ sent
    BY CallTyped DEF Call, ToClear
  <1> HIDE DEF v
  <1>3. /\ call[c].clear = {} /\ call[c].send = {} /\ call[c].mark = {}
    BY <1>1 DEF IInv, FlowInv
  <1>4. Goes(c, v) /\ Flows(v)
    BY <1>1, <1>2, <1>3 DEF Goes, Flows, ToClear
  <1>5. /\ call' \in [Calls -> Call] /\ call'[c] = v
        /\ \A d \in Calls : d # c => call'[d] = call[d] /\ ToClear(d)' = ToClear(d)
    BY <1>1, <1>2, CallMoves DEF IInv, TypeOK
  <1>6. TypeOK'
    BY <1>1, <1>5 DEF IInv, TypeOK
  <1>7. FlowInv' /\ Alone' /\ Apart' /\ Known'
    BY <1>1, <1>2, <1>4, CallsKeep
  <1>8. c \in Running
    BY <1>1 DEF Running
  <1>9. ASSUME NEW r \in Reminders PROVE Once(r)' /\ Comes(r)'
    <2>1. ASSUME OneAtATime, r \notin sent PROVE told[r] = 0
      <3>1. \A d \in Calls : r \notin call[d].mark
        BY <1>3, <1>8, <2>1 DEF IInv, Alone, FlowInv, Running
      <3>2. told[r] \in Nat
        BY DEF IInv, TypeOK
      <3> QED BY <2>1, <3>1, <3>2 DEF IInv, Once
    <2>2. OneAtATime => (r \in ToClear(c) => told[r] = 0)
      BY <1>1 DEF IInv, Once
    <2>3. Once(r)'
      BY <1>1, <1>2, <1>3, <1>5, <2>1, <2>2 DEF IInv, Once, OneAtATime
    <2>4. ASSUME Uncrossed, Will(c, r), told[r] = 0 PROVE Will(c, r)'
      <3>1. /\ call[c].mail /\ r \in enabled /\ Due(r, call[c].deposit, call[c].limit)
        BY <1>1, <1>3, <2>4 DEF Will
      <3>2. r \in v.unsent \cup v.clear
        <4>1. CASE r \notin sent
          BY <1>2, <4>1
        <4>2. CASE r \in sent
          <5>1. PICK d \in Calls : \/ r \in call[d].clear
                                   \/ call[d].pc = "booked" /\ r \in ToClear(d)
            BY <2>4, <4>2 DEF IInv, Comes
          <5>2. d \in Running /\ (call[d].credit \/ call[d].pc = "failed")
            BY <5>1 DEF IInv, FlowInv, Running, ToClear
          <5>3. d = c
            BY <1>8, <2>4, <5>2 DEF IInv, Apart
          <5> QED BY <1>2, <1>3, <5>1, <5>3
        <4> QED BY <4>1, <4>2
      <3>3. r \in v.enabled
        BY <1>2, <3>1 DEF Kinds
      <3> QED BY <1>2, <1>5, <3>1, <3>2, <3>3 DEF Will, Due
    <2>5. \A d \in Calls : d # c => (Will(d, r)' <=> Will(d, r))
      BY <1>1, <1>5 DEF Will
    <2>6. Comes(r)'
      BY <1>1, <1>2, <1>3, <1>5, <2>4, <2>5 DEF IInv, Comes, Uncrossed
    <2> QED BY <2>3, <2>6
  <1> QED
    BY <1>6, <1>7, <1>9 DEF IInv

LEMMA LoadFailsKeeps ==
  ASSUME IInv, NEW c \in Calls, LoadFails(c) PROVE IInv'
  <1>1. Goes(c, None) /\ Flows(None)
    BY NoneIsIdle DEF LoadFails, Goes, Flows
  <1> QED
    BY <1>1, FaultKeeps DEF LoadFails

\* A reminder that may come again is one that counts as not sent.
LEMMA ClearKeeps ==
  ASSUME IInv, NEW c \in Calls, NEW q \in Reminders, Clear(c, q) PROVE IInv'
  <1> DEFINE w == [call[c] EXCEPT !.clear = @ \ {q}, !.unsent = @ \cup {q}]
             v == Ended(w)
  <1>1. /\ call' = [call EXCEPT ![c] = v] /\ q \in call[c].clear /\ sent' = sent \ {q}
        /\ UNCHANGED <<deposit, limit, enabled, told, owed, steps, mishaps, faults>>
    BY DEF Clear, history
  <1>2. /\ w \in Call /\ w.pc = call[c].pc /\ w.deposit = call[c].deposit
        /\ w.credit = call[c].credit /\ w.limit = call[c].limit /\ w.mail = call[c].mail
        /\ w.clear = call[c].clear \ {q} /\ w.unsent = call[c].unsent \cup {q}
        /\ w.send = call[c].send /\ w.mark = call[c].mark /\ w.enabled = call[c].enabled
    BY CallTyped DEF Call
  <1> HIDE DEF w
  <1>3. v \in Call /\ (v = w \/ (v = None /\ w.pc = "failed" /\ w.clear = {}))
    BY <1>2, OverIs
  <1> HIDE DEF v
  <1>4. /\ call[c].pc \in {"loaded", "failed"} /\ call[c].send = {} /\ call[c].mark = {}
        /\ call[c].pc # "failed" => call[c].credit
    BY <1>1 DEF IInv, FlowInv
  <1>5. Goes(c, v) /\ Flows(v)
    BY <1>2, <1>3, <1>4, NoneIsIdle DEF Goes, Flows
  <1>6. /\ call' \in [Calls -> Call] /\ call'[c] = v
        /\ \A d \in Calls : d # c => call'[d] = call[d] /\ ToClear(d)' = ToClear(d)
    BY <1>1, <1>3, CallMoves DEF IInv, TypeOK
  <1>7. TypeOK'
    BY <1>1, <1>6 DEF IInv, TypeOK
  <1>8. FlowInv' /\ Alone' /\ Apart' /\ Known'
    BY <1>1, <1>2, <1>3, <1>5, NoneIsIdle, CallsKeep
  <1>9. ASSUME NEW r \in Reminders PROVE Once(r)' /\ Comes(r)'
    <2>1. OneAtATime => told[q] = 0
      BY <1>1 DEF IInv, Once
    <2>2. Once(r)'
      BY <1>1, <1>2, <1>3, <1>4, <1>6, <2>1, NoneIsIdle DEF IInv, Once, OneAtATime
    <2>3. Will(c, r) => Will(c, r)'
      BY <1>1, <1>2, <1>3, <1>4, <1>6 DEF Will, Due
    <2>4. \A d \in Calls : d # c => (Will(d, r)' <=> Will(d, r))
      BY <1>1, <1>6 DEF Will
    <2>5. Comes(r)'
      BY <1>1, <1>2, <1>3, <1>4, <1>6, <2>3, <2>4, NoneIsIdle DEF IInv, Comes, Uncrossed
    <2> QED BY <2>2, <2>5
  <1> QED
    BY <1>7, <1>8, <1>9 DEF IInv

LEMMA ClearFailsKeeps ==
  ASSUME IInv, NEW c \in Calls, NEW q \in Reminders, ClearFails(c, q) PROVE IInv'
  <1> DEFINE w == [call[c] EXCEPT !.clear = @ \ {q}, !.pc = "failed"]
  <1>1. /\ w \in Call /\ w.pc = "failed" /\ w.credit = call[c].credit
        /\ w.limit = call[c].limit /\ w.mail = call[c].mail
        /\ w.send = call[c].send /\ w.mark = call[c].mark
    BY CallTyped DEF Call
  <1>2. call' = [call EXCEPT ![c] = Ended(w)]
    BY DEF ClearFails
  <1> HIDE DEF w
  <1>3. call[c].pc \in {"loaded", "failed"} /\ call[c].send = {} /\ call[c].mark = {}
    BY DEF ClearFails, IInv, FlowInv
  <1>4. Goes(c, Ended(w)) /\ Flows(Ended(w))
    BY <1>1, <1>3, OverIs, NoneIsIdle DEF Goes, Flows
  <1> QED
    BY <1>2, <1>4, FaultKeeps DEF ClearFails

-----------------------------------------------------------------------------
\* What is due and was not sent when it was read will be sent.
LEMMA DecideKeeps ==
  ASSUME IInv, NEW c \in Calls, Decide(c) PROVE IInv'
  <1> DEFINE w == [call[c] EXCEPT !.pc = "sending", !.send = ToSend(call[c])]
             v == Over(w)
  <1>1. /\ call' = [call EXCEPT ![c] = v] /\ call[c].pc = "loaded" /\ call[c].clear = {}
        /\ UNCHANGED <<deposit, limit, enabled, sent, told, owed, steps, mishaps, faults>>
    BY DEF Decide, history
  <1>2. ToSend(call[c]) \in SUBSET Kinds
    BY DEF ToSend, IInv, TypeOK, Call
  <1>3. /\ w \in Call /\ w.pc = "sending" /\ w.credit = call[c].credit
        /\ w.limit = call[c].limit /\ w.mail = call[c].mail
        /\ w.clear = {} /\ w.send = ToSend(call[c]) /\ w.mark = call[c].mark
    BY <1>1, <1>2, CallTyped DEF Call
  <1> HIDE DEF w
  <1>4. v \in Call /\ (v = w \/ (v = None /\ w.send = {} /\ w.mark = {}))
    BY <1>3, OverIs
  <1> HIDE DEF v
  <1>5. call[c].send = {} /\ call[c].mark = {}
    BY <1>1 DEF IInv, FlowInv
  <1>6. Goes(c, v) /\ Flows(v)
    BY <1>1, <1>3, <1>4, NoneIsIdle DEF Goes, Flows
  <1>7. /\ call' \in [Calls -> Call] /\ call'[c] = v
        /\ \A d \in Calls : d # c => call'[d] = call[d] /\ ToClear(d)' = ToClear(d)
    BY <1>1, <1>4, CallMoves DEF IInv, TypeOK
  <1>8. TypeOK'
    BY <1>1, <1>7 DEF IInv, TypeOK
  <1>9. FlowInv' /\ Alone' /\ Apart' /\ Known'
    BY <1>1, <1>3, <1>4, <1>6, NoneIsIdle, CallsKeep
  <1>10. /\ v.pc \notin {"booked", "loaded"} /\ v.clear = {} /\ v.mark = {}
         /\ v.send = ToSend(call[c])
    BY <1>3, <1>4, <1>5, NoneIsIdle
  <1>11. ASSUME NEW r \in Reminders PROVE Once(r)' /\ Comes(r)'
    <2>1. r # "receipt"
      BY DEF Reminders
    <2>2. r \in ToSend(call[c]) => r \in call[c].unsent
      BY <2>1 DEF ToSend
    <2>3. Once(r)'
      BY <1>1, <1>5, <1>7, <1>10, <2>2 DEF IInv, Once, OneAtATime
    <2>4. Will(c, r) => Will(c, r)'
      BY <1>1, <1>5, <1>7, <1>10 DEF Will, ToSend
    <2>5. \A d \in Calls : d # c => (Will(d, r)' <=> Will(d, r))
      BY <1>1, <1>7 DEF Will
    <2>6. Comes(r)'
      BY <1>1, <1>5, <1>7, <1>10, <2>4, <2>5 DEF IInv, Comes, Uncrossed
    <2> QED BY <2>3, <2>6
  <1> QED
    BY <1>8, <1>9, <1>11 DEF IInv

\* A mail that went out is counted, and its mark is to come.
LEMMA SendKeeps ==
  ASSUME IInv, NEW c \in Calls, NEW k \in Kinds, Send(c, k) PROVE IInv'
  <1> DEFINE w == [call[c] EXCEPT !.send = @ \ {k}, !.mark = @ \cup ToMark(k)]
             v == Over(w)
  <1>1. /\ call' = [call EXCEPT ![c] = v] /\ k \in call[c].send
        /\ told' = [r \in Reminders |-> told[r] + IF r = k THEN 1 ELSE 0]
        /\ UNCHANGED <<deposit, limit, enabled, sent, owed, steps, mishaps, faults>>
    BY DEF Send
  <1>2. call[c].pc = "sending" /\ call[c].clear = {}
    BY <1>1 DEF IInv, FlowInv
  <1>3. /\ w \in Call /\ w.pc = "sending" /\ w.credit = call[c].credit
        /\ w.limit = call[c].limit /\ w.mail = call[c].mail /\ w.clear = {}
        /\ w.send = call[c].send \ {k} /\ w.mark = call[c].mark \cup ({k} \cap Reminders)
    BY <1>2, CallTyped DEF Call, ToMark
  <1> HIDE DEF w
  <1>4. v \in Call /\ (v = w \/ (v = None /\ w.send = {} /\ w.mark = {}))
    BY <1>3, OverIs
  <1> HIDE DEF v
  <1>5. Goes(c, v) /\ Flows(v)
    BY <1>2, <1>3, <1>4, NoneIsIdle DEF Goes, Flows
  <1>6. /\ call' \in [Calls -> Call] /\ call'[c] = v
        /\ \A d \in Calls : d # c => call'[d] = call[d] /\ ToClear(d)' = ToClear(d)
    BY <1>1, <1>4, CallMoves DEF IInv, TypeOK
  <1>7. TypeOK'
    <2>1. told' \in [Reminders -> Nat]
      BY <1>1 DEF IInv, TypeOK
    <2> QED BY <1>1, <1>6, <2>1 DEF IInv, TypeOK
  <1>8. FlowInv' /\ Alone' /\ Apart' /\ Known'
    BY <1>1, <1>2, <1>3, <1>4, <1>5, NoneIsIdle, CallsKeep
  <1>9. /\ v.pc \notin {"booked", "loaded"} /\ v.clear = {} /\ v.send = call[c].send \ {k}
        /\ v.mark = call[c].mark \cup ({k} \cap Reminders)
    BY <1>3, <1>4, NoneIsIdle
  <1>10. c \in Running
    BY <1>2 DEF Running
  <1>11. ASSUME NEW r \in Reminders PROVE Once(r)' /\ Comes(r)'
    <2>1. told'[r] = IF r = k THEN told[r] + 1 ELSE told[r]
      BY <1>1 DEF IInv, TypeOK
    <2>2. told[r] \in Nat
      BY DEF IInv, TypeOK
    <2>3. ASSUME OneAtATime PROVE Once(r)'
      <3>1. CASE r # k
        BY <1>1, <1>6, <1>9, <2>1, <3>1 DEF IInv, Once, OneAtATime
      <3>2. CASE r = k
        <4>1. told'[r] = 1 /\ r \in call'[c].mark
          BY <1>1, <1>6, <1>9, <2>1, <2>3, <3>2 DEF IInv, Once
        <4>2. ASSUME NEW d \in Calls
              PROVE  ~ \/ call'[d].pc = "booked" /\ r \in ToClear(d)'
                       \/ call'[d].pc = "loaded" /\ r \in call'[d].unsent
                       \/ r \in call'[d].clear \cup call'[d].send
          <5>1. CASE d = c
            BY <1>6, <1>9, <3>2, <5>1
          <5>2. CASE d # c
            <6>1. d \notin Running
              BY <1>10, <2>3, <5>2 DEF IInv, Alone
            <6>2. call[d].pc = "none" /\ call[d].clear = {} /\ call[d].send = {}
              BY <6>1 DEF Running, IInv, FlowInv
            <6> QED BY <1>6, <5>2, <6>2
          <5> QED BY <5>1, <5>2
        <4> QED BY <4>1, <4>2 DEF Once
      <3> QED BY <3>1, <3>2
    <2>4. OneAtATime' <=> OneAtATime
      BY <1>1 DEF OneAtATime
    <2>5. Once(r)'
      BY <2>3, <2>4 DEF Once
    <2>6. r # k => (Will(c, r) => Will(c, r)')
      BY <1>2, <1>6, <1>9 DEF Will
    <2>7. \A d \in Calls : d # c => (Will(d, r)' <=> Will(d, r))
      BY <1>1, <1>6 DEF Will
    <2>8. Comes(r)'
      BY <1>1, <1>2, <1>6, <1>9, <2>1, <2>2, <2>6, <2>7 DEF IInv, Comes, Uncrossed
    <2> QED BY <2>5, <2>8
  <1> QED
    BY <1>7, <1>8, <1>11 DEF IInv

LEMMA SendFailsKeeps ==
  ASSUME IInv, NEW c \in Calls, NEW k \in Kinds, SendFails(c, k) PROVE IInv'
  <1> DEFINE w == [call[c] EXCEPT !.send = @ \ {k}]
             v == Over(w)
  <1>1. /\ call' = [call EXCEPT ![c] = v] /\ k \in call[c].send
        /\ mishaps' = mishaps \cup {"mail"} /\ faults' \in 0 .. MaxFaults
        /\ UNCHANGED <<deposit, limit, enabled, sent, told, owed, steps>>
    BY DEF SendFails, Fault, history, IInv, TypeOK
  <1>2. call[c].pc = "sending" /\ call[c].clear = {}
    BY <1>1 DEF IInv, FlowInv
  <1>3. /\ w \in Call /\ w.pc = "sending" /\ w.credit = call[c].credit
        /\ w.limit = call[c].limit /\ w.mail = call[c].mail /\ w.clear = {}
        /\ w.send = call[c].send \ {k} /\ w.mark = call[c].mark
    BY <1>2, CallTyped DEF Call
  <1> HIDE DEF w
  <1>4. v \in Call /\ (v = w \/ (v = None /\ w.send = {} /\ w.mark = {}))
    BY <1>3, OverIs
  <1> HIDE DEF v
  <1>5. Goes(c, v) /\ Flows(v)
    BY <1>2, <1>3, <1>4, NoneIsIdle DEF Goes, Flows
  <1>6. /\ call' \in [Calls -> Call] /\ call'[c] = v
        /\ \A d \in Calls : d # c => call'[d] = call[d] /\ ToClear(d)' = ToClear(d)
    BY <1>1, <1>4, CallMoves DEF IInv, TypeOK
  <1>7. TypeOK'
    BY <1>1, <1>6 DEF IInv, TypeOK
  <1>8. FlowInv' /\ Alone' /\ Apart' /\ Known'
    BY <1>1, <1>2, <1>3, <1>4, <1>5, NoneIsIdle, CallsKeep
  <1>9. /\ v.pc \notin {"booked", "loaded"} /\ v.clear = {} /\ v.send \subseteq call[c].send
        /\ v.mark = call[c].mark
    BY <1>3, <1>4, NoneIsIdle
  <1>10. ASSUME NEW r \in Reminders PROVE Once(r)' /\ Comes(r)'
    <2>1. Once(r)'
      BY <1>1, <1>6, <1>9 DEF IInv, Once, OneAtATime
    <2>2. Comes(r)'
      BY <1>1 DEF Comes, Uncrossed
    <2> QED BY <2>1, <2>2
  <1> QED
    BY <1>7, <1>8, <1>10 DEF IInv

\* The mark itself.
LEMMA MarkKeeps ==
  ASSUME IInv, NEW c \in Calls, NEW q \in Reminders, Mark(c, q) PROVE IInv'
  <1> DEFINE w == [call[c] EXCEPT !.mark = @ \ {q}]
             v == Over(w)
  <1>1. /\ call' = [call EXCEPT ![c] = v] /\ q \in call[c].mark /\ sent' = sent \cup {q}
        /\ UNCHANGED <<deposit, limit, enabled, told, owed, steps, mishaps, faults>>
    BY DEF Mark, Marked, history
  <1>2. call[c].pc = "sending" /\ call[c].clear = {}
    BY <1>1 DEF IInv, FlowInv
  <1>3. /\ w \in Call /\ w.pc = "sending" /\ w.credit = call[c].credit
        /\ w.limit = call[c].limit /\ w.mail = call[c].mail /\ w.clear = {}
        /\ w.send = call[c].send /\ w.mark = call[c].mark \ {q}
    BY <1>2, CallTyped DEF Call
  <1> HIDE DEF w
  <1>4. v \in Call /\ (v = w \/ (v = None /\ w.send = {} /\ w.mark = {}))
    BY <1>3, OverIs
  <1> HIDE DEF v
  <1>5. Goes(c, v) /\ Flows(v)
    BY <1>2, <1>3, <1>4, NoneIsIdle DEF Goes, Flows
  <1>6. /\ call' \in [Calls -> Call] /\ call'[c] = v
        /\ \A d \in Calls : d # c => call'[d] = call[d] /\ ToClear(d)' = ToClear(d)
    BY <1>1, <1>4, CallMoves DEF IInv, TypeOK
  <1>7. TypeOK'
    BY <1>1, <1>6 DEF IInv, TypeOK
  <1>8. FlowInv' /\ Alone' /\ Apart' /\ Known'
    BY <1>1, <1>2, <1>3, <1>4, <1>5, NoneIsIdle, CallsKeep
  <1>9. /\ v.pc \notin {"booked", "loaded"} /\ v.clear = {} /\ v.send = call[c].send
        /\ v.mark = call[c].mark \ {q}
    BY <1>3, <1>4, NoneIsIdle
  <1>10. ASSUME NEW r \in Reminders PROVE Once(r)' /\ Comes(r)'
    <2>1. Once(r)'
      BY <1>1, <1>6, <1>9 DEF IInv, Once, OneAtATime
    <2>2. Will(c, r) => Will(c, r)'
      BY <1>2, <1>6, <1>9 DEF Will
    <2>3. \A d \in Calls : d # c => (Will(d, r)' <=> Will(d, r))
      BY <1>1, <1>6 DEF Will
    <2>4. Comes(r)'
      BY <1>1, <1>2, <1>6, <1>9, <2>2, <2>3 DEF IInv, Comes, Uncrossed
    <2> QED BY <2>1, <2>4
  <1> QED
    BY <1>7, <1>8, <1>10 DEF IInv

LEMMA MarkFailsKeeps ==
  ASSUME IInv, NEW c \in Calls, NEW q \in Reminders, MarkFails(c, q) PROVE IInv'
  <1> DEFINE w == [call[c] EXCEPT !.mark = @ \ {q}]
  <1>1. call[c].pc = "sending" /\ call[c].clear = {}
    BY DEF MarkFails, IInv, FlowInv
  <1>2. /\ w \in Call /\ w.pc = "sending" /\ w.credit = call[c].credit
        /\ w.limit = call[c].limit /\ w.mail = call[c].mail /\ w.clear = {}
    BY <1>1, CallTyped DEF Call
  <1>3. call' = [call EXCEPT ![c] = Over(w)]
    BY DEF MarkFails
  <1> HIDE DEF w
  <1>4. Goes(c, Over(w)) /\ Flows(Over(w))
    BY <1>1, <1>2, OverIs, NoneIsIdle DEF Goes, Flows
  <1> QED
    BY <1>3, <1>4, FaultKeeps DEF MarkFails

-----------------------------------------------------------------------------
\* A setting that meets no call meets nothing that refers to it.
LEMMA SetEnabledKeeps ==
  ASSUME IInv, NEW kind \in Kinds \cup {"mail"}, SetEnabled(kind) PROVE IInv'
  <1>1. /\ enabled' \in SUBSET (Kinds \cup {"mail"}) /\ steps' \in 0 .. MaxSteps
        /\ mishaps' = mishaps \cup (IF Quiet THEN {} ELSE {"setting"})
        /\ UNCHANGED <<deposit, limit, sent, call, told, owed, faults>>
    BY DEF SetEnabled, Step, IInv, TypeOK
  <1>2. TypeOK'
    BY <1>1 DEF IInv, TypeOK
  <1>3. FlowInv' /\ UNCHANGED Running
    BY <1>1 DEF IInv, FlowInv, Running
  <1>4. Running = {} \/ "setting" \in mishaps'
    BY <1>1 DEF Quiet
  <1>5. Alone' /\ Apart' /\ Known'
    BY <1>3, <1>4 DEF Alone, Apart, Known, OneAtATime, Uncrossed
  <1>6. ASSUME NEW r \in Reminders PROVE Once(r)' /\ Comes(r)'
    <2>1. Once(r)'
      BY <1>1 DEF IInv, Once, OneAtATime, ToClear
    <2>2. CASE Running = {}
      <3>1. \A c \in Calls : ~Will(c, r)
        BY <2>2 DEF Will, Running, IInv, FlowInv
      <3>2. \A c \in Calls : ToClear(c)' = ToClear(c)
        BY <1>1 DEF ToClear
      <3>3. Comes(r)'
        BY <1>1, <3>1, <3>2 DEF IInv, Comes, Uncrossed
      <3> QED BY <2>1, <3>3
    <2>3. CASE "setting" \in mishaps'
      BY <2>1, <2>3 DEF Comes, Uncrossed
    <2> QED BY <1>4, <2>1, <2>2, <2>3
  <1> QED
    BY <1>2, <1>3, <1>5, <1>6 DEF IInv

\* Another limit takes the old reminder back, in two statements.
LEMMA SetLimitKeeps ==
  ASSUME IInv, NEW c \in Calls, NEW l \in Limits, SetLimit(c, l) PROVE IInv'
  <1> DEFINE v == [None EXCEPT !.pc = "failed", !.clear = {"low"}]
  <1>1. /\ call' = [call EXCEPT ![c] = v] /\ call[c].pc = "none" /\ limit' = l
        /\ told' = [told EXCEPT !["low"] = 0] /\ owed' = owed \ {"low"}
        /\ mishaps' = mishaps \cup (IF Quiet THEN {} ELSE {"setting"})
        /\ steps' \in 0 .. MaxSteps /\ UNCHANGED <<deposit, enabled, sent, faults>>
    BY DEF SetLimit, Step, IInv, TypeOK
  <1>2. /\ v \in Call /\ v.pc = "failed" /\ v.clear = {"low"} /\ v.send = {}
        /\ v.mark = {}
    BY NoneIsIdle DEF Call, Reminders
  <1> HIDE DEF v
  <1>3. /\ call' \in [Calls -> Call] /\ call'[c] = v
        /\ \A d \in Calls : d # c => call'[d] = call[d] /\ ToClear(d)' = ToClear(d)
    BY <1>1, <1>2, CallMoves DEF IInv, TypeOK
  <1>4. TypeOK'
    BY <1>1, <1>3 DEF IInv, TypeOK
  <1>5. FlowInv'
    BY <1>2, <1>3 DEF IInv, FlowInv
  <1>6. Running = {} \/ "setting" \in mishaps'
    BY <1>1 DEF Quiet
  <1>7. CASE "setting" \in mishaps'
    <2>1. Alone' /\ Apart' /\ Known' /\ \A r \in Reminders : Once(r)' /\ Comes(r)'
      BY <1>7 DEF Alone, Apart, Known, Once, Comes, OneAtATime, Uncrossed
    <2> QED BY <1>4, <1>5, <2>1 DEF IInv
  <1>8. CASE Running = {}
    <2>1. \A d \in Calls : /\ call[d].pc = "none" /\ call[d].clear = {}
                           /\ call[d].send = {} /\ call[d].mark = {}
      BY <1>8 DEF Running, IInv, FlowInv
    <2>2. Running' = {c}
      BY <1>2, <1>3, <2>1 DEF Running
    <2>3. Alone' /\ Apart' /\ Known'
      BY <1>2, <1>3, <2>2 DEF Alone, Apart, Known
    <2>4. ASSUME NEW r \in Reminders PROVE Once(r)' /\ Comes(r)'
      <3>1. told'[r] = IF r = "low" THEN 0 ELSE told[r]
        BY <1>1 DEF IInv, TypeOK
      <3>2. Once(r)'
        BY <1>1, <1>2, <1>3, <2>1, <3>1 DEF IInv, Once, OneAtATime
      <3>3. \A d \in Calls : ~Will(d, r)
        BY <2>1 DEF Will
      <3>4. Comes(r)'
        BY <1>1, <1>2, <1>3, <2>1, <3>1, <3>3 DEF IInv, Comes, Uncrossed
      <3> QED BY <3>2, <3>4
    <2> QED BY <1>4, <1>5, <2>3, <2>4 DEF IInv
  <1> QED
    BY <1>6, <1>7, <1>8

LEMMA CrashKeeps ==
  ASSUME IInv, Crash PROVE IInv'
  <1>1. /\ call' = [c \in Calls |-> None] /\ mishaps' = mishaps \cup {"crash"}
        /\ faults' \in 0 .. MaxFaults
        /\ UNCHANGED <<deposit, limit, enabled, sent, told, owed, steps>>
    BY DEF Crash, Fault, history, IInv, TypeOK
  <1>2. TypeOK'
    BY <1>1, NoneIsIdle DEF IInv, TypeOK
  <1>3. FlowInv' /\ Running' = {}
    BY <1>1, NoneIsIdle DEF FlowInv, Running
  <1>4. Alone' /\ Apart' /\ Known'
    BY <1>3 DEF Alone, Apart, Known
  <1>5. ASSUME NEW r \in Reminders PROVE Once(r)' /\ Comes(r)'
    BY <1>1 DEF Once, Comes, OneAtATime, Uncrossed
  <1> QED
    BY <1>2, <1>3, <1>4, <1>5 DEF IInv

LEMMA StutterKeeps ==
  ASSUME IInv, UNCHANGED vars PROVE IInv'
  <1>1. TypeOK' /\ FlowInv' /\ UNCHANGED Running
    BY DEF vars, IInv, TypeOK, FlowInv, Running
  <1>2. Alone' /\ Apart' /\ Known'
    BY <1>1 DEF vars, IInv, Alone, Apart, Known, OneAtATime, Uncrossed
  <1>3. ASSUME NEW r \in Reminders PROVE Once(r)' /\ Comes(r)'
    BY DEF vars, IInv, Once, Comes, Will, ToClear, OneAtATime, Uncrossed
  <1> QED
    BY <1>1, <1>2, <1>3 DEF IInv

LEMMA NextKeeps == IInv /\ [Next]_vars => IInv'
  <1> SUFFICES ASSUME IInv, [Next]_vars PROVE IInv'
    OBVIOUS
  <1>1. ASSUME NEW c \in Calls, SendMailToUser(c) PROVE IInv'
    BY <1>1, LoadKeeps, LoadFailsKeeps, ClearKeeps, ClearFailsKeeps, DecideKeeps,
       SendKeeps, SendFailsKeeps, MarkKeeps, MarkFailsKeeps DEF SendMailToUser
  <1> QED
    BY <1>1, ReadKeeps, BookedKeeps, NotBookedKeeps, BookedUnnoticedKeeps,
       SetEnabledKeeps, SetLimitKeeps, CrashKeeps, StutterKeeps DEF Next

-----------------------------------------------------------------------------
\* The inductive invariant of the calls, the column `sent' and the settings.
THEOREM Invariance == Spec => []IInv
  BY InitKeeps, NextKeeps, PTL DEF Spec

\* Every variable keeps its type.
THEOREM TypeCorrect == Spec => []TypeOK
  <1>1. IInv => TypeOK
    BY DEF IInv
  <1> QED
    BY Invariance, <1>1, PTL

\* A reminder comes at most once until a credit lifts the balance or the limit is
\* set anew, for any number of bookings one after the other (lib/mail.js, `sent').
THEOREM RemindersAreSingle == Spec => []OneReminder
  <1>1. IInv => OneReminder
    BY DEF IInv, OneReminder, Once, OneAtATime
  <1> QED
    BY Invariance, <1>1, PTL

\* When all calls have ended, every reminder that a debit made due was sent,
\* even if calls for several debits overlapped in any way (lib/mail.js,
\* sendMailToUser).
THEOREM RemindersCome == Spec => []ReminderComes
  <1>1. ASSUME IInv, Missed PROVE ~Uncrossed
    <2>1. PICK r \in owed : told[r] = 0 /\ Running = {}
      BY <1>1 DEF Missed, Quiet
    <2>2. r \in Reminders
      BY <1>1, <2>1 DEF IInv, TypeOK
    <2>3. \A c \in Calls : ~Will(c, r)
      BY <1>1, <2>1 DEF Will, Running, IInv, FlowInv
    <2> QED BY <1>1, <2>1, <2>2, <2>3 DEF IInv, Comes
  <1>2. IInv => ReminderComes
    BY <1>1 DEF ReminderComes, Uncrossed
  <1> QED
    BY Invariance, <1>2, PTL
=============================================================================
