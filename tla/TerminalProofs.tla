---------------------------- MODULE TerminalProofs ----------------------------
(***************************************************************************)
(* Proofs about the terminal: its sessions (VendSession), the handover of  *)
(* a key that starts one (KeyHandover), and the thread that serves the     *)
(* machine and has keys rejected while it cannot (MciLink).                *)
(*                                                                         *)
(* VendSession, for every set of products and any number of sessions.      *)
(* The argument follows the credit of the running session.  As long as     *)
(* sdata.credits is set nothing was granted; taking the credit and writing *)
(* selected_product is one critical section, so from then on the           *)
(* selection, or the pressed_key the controller copied it to, says what    *)
(* was granted (SessionInv).  A cached answer is repeated only while the   *)
(* machine still asks for the item it was given for (CupInv).              *)
(*                                                                         *)
(* KeyHandover, for any cards, faults and shutdowns, with or without       *)
(* spurious wakeups: no card opens two sessions, and the buffer stands     *)
(* still while a session uses it.                                          *)
(* Until a shutdown whoever works on the buffer holds the mutex (MutexInv; *)
(* HandlerInv says that only a shutdown frees it for others).  A reading   *)
(* goes from the reader through key_buf to the buffer, and is in the       *)
(* places behind it only (FreshInv).  Once it was served, it is the whole  *)
(* buffer no more when the controller looks next (SpentInv): this holds    *)
(* even after the handler has freed a mutex it did not own.                *)
(*                                                                         *)
(* MciLink, for any number of descriptors and of descriptors held by other *)
(* threads: ErrorFlagAgrees is inductive next to LinkTypeOK.  The case for *)
(* `retry', which no key ever meets, is what carries the agreement of flag *)
(* and fault over a failing select, and the cases for `read' and `reopen'  *)
(* are what a raise in the middle of a turn needs.                         *)
(***************************************************************************)
EXTENDS VendSession, KeyHandover, MciLink, TLAPS

-----------------------------------------------------------------------------
(* The sessions, VendSession. *)

\* The selection k tells what the running session was granted.
Tells(k) == granted[session] = IF k \in Items THEN k ELSE NoItem

\* sdata against the controller's place in the session.
SharedInv ==
  /\ ctl # "idle" => session > 0 /\ resp.live
  /\ ctl \notin {"poll", "recheck"} =>
       ~sdata.credits /\ ~sdata.enabled /\ sdata.selected = NoItem
  /\ sdata.credits => /\ sdata.selected = NoItem
                      /\ sdata.offline = resp.offline
                      /\ sdata.offline \/ sdata.enabled

\* What the controller knows of the grant, and what it has billed.
SessionInv ==
  /\ ctl \in {"wait", "publish"} => granted[session] = NoItem
  /\ ctl = "publish" => picked = NoSelection
  /\ ctl \in {"poll", "recheck"} =>
       IF picked.pressed
         THEN /\ ~sdata.credits
              /\ sdata.selected = NoItem
              /\ ~loopWait
              /\ Tells(picked.key)
         ELSE picked.key = NoItem /\ Tells(sdata.selected)
  /\ ctl = "decide" => Tells(picked.key)
  /\ ctl \notin {"idle", "free"} => booked[session] = Never
  /\ \A s \in Sessions : Over(s) => booked[s] = Once(granted[s])
  /\ \A s \in Sessions :
       s > session => granted[s] = NoItem /\ booked[s] = Never

\* The cached answer and the cups poured.
CupInv ==
  /\ machine.next = "ready" => lastInq = 0
  /\ machine.next = "inquiry" => machine.item \in Items
  /\ machine.next = "inquiry" /\ charges > 0 => lastInq # 0
  /\ machine.next = "inquiry" /\ lastInq = Granted /\ answerFor # 0 =>
       /\ granted[answerFor] = machine.item
       /\ cups[answerFor][machine.item] = 0

IInv ==
  /\ TypeOK
  /\ SharedInv
  /\ SessionInv
  /\ CupInv
  /\ CupsWithinGrant
  /\ ChargedOnce
  /\ GrantIsAllowed

USE ItemsAssumption DEF Sessions

LEMMA NoSession == MaxSessions \in Nat /\ 0 \in 0..MaxSessions
  BY SessionsAssumption

\* Counting one more cup or booking changes that count and no other.
LEMMA AddOneIs ==
  ASSUME NEW f \in [Sessions -> [Items -> Nat]],
         NEW s \in Sessions, NEW i \in Items
  PROVE  /\ AddOne(f, s, i) \in [Sessions -> [Items -> Nat]]
         /\ \A t \in Sessions, j \in Items :
              AddOne(f, s, i)[t][j] =
                IF t = s /\ j = i THEN f[t][j] + 1 ELSE f[t][j]
         /\ \A t \in Sessions : t # s => AddOne(f, s, i)[t] = f[t]
  <1> DEFINE g == [f[s] EXCEPT ![i] = @ + 1]
  <1>1. AddOne(f, s, i) = [f EXCEPT ![s] = g]
    BY DEF AddOne
  <1>2. f[s] \in [Items -> Nat]
    OBVIOUS
  <1>3. g \in [Items -> Nat]
    BY <1>2
  <1>4. \A j \in Items : g[j] = IF j = i THEN f[s][j] + 1 ELSE f[s][j]
    BY <1>2
  <1> HIDE DEF g
  <1> QED
    BY <1>1, <1>3, <1>4

LEMMA InitInv == Init => IInv
  <1> SUFFICES ASSUME Init PROVE IInv
    OBVIOUS
  <1>1. TypeOK
    <2>1. NoOffer \in Offer /\ Never \in [Items -> Nat]
      BY DEF Offer, NoOffer, Never
    <2>2. /\ resp \in [live: BOOLEAN, offline: BOOLEAN, offer: Offer]
          /\ picked \in [pressed: BOOLEAN, key: Selection]
          /\ sdata \in [offline: BOOLEAN, enabled: BOOLEAN,
                        credits: BOOLEAN, selected: Selection]
          /\ machine \in [next: {"status", "ready", "inquiry"},
                          item: Items \cup {NoItem}]
      BY <2>1 DEF Init, NoSelection, Selection
    <2>3. /\ granted \in [Sessions -> Items \cup {NoItem}]
          /\ cups \in [Sessions -> [Items -> Nat]]
          /\ booked \in [Sessions -> [Items -> Nat]]
      BY <2>1 DEF Init
    <2>4. /\ ctl = "idle"
          /\ session \in 0..MaxSessions
          /\ lastInq \in 0..2
          /\ answerFor \in 0..MaxSessions
          /\ charges \in Nat
      BY NoSession DEF Init
    <2>5. loopWait \in BOOLEAN /\ alarm \in BOOLEAN
      BY DEF Init
    <2> QED
      BY <2>2, <2>3, <2>4, <2>5 DEF TypeOK
  <1>2. SharedInv /\ CupInv /\ ChargedOnce /\ GrantIsAllowed
    BY DEF Init, SharedInv, CupInv, ChargedOnce, GrantIsAllowed
  <1>3. SessionInv
    BY DEF Init, SessionInv, Over
  <1>4. CupsWithinGrant
    BY DEF Init, CupsWithinGrant, Once, Never
  <1> QED
    BY <1>1, <1>2, <1>3, <1>4 DEF IInv

\* Types, one step at a time.
LEMMA TypeStep == IInv /\ [Next]_vars => TypeOK'
  <1> SUFFICES ASSUME IInv, [Next]_vars PROVE TypeOK'
    OBVIOUS
  <1>a. /\ TypeOK /\ SharedInv /\ CupInv
        /\ MaxSessions \in Nat /\ 0 \in 0..MaxSessions
    BY NoSession DEF IInv
  <1> USE <1>a DEF TypeOK, ctlVars, mciVars
  <1>1. ASSUME NEW offline \in BOOLEAN, NEW offer \in Offer,
               Authenticate(offline, offer)
        PROVE  TypeOK'
    BY <1>1 DEF Authenticate
  <1>2. CASE StartWait
    BY <1>2 DEF StartWait, NoSelection, Selection
  <1>3. CASE Publish
    BY <1>3 DEF Publish, Published
  <1>4. CASE PollSelected
    BY <1>4 DEF PollSelected, Selection
  <1>5. CASE LeaveLoop
    BY <1>5 DEF LeaveLoop
  <1>6. CASE Recheck
    BY <1>6 DEF Recheck, LatePick, Cleared, Selection
  <1>7. CASE NoBooking
    BY <1>7 DEF NoBooking
  <1>8. CASE Book
    <2>1. session \in Sessions /\ picked.key \in Items
      BY <1>a, <1>8 DEF Book, Selection, SharedInv
    <2>2. booked' \in [Sessions -> [Items -> Nat]]
      BY <1>8, <2>1, AddOneIs DEF Book
    <2> QED
      BY <1>8, <2>2, SMTT(30) DEF Book
  <1>9. CASE FreeResponse
    BY <1>9 DEF FreeResponse
  <1>10. CASE AlarmFires
    <2>1. /\ alarm' \in BOOLEAN /\ loopWait' \in BOOLEAN
          /\ UNCHANGED <<ctl, session, resp, picked, sdata, booked>>
          /\ UNCHANGED <<lastInq, machine, granted, cups, answerFor, charges>>
      BY <1>10 DEF AlarmFires, AlarmSets
    <2> QED
      BY <2>1, SMTT(30)
  <1>11. CASE StatusCommand
    BY <1>11, SMTT(30) DEF StatusCommand
  <1>12. ASSUME NEW i \in Items, PressButton(i)
         PROVE  TypeOK'
    BY <1>12, SMTT(30) DEF PressButton
  <1>13. CASE PowerCycle
    BY <1>13, SMTT(30) DEF PowerCycle
  <1>14. CASE InquiryCommand
    <2> SUFFICES ASSUME machine.next = "inquiry",
                        UNCHANGED alarm, UNCHANGED ctlVars
                 PROVE  RepeatedInquiry \/ Uncredited \/ Grant \/ Refuse
                          \/ NotListed => TypeOK'
      BY <1>14 DEF InquiryCommand
    <2>1. machine.item \in Items
      BY DEF CupInv
    <2>2. ASSUME NEW yes, NEW account \in 0..MaxSessions, Answer(yes, account)
          PROVE  /\ machine' \in [next: {"status", "ready", "inquiry"},
                                  item: Items \cup {NoItem}]
                 /\ cups' \in [Sessions -> [Items -> Nat]]
      <3>1. CASE UNCHANGED <<machine, cups>>
        BY <3>1
      <3>2. CASE /\ machine' = [next |-> "status", item |-> NoItem]
                 /\ cups' = IF yes /\ account # 0
                              THEN AddOne(cups, account, machine.item)
                              ELSE cups
        <4>1. CASE yes /\ account # 0
          <5>1. account \in Sessions
            BY <4>1
          <5> QED
            BY <3>2, <4>1, <5>1, <2>1, AddOneIs
        <4>2. CASE ~(yes /\ account # 0)
          BY <3>2, <4>2
        <4> QED
          BY <4>1, <4>2
      <3> QED
        BY <2>2, <3>1, <3>2 DEF Answer
    <2>3. CASE RepeatedInquiry
      BY <2>2, <2>3 DEF RepeatedInquiry, RepeatWith
    <2>4. CASE Uncredited
      <3>1. /\ machine' \in [next: {"status", "ready", "inquiry"},
                              item: Items \cup {NoItem}]
            /\ cups' \in [Sessions -> [Items -> Nat]]
        BY <2>2, <2>4 DEF Uncredited
      <3>2. lastInq' \in 0..2 /\ answerFor' \in 0..MaxSessions
        BY <2>4 DEF Uncredited, Granted, Refused
      <3> QED
        BY <2>4, <3>1, <3>2 DEF Uncredited
    <2>5. CASE Grant
      <3>1. ctl # "idle" /\ session \in Sessions
        BY <2>5 DEF Grant, SharedInv
      <3>2. /\ machine' \in [next: {"status", "ready", "inquiry"},
                              item: Items \cup {NoItem}]
            /\ cups' \in [Sessions -> [Items -> Nat]]
        BY <2>2, <2>5 DEF Grant
      <3>3. granted' \in [Sessions -> Items \cup {NoItem}]
        BY <2>1, <2>5, <3>1 DEF Grant
      <3>4. sdata' \in [offline: BOOLEAN, enabled: BOOLEAN, credits: BOOLEAN,
                        selected: Selection]
        BY <2>1, <2>5 DEF Grant, Selection
      <3> QED
        BY <2>5, <3>2, <3>3, <3>4, SMTT(30) DEF Grant, Granted
    <2>6. CASE Refuse
      <3>1. /\ machine' \in [next: {"status", "ready", "inquiry"},
                              item: Items \cup {NoItem}]
            /\ cups' \in [Sessions -> [Items -> Nat]]
        BY <2>2, <2>6 DEF Refuse
      <3>2. sdata' \in [offline: BOOLEAN, enabled: BOOLEAN, credits: BOOLEAN,
                        selected: Selection]
        BY <2>6 DEF Refuse, Selection
      <3>3. lastInq' \in 0..2 /\ answerFor' \in 0..MaxSessions
        BY <2>6 DEF Refuse, Refused
      <3> QED
        BY <2>6, <3>1, <3>2, <3>3 DEF Refuse
    <2>7. CASE NotListed
      <3>1. /\ machine' \in [next: {"status", "ready", "inquiry"},
                              item: Items \cup {NoItem}]
            /\ cups' \in [Sessions -> [Items -> Nat]]
        BY <2>2, <2>7 DEF NotListed
      <3>2. lastInq' \in 0..2 /\ answerFor' \in 0..MaxSessions
        BY <2>7 DEF NotListed, Refused
      <3> QED
        BY <2>7, <3>1, <3>2 DEF NotListed
    <2> QED
      BY <2>3, <2>4, <2>5, <2>6, <2>7
  <1>15. CASE UNCHANGED vars
    BY <1>15, SMTT(30) DEF vars
  <1> QED
    BY <1>1, <1>2, <1>3, <1>4, <1>5, <1>6, <1>7, <1>8, <1>9, <1>10, <1>11,
       <1>12, <1>13, <1>14, <1>15 DEF Next, Controller

\* Every step but PressButton, PowerCycle, StatusCommand and InquiryCommand
\* leaves the machine and the MCI thread alone.
LEMMA CupStep ==
  IInv /\ [Next]_vars => CupInv' /\ CupsWithinGrant' /\ ChargedOnce'
  <1> SUFFICES ASSUME IInv, [Next]_vars
               PROVE  CupInv' /\ CupsWithinGrant' /\ ChargedOnce'
    OBVIOUS
  <1>a. CupInv /\ CupsWithinGrant /\ ChargedOnce /\ TypeOK /\ SharedInv
        /\ SessionInv
    BY DEF IInv
  <1>1. CASE UNCHANGED mciVars
    BY <1>a, <1>1 DEF mciVars, CupInv, CupsWithinGrant, ChargedOnce
  <1>2. CASE StatusCommand
    BY <1>a, <1>2 DEF StatusCommand, CupInv, CupsWithinGrant,
       ChargedOnce
  <1>3. ASSUME NEW i \in Items, PressButton(i)
        PROVE  CupInv' /\ CupsWithinGrant' /\ ChargedOnce'
    <2>1. /\ machine.next = "ready" /\ machine' = [next |-> "inquiry", item |-> i]
          /\ charges' = 0 /\ lastInq' = lastInq
          /\ granted' = granted /\ cups' = cups
      BY <1>3 DEF PressButton
    <2>2. CupInv'
      BY <1>a, <2>1 DEF CupInv, Granted
    <2>3. CupsWithinGrant'
      BY <1>a, <2>1 DEF CupsWithinGrant
    <2> QED
      BY <2>1, <2>2, <2>3 DEF ChargedOnce
  <1>4. CASE PowerCycle
    BY <1>a, <1>4 DEF PowerCycle, CupInv, CupsWithinGrant, ChargedOnce
  <1>5. CASE InquiryCommand
    <2>a. /\ machine.next = "inquiry" /\ machine.item \in Items
          /\ (charges > 0 => lastInq # 0)
          /\ charges \in Nat /\ charges <= 1
          /\ lastInq \in 0..2
          /\ session \in 0..MaxSessions
          /\ granted \in [Sessions -> Items \cup {NoItem}]
          /\ cups \in [Sessions -> [Items -> Nat]]
      BY <1>a, <1>5 DEF InquiryCommand, CupInv, ChargedOnce, TypeOK
    <2>b. \A s \in Sessions, i \in Items : cups[s][i] <= Once(granted[s])[i]
      BY <1>a DEF CupsWithinGrant
    <2>1. CASE RepeatedInquiry
      <3>a. /\ lastInq' = lastInq /\ lastInq # 0 /\ charges' = charges
            /\ granted' = granted /\ answerFor' = answerFor
            /\ Answer(lastInq = Granted, answerFor)
        BY <2>1 DEF RepeatedInquiry, RepeatWith
      <3>1. ChargedOnce'
        BY <1>a, <3>a DEF ChargedOnce
      <3>2. CASE UNCHANGED <<machine, cups>>
        BY <1>a, <3>a, <3>1, <3>2 DEF CupInv, CupsWithinGrant
      <3>3. CASE /\ machine' = [next |-> "status", item |-> NoItem]
                 /\ cups' = IF lastInq = Granted /\ answerFor # 0
                              THEN AddOne(cups, answerFor, machine.item)
                              ELSE cups
        <4>1. CupInv'
          BY <3>3 DEF CupInv
        <4>2. CASE lastInq = Granted /\ answerFor # 0
          <5>1. answerFor \in Sessions
            BY <1>a, <4>2 DEF TypeOK
          <5>2. granted[answerFor] = machine.item
                /\ cups[answerFor][machine.item] = 0
            BY <1>a, <2>a, <4>2 DEF CupInv
          <5>3. \A t \in Sessions, j \in Items :
                  cups'[t][j] = IF t = answerFor /\ j = machine.item
                                  THEN cups[t][j] + 1 ELSE cups[t][j]
            <6>1. cups' = AddOne(cups, answerFor, machine.item)
              BY <3>3, <4>2
            <6>2. \A t \in Sessions, j \in Items :
                    AddOne(cups, answerFor, machine.item)[t][j] =
                      IF t = answerFor /\ j = machine.item
                        THEN cups[t][j] + 1 ELSE cups[t][j]
              <7>1. cups \in [Sessions -> [Items -> Nat]] /\ answerFor \in Sessions
                    /\ machine.item \in Items
                BY <2>a, <5>1
              <7> HIDE DEF Sessions
              <7> QED
                BY <7>1, AddOneIs
            <6> QED
              BY <6>1, <6>2
          <5>4. CupsWithinGrant'
            BY <2>a, <2>b, <3>a, <5>1, <5>2, <5>3 DEF CupsWithinGrant, Once
          <5> QED
            BY <3>1, <4>1, <5>4
        <4>3. CASE ~(lastInq = Granted /\ answerFor # 0)
          BY <1>a, <3>a, <3>1, <3>3, <4>1, <4>3 DEF CupsWithinGrant
        <4> QED
          BY <4>2, <4>3
      <3> QED
        BY <3>a, <3>2, <3>3 DEF Answer
    <2>2. ASSUME cups' = cups, granted' = granted, charges' = charges,
                 machine' = machine \/ machine'.next = "status",
                 answerFor' = 0, lastInq' # 0
          PROVE  CupInv' /\ CupsWithinGrant' /\ ChargedOnce'
      <3>1. CupInv'
        BY <1>a, <2>a, <2>2 DEF CupInv
      <3>2. CupsWithinGrant'
        BY <1>a, <2>2 DEF CupsWithinGrant
      <3> QED
        BY <1>a, <2>2, <3>1, <3>2 DEF ChargedOnce
    <2>3. CASE Uncredited
      <3>1. /\ cups' = cups /\ granted' = granted /\ charges' = charges
            /\ machine' = machine \/ machine'.next = "status"
            /\ answerFor' = 0 /\ lastInq' # 0
        BY <2>3 DEF Uncredited, Answer, Granted, Refused
      <3> QED
        BY <2>2, <3>1
    <2>4. CASE Refuse
      <3>1. /\ cups' = cups /\ granted' = granted /\ charges' = charges
            /\ machine' = machine \/ machine'.next = "status"
            /\ answerFor' = 0 /\ lastInq' # 0
        BY <2>4 DEF Refuse, Answer, Refused
      <3> QED
        BY <2>2, <3>1
    <2>5. CASE NotListed
      <3>1. /\ cups' = cups /\ granted' = granted /\ charges' = charges
            /\ machine' = machine \/ machine'.next = "status"
            /\ answerFor' = 0 /\ lastInq' # 0
        BY <2>5 DEF NotListed, Answer, Refused
      <3> QED
        BY <2>2, <3>1
    <2>6. CASE Grant
      <3>a. /\ lastInq = 0 /\ sdata.credits
            /\ lastInq' = Granted /\ answerFor' = session
            /\ granted' = [granted EXCEPT ![session] = machine.item]
            /\ charges' = charges + 1
            /\ Answer(TRUE, session)
        BY <2>6 DEF Grant
      <3>1. ctl \in {"poll", "recheck"} /\ session \in Sessions
        BY <1>a, <3>a DEF SharedInv, TypeOK
      <3>2. granted[session] = NoItem
        <4>1. /\ ~picked.pressed
              /\ sdata.selected = NoItem
          BY <1>a, <3>a, <3>1 DEF SharedInv, SessionInv
        <4> QED
          BY <1>a, <3>1, <4>1 DEF SessionInv, Tells
      <3>3. \A i \in Items : cups[session][i] = 0
        <4> TAKE i \in Items
        <4>1. cups[session][i] \in Nat
          BY <2>a, <3>1
        <4>2. cups[session][i] <= 0
          BY <2>b, <3>1, <3>2 DEF Once
        <4> QED
          BY <4>1, <4>2
      <3>4. ChargedOnce'
        BY <2>a, <3>a DEF ChargedOnce
      <3>5. granted'[session] = machine.item
            /\ \A t \in Sessions : t # session => granted'[t] = granted[t]
        BY <2>a, <3>a, <3>1
      <3>6. CASE UNCHANGED <<machine, cups>>
        <4>1. CupInv'
          BY <2>a, <3>a, <3>3, <3>5, <3>6 DEF CupInv, Granted
        <4>2. CupsWithinGrant'
          BY <2>a, <2>b, <3>3, <3>5, <3>6 DEF CupsWithinGrant, Once
        <4> QED
          BY <3>4, <4>1, <4>2
      <3>7. CASE /\ machine' = [next |-> "status", item |-> NoItem]
                 /\ cups' = AddOne(cups, session, machine.item)
        <4>1. CupInv'
          BY <3>7 DEF CupInv
        <4>2. \A t \in Sessions, j \in Items :
                cups'[t][j] = IF t = session /\ j = machine.item
                                THEN cups[t][j] + 1 ELSE cups[t][j]
          <5>1. cups' = AddOne(cups, session, machine.item)
            BY <3>7
          <5>2. \A t \in Sessions, j \in Items :
                  AddOne(cups, session, machine.item)[t][j] =
                    IF t = session /\ j = machine.item
                      THEN cups[t][j] + 1 ELSE cups[t][j]
            <7>1. cups \in [Sessions -> [Items -> Nat]] /\ session \in Sessions
                  /\ machine.item \in Items
              BY <2>a, <3>1
            <7> HIDE DEF Sessions
            <7> QED
              BY <7>1, AddOneIs
          <5> QED
            BY <5>1, <5>2
        <4>3. CupsWithinGrant'
          BY <2>a, <2>b, <3>1, <3>3, <3>5, <4>2 DEF CupsWithinGrant, Once
        <4> QED
          BY <3>4, <4>1, <4>3
      <3> QED
        BY <3>a, <3>1, <3>6, <3>7 DEF Answer
    <2> QED
      BY <1>5, <2>1, <2>3, <2>4, <2>5, <2>6 DEF InquiryCommand
  <1> QED
    BY <1>1, <1>2, <1>3, <1>4, <1>5
    DEF Next, Controller, vars, mciVars, Authenticate, StartWait, Publish,
        PollSelected, LeaveLoop, Recheck, NoBooking, Book,
        FreeResponse, AlarmFires, AlarmSets

\* What an inquiry does to the shared struct and to the grant.
LEMMA InquiryIs ==
  ASSUME TypeOK, CupInv, InquiryCommand
  PROVE  /\ UNCHANGED ctlVars /\ UNCHANGED alarm
         /\ machine.item \in Items
         /\ \/ UNCHANGED <<sdata, granted>>
            \/ /\ sdata.credits
               /\ sdata.offline \/ resp.offer[machine.item] = "enabled"
               /\ sdata' = [sdata EXCEPT !.selected = machine.item,
                                         !.credits = FALSE]
               /\ granted' = [granted EXCEPT ![session] = machine.item]
            \/ /\ sdata.credits
               /\ sdata' = [sdata EXCEPT !.selected = NotEnough,
                                         !.credits = FALSE]
               /\ granted' = granted
  <1>1. UNCHANGED ctlVars /\ UNCHANGED alarm /\ machine.item \in Items
    BY DEF InquiryCommand, CupInv
  <1>2. CASE RepeatedInquiry \/ Uncredited \/ NotListed
    BY <1>1, <1>2 DEF RepeatedInquiry, RepeatWith, Uncredited, NotListed
  <1>3. CASE Grant
    BY <1>1, <1>3 DEF Grant
  <1>4. CASE Refuse
    BY <1>1, <1>4 DEF Refuse
  <1> QED
    BY <1>2, <1>3, <1>4 DEF InquiryCommand

LEMMA SharedStep == IInv /\ [Next]_vars => SharedInv'
  <1> SUFFICES ASSUME IInv, [Next]_vars PROVE SharedInv'
    OBVIOUS
  <1>a. TypeOK /\ SharedInv /\ SessionInv /\ CupInv /\ MaxSessions \in Nat
    BY NoSession DEF IInv
  <1> USE <1>a DEF SharedInv, ctlVars
  <1>1. ASSUME NEW offline \in BOOLEAN, NEW offer \in Offer,
               Authenticate(offline, offer)
        PROVE  SharedInv'
    BY <1>1 DEF Authenticate, TypeOK
  <1>2. CASE StartWait
    BY <1>2 DEF StartWait
  <1>3. CASE Publish
    <2>1. sdata' = [sdata EXCEPT !.offline = resp.offline,
                                 !.enabled = @ \/ ~resp.offline,
                                 !.credits = TRUE]
          /\ ctl = "publish" /\ ctl' = "poll"
          /\ session' = session /\ resp' = resp
      BY <1>3 DEF Publish, Published
    <2>2. sdata.selected = NoItem /\ resp.offline \in BOOLEAN
      BY <2>1 DEF TypeOK
    <2>3. /\ sdata'.selected = NoItem
          /\ sdata'.offline = resp.offline
          /\ resp.offline \/ sdata'.enabled
      BY <2>1, <2>2 DEF TypeOK
    <2> QED
      BY <2>1, <2>3
  <1>4. CASE PollSelected
    BY <1>4 DEF PollSelected, TypeOK
  <1>5. CASE LeaveLoop
    BY <1>5 DEF LeaveLoop
  <1>6. CASE Recheck
    BY <1>6 DEF Recheck, Cleared, TypeOK
  <1>7. CASE NoBooking
    BY <1>7 DEF NoBooking
  <1>8. CASE Book
    BY <1>8 DEF Book
  <1>9. CASE FreeResponse
    BY <1>9 DEF FreeResponse, TypeOK
  <1>10. CASE AlarmFires
    BY <1>10 DEF AlarmFires, AlarmSets
  <1>11. CASE StatusCommand
    BY <1>11 DEF StatusCommand
  <1>12. ASSUME NEW i \in Items, PressButton(i)
         PROVE  SharedInv'
    BY <1>12 DEF PressButton
  <1>13. CASE PowerCycle
    BY <1>13 DEF PowerCycle
  <1>14. CASE InquiryCommand
    <2>1. /\ ctl' = ctl /\ session' = session /\ resp' = resp
          /\ \/ sdata' = sdata
             \/ /\ sdata.credits
                /\ ~sdata'.credits
                /\ sdata'.enabled = sdata.enabled
      BY <1>14, InquiryIs DEF TypeOK
    <2> QED
      BY <2>1
  <1>15. CASE UNCHANGED vars
    BY <1>15 DEF vars
  <1> QED
    BY <1>1, <1>2, <1>3, <1>4, <1>5, <1>6, <1>7, <1>8, <1>9, <1>10, <1>11,
       <1>12, <1>13, <1>14, <1>15 DEF Next, Controller

\* A grant is checked against the response the session brought, because the
\* credit it takes was published with that response.
LEMMA AllowedStep == IInv /\ [Next]_vars => GrantIsAllowed'
  <1> SUFFICES ASSUME IInv, [Next]_vars PROVE GrantIsAllowed'
    OBVIOUS
  <1>a. TypeOK /\ SharedInv /\ SessionInv /\ CupInv /\ GrantIsAllowed
        /\ MaxSessions \in Nat
    BY NoSession DEF IInv
  <1>1. CASE UNCHANGED <<session, granted, resp>>
    BY <1>a, <1>1 DEF GrantIsAllowed, Allowed
  <1>2. ASSUME NEW offline \in BOOLEAN, NEW offer \in Offer,
               Authenticate(offline, offer)
        PROVE  GrantIsAllowed'
    <2>1. session' \in Sessions /\ session' > session /\ granted' = granted
      BY <1>a, <1>2 DEF Authenticate, mciVars, TypeOK
    <2>2. granted'[session'] = NoItem
      BY <1>a, <2>1 DEF SessionInv
    <2> QED
      BY <2>2 DEF GrantIsAllowed
  <1>3. CASE FreeResponse
    BY <1>a, <1>3 DEF FreeResponse, mciVars, GrantIsAllowed, Allowed, TypeOK
  <1>4. CASE InquiryCommand
    <2>1. session' = session /\ resp' = resp
      BY <1>a, <1>4, InquiryIs DEF ctlVars
    <2>2. CASE granted' = granted
      BY <1>1, <2>1, <2>2
    <2>3. CASE /\ sdata.credits
               /\ sdata.offline \/ resp.offer[machine.item] = "enabled"
               /\ granted' = [granted EXCEPT ![session] = machine.item]
      <3>1. ctl # "idle" /\ session \in Sessions
        BY <1>a, <2>3 DEF SharedInv, TypeOK
      <3>2. granted'[session] = machine.item
        BY <1>a, <2>3, <3>1 DEF TypeOK
      <3>3. resp.offline \/ resp.offer[machine.item] = "enabled"
        BY <1>a, <2>3 DEF SharedInv
      <3> QED
        BY <2>1, <3>2, <3>3 DEF GrantIsAllowed, Allowed
    <2> QED
      BY <1>a, <1>4, <2>2, <2>3, InquiryIs
  <1> QED
    BY <1>1, <1>2, <1>3, <1>4
    DEF Next, Controller, vars, ctlVars, mciVars, StartWait, Publish,
        PollSelected, LeaveLoop, Recheck, NoBooking, Book,
        AlarmFires, AlarmSets, StatusCommand, PressButton,
        PowerCycle

\* Granting and billing stay in step.
LEMMA SessionStep == IInv /\ [Next]_vars => SessionInv'
  <1> SUFFICES ASSUME IInv, [Next]_vars PROVE SessionInv'
    OBVIOUS
  <1>a. TypeOK /\ SharedInv /\ SessionInv /\ CupInv /\ MaxSessions \in Nat
    BY NoSession DEF IInv
  <1> USE DEF ctlVars, mciVars
  <1>1. ASSUME NEW offline \in BOOLEAN, NEW offer \in Offer,
               Authenticate(offline, offer)
        PROVE  SessionInv'
    <2>1. /\ ctl = "idle" /\ ctl' = "wait"
          /\ session' = session + 1 /\ session' \in Sessions
          /\ session \in 0..MaxSessions
          /\ granted' = granted /\ booked' = booked
      BY <1>a, <1>1 DEF Authenticate, TypeOK
    <2>2. granted[session'] = NoItem /\ booked[session'] = Never
      BY <1>a, <2>1 DEF SessionInv
    <2>3. \A s \in Sessions : Over(s)' => booked'[s] = Once(granted'[s])
      BY <1>a, <2>1 DEF SessionInv, Over
    <2>4. \A s \in Sessions :
            s > session' => granted'[s] = NoItem /\ booked'[s] = Never
      BY <1>a, <2>1 DEF SessionInv
    <2> QED
      BY <2>1, <2>2, <2>3, <2>4 DEF SessionInv
  <1>2. CASE StartWait
    <2>1. granted[session] = NoItem /\ booked[session] = Never
      BY <1>a, <1>2 DEF StartWait, SessionInv
    <2>2. /\ ctl' = "publish" /\ session' = session /\ picked' = NoSelection
          /\ granted' = granted /\ booked' = booked /\ ctl = "wait"
      BY <1>2 DEF StartWait
    <2> QED
      BY <1>a, <2>1, <2>2 DEF SessionInv, Over
  <1>3. CASE Publish
    <2>1. /\ ctl' = "poll" /\ session' = session /\ picked' = NoSelection
          /\ granted' = granted /\ booked' = booked /\ ctl = "publish"
          /\ sdata'.selected = NoItem
          /\ granted[session] = NoItem /\ booked[session] = Never
      BY <1>a, <1>3 DEF Publish, Published, SessionInv, SharedInv, TypeOK
    <2> QED
      BY <1>a, <2>1 DEF SessionInv, Over, Tells, NoSelection
  <1>4. CASE PollSelected
    <2>1. /\ ctl' = "poll" /\ session' = session /\ ctl = "poll"
          /\ granted' = granted /\ booked' = booked
          /\ sdata.selected # NoItem
          /\ picked'.pressed /\ picked'.key = sdata.selected
          /\ sdata'.selected = NoItem /\ ~sdata'.credits /\ ~loopWait'
      BY <1>a, <1>4 DEF PollSelected, TypeOK
    <2>2. ~picked.pressed /\ Tells(sdata.selected)
      BY <1>a, <2>1 DEF SessionInv
    <2> QED
      BY <1>a, <2>1, <2>2 DEF SessionInv, Over, Tells
  <1>5. CASE LeaveLoop
    BY <1>a, <1>5 DEF LeaveLoop, SessionInv, Over, Tells
  <1>6. CASE Recheck
    <2>1. /\ ctl' = "decide" /\ session' = session /\ ctl = "recheck"
          /\ granted' = granted /\ booked' = booked
          /\ picked' = LatePick
      BY <1>6 DEF Recheck
    <2>2. Tells(picked'.key)
      BY <1>a, <2>1 DEF LatePick, SessionInv, Tells, TypeOK
    <2> QED
      BY <1>a, <2>1, <2>2 DEF SessionInv, Over, Tells
  <1>7. CASE NoBooking
    <2>1. granted[session] = NoItem /\ booked[session] = Never
      BY <1>a, <1>7 DEF NoBooking, SessionInv, Tells
    <2>2. booked[session] = Once(granted[session])
      BY <2>1 DEF Once, Never
    <2>3. /\ ctl' = "free" /\ session' = session /\ ctl = "decide"
          /\ granted' = granted /\ booked' = booked
      BY <1>7 DEF NoBooking
    <2> QED
      BY <1>a, <2>2, <2>3 DEF SessionInv, Over
  <1>8. CASE Book
    <2>1. session \in Sessions /\ picked.key \in Items
          /\ booked[session] = Never /\ granted[session] = picked.key
      BY <1>a, <1>8 DEF Book, SharedInv, SessionInv, Tells, TypeOK, Selection
    <2>2. /\ ctl' = "free" /\ session' = session /\ ctl = "decide"
          /\ granted' = granted
          /\ booked' = AddOne(booked, session, picked.key)
      BY <1>8 DEF Book
    <2>3. booked \in [Sessions -> [Items -> Nat]]
      BY <1>a DEF TypeOK
    <2>4. booked' \in [Sessions -> [Items -> Nat]]
          /\ (\A j \in Items : booked'[session][j] =
                IF j = picked.key THEN booked[session][j] + 1
                                  ELSE booked[session][j])
          /\ \A t \in Sessions : t # session => booked'[t] = booked[t]
      <3> HIDE DEF Sessions
      <3>1. session \in Sessions /\ picked.key \in Items
        BY <2>1
      <3>2. /\ AddOne(booked, session, picked.key) \in [Sessions -> [Items -> Nat]]
            /\ \A t \in Sessions, j \in Items :
                 AddOne(booked, session, picked.key)[t][j] =
                   IF t = session /\ j = picked.key
                     THEN booked[t][j] + 1 ELSE booked[t][j]
            /\ \A t \in Sessions : t # session =>
                 AddOne(booked, session, picked.key)[t] = booked[t]
        BY <2>3, <3>1, AddOneIs
      <3> DEFINE b == AddOne(booked, session, picked.key)
      <3>3. booked' = b
        BY <2>2
      <3> HIDE DEF b
      <3>4. /\ b \in [Sessions -> [Items -> Nat]]
            /\ \A j \in Items : b[session][j] =
                 IF j = picked.key THEN booked[session][j] + 1
                                   ELSE booked[session][j]
            /\ \A t \in Sessions : t # session => b[t] = booked[t]
        BY <3>1, <3>2 DEF b
      <3> QED
        BY <3>3, <3>4
    <2>5. booked'[session] = Once(granted'[session])
      <3>1. booked'[session] \in [Items -> Nat]
        BY <2>1, <2>4
      <3>2. \A j \in Items : booked'[session][j] = IF j = picked.key THEN 1 ELSE 0
        BY <2>1, <2>4 DEF Never
      <3>3. booked'[session] = [j \in Items |-> IF j = picked.key THEN 1 ELSE 0]
        BY <3>1, <3>2
      <3> QED
        BY <2>1, <2>2, <3>3 DEF Once
    <2>6. \A s \in Sessions : Over(s)' => booked'[s] = Once(granted'[s])
      BY <1>a, <2>2, <2>4, <2>5 DEF SessionInv, Over, TypeOK
    <2>7. \A s \in Sessions :
            s > session' => granted'[s] = NoItem /\ booked'[s] = Never
      <3>1. \A s \in Sessions : s > session => s # session
        BY <1>a, <2>1
      <3> QED
        BY <1>a, <2>2, <2>4, <3>1 DEF SessionInv
    <2> QED
      BY <2>2, <2>6, <2>7 DEF SessionInv
  <1>9. CASE FreeResponse
    BY <1>a, <1>9 DEF FreeResponse, SessionInv, Over
  <1>10. CASE AlarmFires
    BY <1>a, <1>10 DEF AlarmFires, AlarmSets, SessionInv, Over, Tells
  <1>11. CASE UNCHANGED ctlVars /\ UNCHANGED <<sdata, granted>>
    BY <1>a, <1>11 DEF SessionInv, Over, Tells
  <1>12. CASE InquiryCommand
    <2>1. /\ ctl' = ctl /\ session' = session /\ loopWait' = loopWait
          /\ picked' = picked /\ booked' = booked /\ machine.item \in Items
      BY <1>a, <1>12, InquiryIs
    <2>2. CASE UNCHANGED <<sdata, granted>>
      BY <1>a, <1>11, <2>2, <1>12, InquiryIs
    <2>3. ASSUME sdata.credits, sdata' = [sdata EXCEPT !.selected = NotEnough,
                                                     !.credits = FALSE],
                 granted' = granted
          PROVE  SessionInv'
      <3>1. ctl \in {"poll", "recheck"} /\ sdata.selected = NoItem
            /\ ~picked.pressed
        BY <1>a, <2>3 DEF SharedInv, SessionInv
      <3>2. sdata'.selected = NotEnough
        BY <1>a, <2>3 DEF TypeOK
      <3>3. granted[session] = NoItem
        BY <1>a, <3>1 DEF SessionInv, Tells
      <3> QED
        BY <1>a, <2>1, <2>3, <3>1, <3>2, <3>3 DEF SessionInv, Over, Tells
    <2>4. ASSUME sdata.credits,
                 sdata' = [sdata EXCEPT !.selected = machine.item,
                                        !.credits = FALSE],
                 granted' = [granted EXCEPT ![session] = machine.item]
          PROVE  SessionInv'
      <3>1. ctl \in {"poll", "recheck"} /\ ~picked.pressed
            /\ picked.key = NoItem /\ booked[session] = Never
            /\ session \in Sessions
        BY <1>a, <2>4 DEF SharedInv, SessionInv, TypeOK
      <3>2. sdata'.selected = machine.item
        BY <1>a, <2>4 DEF TypeOK
      <3>3. granted'[session] = machine.item
            /\ \A t \in Sessions : t # session => granted'[t] = granted[t]
        BY <1>a, <2>4, <3>1 DEF TypeOK
      <3>4. \A s \in Sessions : Over(s)' => booked'[s] = Once(granted'[s])
        BY <1>a, <2>1, <3>1, <3>3 DEF SessionInv, Over
      <3>5. \A s \in Sessions :
              s > session' => granted'[s] = NoItem /\ booked'[s] = Never
        BY <1>a, <2>1, <3>3 DEF SessionInv, TypeOK
      <3>6. Tells(sdata.selected)'
        BY <2>1, <3>2, <3>3 DEF Tells
      <3> QED
        BY <2>1, <3>1, <3>4, <3>5, <3>6 DEF SessionInv
    <2> QED
      BY <1>a, <1>12, <2>2, <2>3, <2>4, InquiryIs
  <1> QED
    BY <1>1, <1>2, <1>3, <1>4, <1>5, <1>6, <1>7, <1>8, <1>9, <1>10, <1>11,
       <1>12
    DEF Next, Controller, vars, StatusCommand, PressButton,
        PowerCycle

\* IInv is inductive.
LEMMA Inductive == IInv /\ [Next]_vars => IInv'
  BY TypeStep, SharedStep, SessionStep, CupStep, AllowedStep DEF IInv

\* IInv holds in every reachable state.
THEOREM Invariance == Spec => []IInv
  BY InitInv, Inductive, PTL DEF Spec

\* The types of the model, for every set of products.
THEOREM TypeCorrect == Spec => []TypeOK
  <1>1. IInv => TypeOK
    BY DEF IInv
  <1> QED
    BY <1>1, Invariance, PTL

\* A finished session has billed exactly what it granted.
THEOREM BookingsMatchGrants == Spec => []OneBookingPerGrant
  <1>1. IInv => OneBookingPerGrant
    BY DEF IInv, SessionInv, OneBookingPerGrant
  <1> QED
    BY <1>1, Invariance, PTL

\* However often an inquiry repeats, it pours one cup of the granted item.
THEOREM CupsAreGranted == Spec => []CupsWithinGrant
  <1>1. IInv => CupsWithinGrant
    BY DEF IInv
  <1> QED
    BY <1>1, Invariance, PTL

\* No cup goes unbilled: it follows from the two theorems before it.
THEOREM CupsAreBooked == Spec => []EveryCupIsBooked
  <1>1. OneBookingPerGrant /\ CupsWithinGrant => EveryCupIsBooked
    BY DEF OneBookingPerGrant, CupsWithinGrant, EveryCupIsBooked
  <1> QED
    BY <1>1, BookingsMatchGrants, CupsAreGranted, PTL

\* One press of a button is charged once.
THEOREM ChargesAreSingle == Spec => []ChargedOnce
  <1>1. IInv => ChargedOnce
    BY DEF IInv
  <1> QED
    BY <1>1, Invariance, PTL

\* Nothing is booked or charged twice.
THEOREM NothingIsTwice == Spec => []NothingTwice
  <1>1. OneBookingPerGrant /\ ChargedOnce => NothingTwice
    BY DEF NothingTwice
  <1> QED
    BY <1>1, BookingsMatchGrants, ChargesAreSingle, PTL

\* A grant is one the session's own authentication allows.
THEOREM GrantsAreAllowed == Spec => []GrantIsAllowed
  <1>1. IInv => GrantIsAllowed
    BY DEF IInv
  <1> QED
    BY <1>1, Invariance, PTL

\* The list is set only while the response that holds it is allocated.
THEOREM ListIsLive == Spec => []NoDanglingList
  <1>1. IInv => NoDanglingList
    BY DEF IInv, SharedInv, NoDanglingList
  <1> QED
    BY <1>1, Invariance, PTL

\* The alarm of one wait never interrupts the next: it is discarded with the
\* selection that ends the wait, or ends the wait itself.
THEOREM AlarmBelongs == Spec => []NoStaleAlarm
  <1>1. Init => NoStaleAlarm
    BY DEF Init, NoStaleAlarm
  <1>2. NoStaleAlarm /\ [Next]_vars => NoStaleAlarm'
    BY DEF NoStaleAlarm, Next, Controller, vars, ctlVars, Authenticate,
       StartWait, Publish, PollSelected, LeaveLoop, Recheck,
       NoBooking, Book, FreeResponse, AlarmFires, AlarmSets, StatusCommand,
       PressButton, PowerCycle, InquiryCommand
  <1> QED
    BY <1>1, <1>2, PTL DEF Spec


-----------------------------------------------------------------------------
(* The handover of a key, KeyHandover. *)

\* The handler frees the mutex after it has cleared main_loop.
HandlerInv == handler \in {"unlock", "signal"} => ~mainLoop

\* Where the controller and the nfc thread hold the mutex.  A shutdown ends
\* that, but not before the handler has freed the mutex of a session.
MutexInv ==
  /\ mainLoop =>
       /\ main \in {"enter", "decide", "auth", "fatal", "session", "clear", "unlock"}
            => mutex = "controller"
       /\ nfc \in {"copy", "unlock"} => mutex = "nfc"
  /\ main \in {"auth", "session"} /\ mutex = "controller"
       => nfc \notin {"copy", "unlock"}

\* A reading is not in the buffer before the nfc thread has put it there, half
\* by half.
FreshInv(r) ==
  /\ r \in unread => keyBuf # r
  /\ r \in unread \/ (nfc = "trylock" /\ keyBuf = r) => \A h \in Halves : key[h] # r
  /\ nfc = "copy" /\ keyBuf = r => toCopy # {} /\ \A h \in toCopy : key[h] # r

\* A reading that was served is in the buffer until it is cleared, if at all,
\* and is not written to it again.
SpentInv(r) ==
  served[r] >= 1 =>
    /\ served[r] <= 1
    /\ r \notin unread
    /\ ~(nfc \in {"trylock", "copy"} /\ keyBuf = r)
    /\ \/ key # Whole(r)
       \/ main = "session"
       \/ main = "clear" /\ toClear = Halves

HandoverInv ==
  /\ HandoverTypeOK
  /\ HandlerInv
  /\ MutexInv
  /\ \A r \in Readings : FreshInv(r) /\ SpentInv(r)

USE HandoverAssumption

\* One half written: the buffer holds as a whole only what was written, and no
\* half has changed to anything else.
LEMMA WriteHalf ==
  ASSUME key \in Buffer, NEW h \in Halves, NEW v \in Readings \cup {Zero},
         key' = [key EXCEPT ![h] = v]
  PROVE  /\ key' \in Buffer
         /\ key'[h] = v
         /\ \A g \in Halves : g # h => key'[g] = key[g]
         /\ \A r \in Readings : r # v => key' # Whole(r)
  BY DEF Buffer, Whole

LEMMA HandoverInitInv == HandoverInit => HandoverInv
  <1> SUFFICES ASSUME HandoverInit PROVE HandoverInv
    OBVIOUS
  <1>1. key \in Buffer /\ \A h \in Halves : key[h] = Zero
    BY DEF HandoverInit, Buffer, Whole
  <1>2. served \in [Readings -> Nat] /\ \A r \in Readings : served[r] = 0
    BY DEF HandoverInit
  <1>3. HandoverTypeOK
    <2>1. faults \in 0 .. MaxFaults /\ stops \in 0 .. MaxStops
      BY DEF HandoverInit
    <2>2. toClear \in SUBSET Halves /\ toCopy \in SUBSET Halves
          /\ unread \in SUBSET Readings
      BY DEF HandoverInit
    <2>3. mainLoop \in BOOLEAN /\ nfcLoop \in BOOLEAN /\ mciHasError \in BOOLEAN
      BY DEF HandoverInit
    <2> QED BY <1>1, <1>2, <2>1, <2>2, <2>3 DEF HandoverInit, HandoverTypeOK
  <1>4. HandlerInv /\ MutexInv
    BY DEF HandoverInit, HandlerInv, MutexInv
  <1>5. ASSUME NEW r \in Readings PROVE FreshInv(r) /\ SpentInv(r)
    <2>1. keyBuf # r /\ \A h \in Halves : key[h] # r
      BY <1>1 DEF HandoverInit
    <2>2. nfc = "loop" /\ served[r] = 0
      BY <1>2 DEF HandoverInit
    <2> QED BY <2>1, <2>2 DEF FreshInv, SpentInv
  <1> QED BY <1>3, <1>4, <1>5 DEF HandoverInv

LEMMA HandoverTypeStep ==
  ASSUME HandoverTypeOK, [HandoverNext]_handoverVars
  PROVE  HandoverTypeOK'
  <1> USE DEF HandoverTypeOK, flags, faultVars, mainVars, nfcVars, handlerVars
  <1>1. CASE Nfc
    <2>1. CASE NfcLoop BY <2>1 DEF NfcLoop
    <2>2. ASSUME NEW r \in Readings, NfcRead(r) PROVE HandoverTypeOK'
      BY <2>2 DEF NfcRead
    <2>3. CASE NfcReopened BY <2>3 DEF NfcReopened
    <2>4. CASE NfcFails BY <2>4 DEF NfcFails
    <2>5. CASE NfcTryLock BY <2>5 DEF NfcTryLock, TryLocked
    <2>6. ASSUME NEW h \in Halves, NfcCopy(h) PROVE HandoverTypeOK'
      BY <2>6 DEF NfcCopy, Buffer
    <2>7. CASE NfcUnlock BY <2>7 DEF NfcUnlock
    <2>8. CASE NfcSignal BY <2>8 DEF NfcSignal, Wake
    <2> QED BY <1>1, <2>1, <2>2, <2>3, <2>4, <2>5, <2>6, <2>7, <2>8
            DEF Nfc, NfcHandsOver
  <1>2. CASE MainThread
    <2>1. CASE Check BY <2>1 DEF Check
    <2>2. CASE Lock BY <2>2 DEF Lock
    <2>3. CASE CondWait BY <2>3 DEF CondWait
    <2>4. CASE Relock BY <2>4 DEF Relock
    <2>5. CASE Decide BY <2>5 DEF Decide
    <2>6. ASSUME NEW h \in Halves, Clear(h) PROVE HandoverTypeOK'
      <3>1. key' \in Buffer BY <2>6, WriteHalf DEF Clear
      <3>2. toClear' \in SUBSET Halves BY <2>6 DEF Clear
      <3>3. main' \in {main, "check", "unlock"} BY <2>6 DEF Clear
      <3> QED BY <2>6, <3>1, <3>2, <3>3 DEF Clear
    <2>7. CASE AuthenticateKey
      <3>1. served' \in [Readings -> Nat]
        BY <2>7 DEF AuthenticateKey
      <3> QED BY <2>7, <3>1 DEF AuthenticateKey
    <2>8. CASE Fatal BY <2>8 DEF Fatal
    <2>9. CASE EndSession BY <2>9 DEF EndSession
    <2>10. CASE Unlock BY <2>10 DEF Unlock
    <2> QED BY <1>2, <2>1, <2>2, <2>3, <2>4, <2>5, <2>6, <2>7, <2>8, <2>9, <2>10
            DEF MainThread
  <1>3. CASE WakeSpuriously BY <1>3 DEF WakeSpuriously
  <1>4. CASE AuthFatal BY <1>4 DEF AuthFatal
  <1>5. ASSUME NEW t \in {"controller", "other"}, Terminate(t) PROVE HandoverTypeOK'
    BY <1>5 DEF Terminate
  <1>6. CASE Handler
    <2>1. CASE ClearFlags
      <3>1. mainLoop' \in BOOLEAN /\ nfcLoop' \in BOOLEAN
        BY <2>1 DEF ClearFlags
      <3> QED BY <2>1, <3>1 DEF ClearFlags
    <2>2. CASE ForceUnlock BY <2>2 DEF ForceUnlock
    <2>3. CASE HandlerSignal BY <2>3 DEF HandlerSignal, Wake
    <2> QED BY <1>6, <2>1, <2>2, <2>3 DEF Handler
  <1>7. CASE MciSignal BY <1>7 DEF MciSignal
  <1>8. CASE UNCHANGED handoverVars BY <1>8 DEF handoverVars
  <1> QED BY <1>1, <1>2, <1>3, <1>4, <1>5, <1>6, <1>7, <1>8 DEF HandoverNext

\* A shutdown is for good: main_loop is not set again.
LEMMA HandlerStep ==
  ASSUME HandoverTypeOK, HandlerInv, [HandoverNext]_handoverVars
  PROVE  HandlerInv' /\ (mainLoop' => mainLoop)
  <1> USE DEF HandlerInv, flags, faultVars, mainVars, nfcVars, handlerVars
  <1>1. CASE Nfc
    BY <1>1 DEF Nfc, NfcHandsOver, NfcLoop, NfcRead, NfcReopened, NfcFails,
                NfcTryLock, TryLocked, NfcCopy, NfcUnlock, NfcSignal
  <1>2. CASE MainThread
    BY <1>2 DEF MainThread, Check, Lock, CondWait, Relock, Decide, Clear,
                AuthenticateKey, Fatal, EndSession, Unlock
  <1>3. CASE Handler
    BY <1>3 DEF Handler, ClearFlags, ForceUnlock, HandlerSignal
  <1> QED BY <1>1, <1>2, <1>3
          DEF HandoverNext, WakeSpuriously, AuthFatal, Terminate, MciSignal, handoverVars

\* The mutex excludes the two threads from each other as long as it is only
\* they that unlock it.
LEMMA MutexStep ==
  ASSUME HandoverTypeOK, HandlerInv, MutexInv, [HandoverNext]_handoverVars
  PROVE  MutexInv'
  <1> USE DEF MutexInv, flags, faultVars, mainVars, nfcVars, handlerVars
  <1>1. CASE Nfc
    <2>1. CASE NfcLoop \/ NfcReopened \/ NfcFails \/ \E r \in Readings : NfcRead(r)
      BY <2>1 DEF NfcLoop, NfcRead, NfcReopened, NfcFails
    <2>2. CASE NfcTryLock BY <2>2 DEF NfcTryLock, TryLocked
    <2>3. CASE \E h \in Halves : NfcCopy(h) BY <2>3 DEF NfcCopy
    <2>4. CASE NfcUnlock BY <2>4 DEF NfcUnlock
    <2>5. CASE NfcSignal BY <2>5 DEF NfcSignal, Wake
    <2> QED BY <1>1, <2>1, <2>2, <2>3, <2>4, <2>5 DEF Nfc, NfcHandsOver
  <1>2. CASE MainThread
    <2>1. CASE Check BY <2>1 DEF Check
    <2>2. CASE Lock BY <2>2 DEF Lock
    <2>3. CASE CondWait BY <2>3 DEF CondWait
    <2>4. CASE Relock BY <2>4 DEF Relock
    <2>5. CASE Decide BY <2>5 DEF Decide
    <2>6. CASE \E h \in Halves : Clear(h) BY <2>6 DEF Clear
    <2>7. CASE AuthenticateKey BY <2>7 DEF AuthenticateKey
    <2>8. CASE Fatal BY <2>8 DEF Fatal
    <2>9. CASE EndSession BY <2>9 DEF EndSession
    <2>10. CASE Unlock BY <2>10 DEF Unlock
    <2> QED BY <1>2, <2>1, <2>2, <2>3, <2>4, <2>5, <2>6, <2>7, <2>8, <2>9, <2>10
            DEF MainThread
  <1>3. CASE Handler
    BY <1>3 DEF Handler, ClearFlags, ForceUnlock, HandlerSignal, Wake, HandlerInv
  <1> QED BY <1>1, <1>2, <1>3
          DEF HandoverNext, WakeSpuriously, AuthFatal, Terminate, MciSignal, handoverVars

\* What the nfc thread does to the readings.
LEMMA FreshStep ==
  ASSUME HandoverInv, [HandoverNext]_handoverVars, NEW r \in Readings
  PROVE  FreshInv(r)'
  <1>a. FreshInv(r) /\ key \in Buffer /\ keyBuf \in Readings \cup {Zero}
    BY DEF HandoverInv, HandoverTypeOK
  <1> USE DEF FreshInv, flags, faultVars, mainVars, nfcVars, handlerVars
  <1>1. CASE NfcLoop
    BY <1>a, <1>1 DEF NfcLoop
  <1>2. ASSUME NEW q \in Readings, NfcRead(q) PROVE FreshInv(r)'
    BY <1>a, <1>2 DEF NfcRead
  <1>3. CASE NfcTryLock
    BY <1>a, <1>3 DEF NfcTryLock, TryLocked, Halves
  <1>4. ASSUME NEW h \in Halves, NfcCopy(h) PROVE FreshInv(r)'
    <2>1. key'[h] = keyBuf /\ \A g \in Halves : g # h => key'[g] = key[g]
      BY <1>a, <1>4, WriteHalf DEF NfcCopy
    <2>2. r \in unread' => keyBuf' # r /\ \A g \in Halves : key'[g] # r
      BY <1>a, <1>4, <2>1 DEF NfcCopy
    <2>3. nfc' = "copy" => toCopy' # {}
      BY <1>4 DEF NfcCopy
    <2>4. ASSUME keyBuf' = r, NEW g \in toCopy' PROVE key'[g] # r
      <3>1. toCopy \in SUBSET Halves BY DEF HandoverInv, HandoverTypeOK
      <3>2. g # h /\ g \in toCopy /\ keyBuf = r
        BY <1>4, <2>4 DEF NfcCopy
      <3> QED BY <1>a, <1>4, <2>1, <3>1, <3>2 DEF NfcCopy
    <2>5. nfc' # "trylock"
      BY <1>4 DEF NfcCopy
    <2> QED BY <2>2, <2>3, <2>4, <2>5
  <1>5. ASSUME NEW h \in Halves, Clear(h) PROVE FreshInv(r)'
    <2>1. \A g \in Halves : key'[g] \in {key[g], Zero}
      BY <1>a, <1>5, WriteHalf DEF Clear
    <2>2. toCopy \in SUBSET Halves BY DEF HandoverInv, HandoverTypeOK
    <2> QED BY <1>a, <1>5, <2>1, <2>2 DEF Clear
  <1>6. CASE NfcReopened \/ NfcFails \/ NfcUnlock \/ NfcSignal
    BY <1>a, <1>6 DEF NfcReopened, NfcFails, NfcUnlock, NfcSignal
  <1>7. CASE Check \/ Lock \/ CondWait \/ Relock \/ Decide
    BY <1>a, <1>7 DEF Check, Lock, CondWait, Relock, Decide
  <1>8. CASE AuthenticateKey \/ Fatal \/ EndSession \/ Unlock
    BY <1>a, <1>8 DEF AuthenticateKey, Fatal, EndSession, Unlock
  <1>9. CASE Handler
    BY <1>a, <1>9 DEF Handler, ClearFlags, ForceUnlock, HandlerSignal
  <1>10. CASE \/ WakeSpuriously \/ AuthFatal \/ MciSignal
              \/ \E t \in {"controller", "other"} : Terminate(t)
    BY <1>a, <1>10 DEF WakeSpuriously, AuthFatal, MciSignal, Terminate
  <1>11. CASE UNCHANGED handoverVars
    BY <1>a, <1>11 DEF handoverVars
  <1> QED BY <1>1, <1>2, <1>3, <1>4, <1>5, <1>6, <1>7, <1>8, <1>9, <1>10, <1>11
          DEF HandoverNext, Nfc, NfcHandsOver, MainThread

\* A step that leaves the buffer, the controller's place and the past alone.
LEMMA SpentKept ==
  ASSUME HandoverInv, NEW r \in Readings, SpentInv(r),
         UNCHANGED <<key, served, toClear>>, unread' \subseteq unread,
         \/ UNCHANGED main
         \/ main \notin {"session", "clear"},
         \/ UNCHANGED <<nfc, keyBuf>>
         \/ nfc' \notin {"trylock", "copy"}
  PROVE  SpentInv(r)'
  BY DEF SpentInv

LEMMA SpentStep ==
  ASSUME HandoverInv, [HandoverNext]_handoverVars, NEW r \in Readings
  PROVE  SpentInv(r)'
  <1>a. /\ SpentInv(r) /\ FreshInv(r)
        /\ key \in Buffer /\ keyBuf \in Readings \cup {Zero}
        /\ served \in [Readings -> Nat]
        /\ toClear \in SUBSET Halves /\ toCopy \in SUBSET Halves
    BY DEF HandoverInv, HandoverTypeOK
  <1> USE DEF flags, faultVars, mainVars, nfcVars, handlerVars
  <1>1. CASE NfcLoop \/ NfcReopened \/ NfcFails \/ NfcUnlock
    BY <1>a, <1>1, SpentKept DEF NfcLoop, NfcReopened, NfcFails, NfcUnlock
  <1>2. CASE NfcSignal
    BY <1>a, <1>2, SpentKept DEF NfcSignal, Wake
  <1>3. ASSUME NEW q \in Readings, NfcRead(q) PROVE SpentInv(r)'
    BY <1>a, <1>3 DEF NfcRead, SpentInv
  <1>4. CASE NfcTryLock
    BY <1>a, <1>4 DEF NfcTryLock, TryLocked, SpentInv
  <1>5. ASSUME NEW h \in Halves, NfcCopy(h) PROVE SpentInv(r)'
    <2>1. /\ nfc = "copy"
          /\ UNCHANGED <<served, unread, keyBuf, main, toClear>>
      BY <1>5 DEF NfcCopy
    <2>2. served[r] >= 1 => keyBuf # r
      BY <1>a, <2>1 DEF SpentInv
    <2>3. served[r] >= 1 => key' # Whole(r)
      BY <1>a, <1>5, <2>2, WriteHalf DEF NfcCopy
    <2> QED BY <1>a, <2>1, <2>2, <2>3 DEF SpentInv
  <1>6. CASE Check \/ Lock \/ CondWait \/ Relock \/ Fatal \/ Unlock
    BY <1>a, <1>6, SpentKept DEF Check, Lock, CondWait, Relock, Fatal, Unlock
  <1>7. CASE Decide
    BY <1>a, <1>7 DEF Decide, SpentInv
  <1>8. ASSUME NEW h \in Halves, Clear(h) PROVE SpentInv(r)'
    <2>1. key' # Whole(r)
      BY <1>a, <1>8, WriteHalf DEF Clear
    <2> QED BY <1>a, <1>8, <2>1 DEF Clear, SpentInv
  <1>9. CASE AuthenticateKey
    <2>1. served'[r] = served[r] + IF key = Whole(r) THEN 1 ELSE 0
      BY <1>9 DEF AuthenticateKey
    <2>2. /\ main = "auth" /\ main' = "session"
          /\ UNCHANGED <<key, toClear, nfc, keyBuf, toCopy, unread>>
      BY <1>9 DEF AuthenticateKey
    <2>3. CASE key = Whole(r)
      <3>1. served[r] = 0
        BY <1>a, <2>2, <2>3 DEF SpentInv
      <3>2. \A h \in Halves : key[h] = r
        BY <2>3 DEF Whole
      <3>3. r \notin unread /\ ~(nfc \in {"trylock", "copy"} /\ keyBuf = r)
        BY <1>a, <3>2 DEF FreshInv, Halves
      <3> QED BY <2>1, <2>2, <2>3, <3>1, <3>3 DEF SpentInv
    <2>4. CASE key # Whole(r)
      BY <1>a, <2>1, <2>2, <2>4 DEF SpentInv
    <2> QED BY <2>3, <2>4
  <1>10. CASE EndSession
    BY <1>a, <1>10 DEF EndSession, SpentInv
  <1>11. CASE Handler
    BY <1>a, <1>11, SpentKept DEF Handler, ClearFlags, ForceUnlock, HandlerSignal, Wake
  <1>12. CASE \/ WakeSpuriously \/ AuthFatal \/ MciSignal
              \/ \E t \in {"controller", "other"} : Terminate(t)
    BY <1>a, <1>12, SpentKept DEF WakeSpuriously, AuthFatal, MciSignal, Terminate
  <1>13. CASE UNCHANGED handoverVars
    BY <1>a, <1>13, SpentKept DEF handoverVars
  <1> QED BY <1>1, <1>2, <1>3, <1>4, <1>5, <1>6, <1>7, <1>8, <1>9, <1>10, <1>11,
             <1>12, <1>13
          DEF HandoverNext, Nfc, NfcHandsOver, MainThread

LEMMA HandoverNextInv == HandoverInv /\ [HandoverNext]_handoverVars => HandoverInv'
  BY HandoverTypeStep, HandlerStep, MutexStep, FreshStep, SpentStep DEF HandoverInv

-----------------------------------------------------------------------------
\* The inductive invariant of the handover.
THEOREM HandoverInvariance == HandoverSpec => []HandoverInv
  BY HandoverInitInv, HandoverNextInv, PTL DEF HandoverSpec

\* The types of the handover's state (nfc.c, controller.c, rpi-ctrl.c).
THEOREM HandoverTypeCorrect == HandoverSpec => []HandoverTypeOK
  <1>1. HandoverInv => HandoverTypeOK BY DEF HandoverInv
  <1> QED BY <1>1, HandoverInvariance, PTL

\* A card put on the reader once opens one session at most, whenever signals,
\* spurious wakeups and faults of the interface come, and even when a shutdown
\* has freed the mutex under the thread that held it.
THEOREM OneSessionPerReading == HandoverSpec => []ServedOnce
  <1>1. HandoverInv => ServedOnce
    <2> SUFFICES ASSUME HandoverInv, NEW r \in Readings PROVE served[r] <= 1
      BY DEF ServedOnce
    <2>1. served[r] \in Nat /\ SpentInv(r) BY DEF HandoverInv, HandoverTypeOK
    <2> QED BY <2>1 DEF SpentInv
  <1> QED BY <1>1, HandoverInvariance, PTL

\* Only the nfc thread's copy and the controller's memset write the buffer,
\* and neither does while the controller authenticates a key and serves the
\* session it opened, before the handler of a shutdown has freed the mutex.
THEOREM BufferStandsStill == HandoverSpec => SessionKeyStays
  <1>1. ASSUME HandoverInv, [HandoverNext]_handoverVars
        PROVE  [(main \in {"auth", "session"} /\ (mainLoop \/ mutex = "controller"))
                  => UNCHANGED key]_handoverVars
    <2> SUFFICES ASSUME main \in {"auth", "session"}, mainLoop \/ mutex = "controller",
                        HandoverNext
                 PROVE  UNCHANGED key
      BY <1>1
    <2>1. nfc # "copy"
      BY <1>1 DEF HandoverInv, MutexInv
    <2> USE DEF flags, faultVars, mainVars, nfcVars, handlerVars
    <2>2. CASE Nfc
      BY <2>1, <2>2 DEF Nfc, NfcHandsOver, NfcLoop, NfcRead, NfcReopened, NfcFails,
                        NfcTryLock, TryLocked, NfcCopy, NfcUnlock, NfcSignal
    <2>3. CASE MainThread
      BY <2>3 DEF MainThread, Check, Lock, CondWait, Relock, Decide, Clear,
                  AuthenticateKey, Fatal, EndSession, Unlock
    <2>4. CASE Handler
      BY <2>4 DEF Handler, ClearFlags, ForceUnlock, HandlerSignal
    <2> QED BY <2>2, <2>3, <2>4
            DEF HandoverNext, WakeSpuriously, AuthFatal, Terminate, MciSignal
  <1> QED BY <1>1, HandoverInvariance, PTL DEF HandoverSpec, SessionKeyStays

-----------------------------------------------------------------------------
(* The link to the machine, MciLink. *)

LinkInv == LinkTypeOK /\ ErrorFlagAgrees

\* What open returns is a descriptor.
LEMMA LowestIsFd == LowestFree \subseteq Fds
  BY DEF LowestFree, Free

LEMMA LinkInitInv == LinkInit => LinkInv
  <1>1. 0 \in Fds
    BY LinkAssumption DEF Fds
  <1>2. interrupts = 0 => interrupts \in 0 .. MaxInterrupts
    BY LinkAssumption
  <1> QED
    BY <1>1, <1>2 DEF LinkInit, LinkInv, LinkTypeOK, ErrorFlagAgrees

\* A turn of the loop changes the flag together with what it stands for.
LEMMA LinkThread == LinkInv /\ MciThread => LinkInv'
  <1> SUFFICES ASSUME LinkInv, MciThread PROVE LinkInv'
    OBVIOUS
  <1> USE DEF LinkInv, LinkTypeOK, ErrorFlagAgrees
  <1>1. CASE Ready
    <2>1. Selecting /\ hasError' = FALSE /\ unplugged' = FALSE
          /\ pc' \in {"read", "select"}
      <3>1. Selecting /\ pc = "select" /\ loop /\ hasError = unplugged
        BY <1>1 DEF Ready, ReadyWhen, Selecting
      <3>2. pc' \in {"read", "select"}
        BY <1>1 DEF Ready, ReadyWhen
      <3>3. CASE unplugged
        BY <1>1, <3>1, <3>2, <3>3 DEF Ready, ReadyWhen, Raised
      <3>4. CASE ~unplugged
        BY <1>1, <3>1, <3>2, <3>4 DEF Ready, ReadyWhen
      <3> QED
        BY <3>3, <3>4
    <2>2. loop' = loop /\ ttyFd' = ttyFd /\ master' = master
          /\ others' = others /\ line' = line /\ interrupts' = interrupts
      BY <1>1 DEF Ready, ReadyWhen
    <2> QED
      BY <2>1, <2>2
  <1>2. CASE TimesOut
    <2>1. hasError' /\ unplugged' /\ pc' = "select"
      BY <1>2 DEF TimesOut, Raised, Selecting
    <2> QED
      BY <1>2, <2>1 DEF TimesOut
  <1>3. CASE SelectFails
    BY <1>3 DEF SelectFails, Reconnects, Selecting
  <1>4. CASE ReadRequest
    BY <1>4 DEF ReadRequest
  <1>5. CASE ReadFails
    BY <1>5 DEF ReadFails, Raised
  <1>6. CASE Reopened
    <2>1. PICK fd \in LowestFree : ReopenedAs(fd, master)
      BY <1>6 DEF Reopened
    <2>2. ttyFd' \in Fds /\ master' = master /\ others' = others
          /\ interrupts' = interrupts
      BY <2>1, LowestIsFd DEF ReopenedAs
    <2>3. pc = "reopen" /\ pc' = "select" /\ unplugged' = FALSE
          /\ line' = line /\ loop' = loop
          /\ hasError' \in BOOLEAN /\ (loop => hasError' = FALSE)
      <3>1. CASE loop
        BY <2>1, <3>1 DEF ReopenedAs, Raised
      <3>2. CASE ~loop
        BY <2>1, <3>2 DEF ReopenedAs
      <3> QED
        BY <3>1, <3>2
    <2> QED
      BY <2>2, <2>3
  <1>7. CASE StillClosed
    BY <1>7 DEF StillClosed
  <1>8. CASE Retried
    BY <1>8, LowestIsFd DEF Retried
  <1>9. CASE GivesUp
    BY <1>9 DEF GivesUp
  <1>10. CASE Exit
    BY <1>10 DEF Exit
  <1> QED
    BY <1>1, <1>2, <1>3, <1>4, <1>5, <1>6, <1>7, <1>8, <1>9, <1>10
    DEF MciThread

LEMMA LinkNextInv == LinkInv /\ [LinkNext]_linkVars => LinkInv'
  <1> SUFFICES ASSUME LinkInv, [LinkNext]_linkVars PROVE LinkInv'
    OBVIOUS
  <1>1. CASE MciThread
    BY <1>1, LinkThread
  <1> USE DEF LinkInv, LinkTypeOK, ErrorFlagAgrees
  <1>2. CASE OtherOpens
    BY <1>2, LowestIsFd DEF OtherOpens
  <1>3. CASE \E f \in others : OtherCloses(f)
    BY <1>3 DEF OtherCloses
  <1>4. CASE \E l \in {"up", "silent", "gone"} : LineChanges(l)
    BY <1>4 DEF LineChanges
  <1>5. CASE ClearLoop
    BY <1>5 DEF ClearLoop
  <1>6. CASE Interrupted
    <2>1. interrupts' \in 0 .. MaxInterrupts
      BY <1>6, LinkAssumption DEF Interrupted
    <2> QED
      BY <1>6, <2>1 DEF Interrupted, Reconnects
  <1>7. CASE UNCHANGED linkVars
    BY <1>7 DEF linkVars
  <1> QED
    BY <1>1, <1>2, <1>3, <1>4, <1>5, <1>6, <1>7 DEF LinkNext

\* A toggle at each raise keeps LinkInv, whatever line and threads do.
THEOREM LinkInvariance == LinkSpec => []LinkInv
  BY LinkInitInv, LinkNextInv, PTL DEF LinkSpec

\* Every variable of the link keeps its type.
THEOREM LinkTypeCorrect == LinkSpec => []LinkTypeOK
  <1>1. LinkInv => LinkTypeOK
    BY DEF LinkInv
  <1> QED
    BY LinkInvariance, <1>1, PTL

\* mci_has_error, which only ever toggles, never gets out of step with what
\* the mci thread knows of the line.
THEOREM FlagAgrees == LinkSpec => []ErrorFlagAgrees
  <1>1. LinkInv => ErrorFlagAgrees
    BY DEF LinkInv
  <1> QED
    BY LinkInvariance, <1>1, PTL
===============================================================================
