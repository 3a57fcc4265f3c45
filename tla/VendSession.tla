----------------------------- MODULE VendSession -----------------------------
(***************************************************************************)
(* One paid session at the coffee machine, as raspberryClient/controller   *)
(* runs it.  Three parties share the struct sdata (credits_available,      *)
(* offline_modus, enabled_products, selected_product):                     *)
(*                                                                         *)
(*   - the controller (main thread, controller.c), which publishes the     *)
(*     credit of an authenticated key, polls for a selection and books it; *)
(*   - the MCI thread (mci.c), which answers the Status and Inquiry        *)
(*     commands of the coffee machine from sdata;                          *)
(*   - SIGALRM, which ends the wait after TIMEOUT_AFTER_AUTH seconds.      *)
(*                                                                         *)
(* The machine's half of the CSI protocol is environment: it polls Status, *)
(* repeats an Inquiry whose answer it did not understand, and sends Status *)
(* once it did (the comment at mci.c:413-420).                             *)
(*                                                                         *)
(* A critical section of sdata->mutex is one action.  enabled_products is  *)
(* a pointer into the response resp of the running session: sdata.enabled  *)
(* says whether it is set, resp.live whether the response is still there.  *)
(***************************************************************************)
EXTENDS Naturals

CONSTANTS
  Items,        \* product numbers a button of the machine stands for
  HotWater,     \* the product that needs no authentication
  NoItem,       \* NO_ITEM_CHOOSEN
  NotEnough,    \* ITEM_CHOOSEN_BUT_NOT_ENOUGH_CREDIT
  MaxSessions   \* bound on the number of sessions of a behaviour

ASSUME ItemsAssumption ==
  /\ HotWater \in Items
  /\ NoItem \notin Items
  /\ NotEnough \notin Items
  /\ NoItem # NotEnough

ASSUME SessionsAssumption == MaxSessions \in Nat \ {0}

VARIABLES
  ctl,        \* where the controller is
  session,    \* number of the running session, or of the last one
  resp,       \* auth_resp: is it allocated, and what it allows
  loopWait,   \* loop_wait_for_button_press
  alarm,      \* is SIGALRM pending
  picked,     \* locals of the wait: key_is_pressed and pressed_key
  sdata,      \* the shared struct
  lastInq,    \* last_command_was_inquiry: 0 no, 1 granted, 2 refused
  machine,    \* what the coffee machine does next, and for which item
  \* history
  granted,    \* the item each session's credit was granted for
  cups,       \* cups poured on each session's credit, by item
  booked,     \* bookings of each session handed to the network, by item
  answerFor,  \* the session whose credit backs the cached answer, 0 if none
  charges     \* sessions charged since the button was pressed

ctlVars  == <<ctl, session, resp, loopWait, picked, booked>>
mciVars  == <<lastInq, machine, granted, cups, answerFor, charges>>
vars     == <<ctl, session, resp, loopWait, alarm, picked, sdata, lastInq,
              machine, granted, cups, booked, answerFor, charges>>

Sessions  == 1..MaxSessions
Selection == Items \cup {NoItem, NotEnough}

\* (Operators named Bug... are slips of the code one definition further down
\* could suffer; each is used to show that a property would notice.)

\* What enabled_products says of an item: not every item need be listed.
Offer == [Items -> {"enabled", "disabled", "unlisted"}]

NoOffer     == [i \in Items |-> "unlisted"]
NoSelection == [pressed |-> FALSE, key |-> NoItem]
Granted     == 1
Refused     == 2
Once(i)     == [j \in Items |-> IF j = i THEN 1 ELSE 0]
Never       == [j \in Items |-> 0]
AddOne(f, s, i) == [f EXCEPT ![s][i] = @ + 1]

\* The items the running session may be charged for.
Allowed(i) == resp.offline \/ resp.offer[i] = "enabled"

TypeOK ==
  /\ ctl \in {"idle", "wait", "publish", "poll", "recheck", "decide", "free"}
  /\ session \in 0..MaxSessions
  /\ resp \in [live: BOOLEAN, offline: BOOLEAN, offer: Offer]
  /\ loopWait \in BOOLEAN
  /\ alarm \in BOOLEAN
  /\ picked \in [pressed: BOOLEAN, key: Selection]
  /\ sdata \in [offline: BOOLEAN, enabled: BOOLEAN, credits: BOOLEAN,
                selected: Selection]
  /\ lastInq \in 0..2
  /\ machine \in [next: {"status", "ready", "inquiry"}, item: Items \cup {NoItem}]
  /\ granted \in [Sessions -> Items \cup {NoItem}]
  /\ cups \in [Sessions -> [Items -> Nat]]
  /\ booked \in [Sessions -> [Items -> Nat]]
  /\ answerFor \in 0..MaxSessions
  /\ charges \in Nat

Init ==
  /\ ctl = "idle"
  /\ session = 0
  /\ resp = [live |-> FALSE, offline |-> FALSE,
             offer |-> NoOffer]
  /\ loopWait = FALSE
  /\ alarm = FALSE
  /\ picked = NoSelection
  /\ sdata = [offline |-> FALSE, enabled |-> FALSE, credits |-> FALSE,
              selected |-> NoItem]
  /\ lastInq = 0
  /\ machine = [next |-> "status", item |-> NoItem]
  /\ granted = [s \in Sessions |-> NoItem]
  /\ cups = [s \in Sessions |-> Never]
  /\ booked = [s \in Sessions |-> Never]
  /\ answerFor = 0
  /\ charges = 0

-----------------------------------------------------------------------------
(* The controller *)

\* An authorised user (offline = FALSE, with the list the server sent) or a
\* server that could not be asked (offline = TRUE, no list).
Authenticate(offline, offer) ==
  /\ ctl = "idle"
  /\ session < MaxSessions
  /\ offline => offer = NoOffer
  /\ session' = session + 1
  /\ resp' = [live |-> TRUE, offline |-> offline, offer |-> offer]
  /\ ctl' = "wait"
  /\ UNCHANGED <<loopWait, alarm, picked, sdata, booked>>
  /\ UNCHANGED mciVars

StartWait ==
  /\ ctl = "wait"
  /\ loopWait' = TRUE
  /\ alarm' = TRUE
  /\ picked' = NoSelection
  /\ ctl' = "publish"
  /\ UNCHANGED <<session, resp, sdata, booked>>
  /\ UNCHANGED mciVars

BugPublishedStaysOffline ==
  [sdata EXCEPT !.offline = @ \/ resp.offline,
                !.enabled = @ \/ ~resp.offline,
                !.credits = TRUE]

\* The offline branch leaves enabled_products as it finds it.
Published ==
  [sdata EXCEPT !.offline = resp.offline,
                !.enabled = @ \/ ~resp.offline,
                !.credits = TRUE]

Publish ==
  /\ ctl = "publish"
  /\ sdata' = Published
  /\ ctl' = "poll"
  /\ UNCHANGED <<session, resp, loopWait, alarm, picked, booked>>
  /\ UNCHANGED mciVars

\* One turn of the loop that finds a selection.  The turn begins before the
\* alarm and may end after it.
PollSelected ==
  /\ ctl = "poll"
  /\ sdata.selected # NoItem
  /\ alarm' = FALSE
  /\ loopWait' = FALSE
  /\ picked' = [pressed |-> TRUE, key |-> sdata.selected]
  /\ sdata' = [sdata EXCEPT !.selected = NoItem, !.credits = FALSE]
  /\ UNCHANGED <<ctl, session, resp, booked>>
  /\ UNCHANGED mciVars

LeaveLoop ==
  /\ ctl = "poll"
  /\ ~loopWait
  /\ ctl' = "recheck"
  /\ UNCHANGED <<session, resp, loopWait, alarm, picked, sdata, booked>>
  /\ UNCHANGED mciVars

BugLatePickIgnored == picked

\* A button pressed while the alarm went off still counts.
LatePick ==
  IF ~picked.pressed /\ sdata.selected # NoItem
    THEN [picked EXCEPT !.key = sdata.selected]
    ELSE picked

BugSelectionKept == [sdata EXCEPT !.enabled = FALSE, !.credits = FALSE]

Cleared ==
  [sdata EXCEPT !.enabled = FALSE, !.credits = FALSE, !.selected = NoItem]

Recheck ==
  /\ ctl = "recheck"
  /\ picked' = LatePick
  /\ sdata' = Cleared
  /\ ctl' = "decide"
  /\ UNCHANGED <<session, resp, loopWait, alarm, booked>>
  /\ UNCHANGED mciVars

NoBooking ==
  /\ ctl = "decide"
  /\ picked.key \in {NoItem, NotEnough}
  /\ ctl' = "free"
  /\ UNCHANGED <<session, resp, loopWait, alarm, picked, sdata, booked>>
  /\ UNCHANGED mciVars

\* The booking is sent, or stored for later: BookingBackup takes it from here.
Book ==
  /\ ctl = "decide"
  /\ picked.key \notin {NoItem, NotEnough}
  /\ booked' = AddOne(booked, session, picked.key)
  /\ ctl' = "free"
  /\ UNCHANGED <<session, resp, loopWait, alarm, picked, sdata>>
  /\ UNCHANGED mciVars

FreeResponse ==
  /\ ctl = "free"
  /\ resp' = [resp EXCEPT !.live = FALSE]
  /\ ctl' = "idle"
  /\ UNCHANGED <<session, loopWait, alarm, picked, sdata, booked>>
  /\ UNCHANGED mciVars

AlarmSets(loop) ==
  /\ alarm
  /\ alarm' = FALSE
  /\ loopWait' = loop
  /\ UNCHANGED <<ctl, session, resp, picked, sdata, booked>>
  /\ UNCHANGED mciVars

BugAlarmIgnored == AlarmSets(loopWait)

\* catch_alarm
AlarmFires == AlarmSets(FALSE)

-----------------------------------------------------------------------------
(* The coffee machine and the MCI thread *)

\* Status ends an inquiry: the answer to it was understood.
StatusCommand ==
  /\ machine.next \in {"status", "ready"}
  /\ machine' = [next |-> "ready", item |-> NoItem]
  /\ lastInq' = 0
  /\ UNCHANGED <<alarm, sdata, granted, cups, answerFor, charges>>
  /\ UNCHANGED ctlVars

PressButton(i) ==
  /\ machine.next = "ready"
  /\ machine' = [next |-> "inquiry", item |-> i]
  /\ charges' = 0
  /\ UNCHANGED <<alarm, sdata, lastInq, granted, cups, answerFor>>
  /\ UNCHANGED ctlVars

\* The machine loses its power: it comes back polling.
PowerCycle ==
  /\ machine' = [next |-> "status", item |-> NoItem]
  /\ UNCHANGED <<alarm, sdata, lastInq, granted, cups, answerFor, charges>>
  /\ UNCHANGED ctlVars

\* The answer is understood, and HIGH pours a cup; or it is lost and the
\* machine will repeat the inquiry.
Answer(yes, account) ==
  \/ UNCHANGED <<machine, cups>>
  \/ /\ machine' = [next |-> "status", item |-> NoItem]
     /\ cups' = IF yes /\ account # 0
                  THEN AddOne(cups, account, machine.item)
                  ELSE cups

RepeatWith(inq) ==
  /\ lastInq # 0
  /\ Answer(lastInq = Granted, answerFor)
  /\ lastInq' = inq
  /\ UNCHANGED <<sdata, granted, answerFor, charges>>

\* The cached answer again, and nothing is charged.
RepeatedInquiry == RepeatWith(lastInq)

\* check_credit without a credit: hot water is free, all else is refused.
Uncredited ==
  /\ lastInq = 0
  /\ ~sdata.credits
  /\ lastInq' = IF machine.item = HotWater THEN Granted ELSE Refused
  /\ answerFor' = 0
  /\ Answer(machine.item = HotWater, 0)
  /\ UNCHANGED <<sdata, granted, charges>>

\* check_credit takes the credit for an item the session may have.
Grant ==
  /\ lastInq = 0
  /\ sdata.credits
  /\ sdata.offline \/ resp.offer[machine.item] = "enabled"
  /\ sdata' = [sdata EXCEPT !.selected = machine.item, !.credits = FALSE]
  /\ lastInq' = Granted
  /\ answerFor' = session
  /\ granted' = [granted EXCEPT ![session] = machine.item]
  /\ charges' = charges + 1
  /\ Answer(TRUE, session)

\* The credit is spent on the refusal, too.
Refuse ==
  /\ lastInq = 0
  /\ sdata.credits
  /\ ~sdata.offline
  /\ resp.offer[machine.item] = "disabled"
  /\ sdata' = [sdata EXCEPT !.selected = NotEnough, !.credits = FALSE]
  /\ lastInq' = Refused
  /\ answerFor' = 0
  /\ Answer(FALSE, 0)
  /\ UNCHANGED <<granted, charges>>

\* An item the server did not list: refused, and the credit stays.
NotListed ==
  /\ lastInq = 0
  /\ sdata.credits
  /\ ~sdata.offline
  /\ resp.offer[machine.item] = "unlisted"
  /\ lastInq' = Refused
  /\ answerFor' = 0
  /\ Answer(FALSE, 0)
  /\ UNCHANGED <<sdata, granted, charges>>

InquiryCommand ==
  /\ machine.next = "inquiry"
  /\ RepeatedInquiry \/ Uncredited \/ Grant \/ Refuse \/ NotListed
  /\ UNCHANGED alarm
  /\ UNCHANGED ctlVars

-----------------------------------------------------------------------------
Controller ==
  \/ StartWait
  \/ Publish
  \/ PollSelected
  \/ LeaveLoop
  \/ Recheck
  \/ NoBooking
  \/ Book
  \/ FreeResponse

Next ==
  \/ \E offline \in BOOLEAN, offer \in Offer : Authenticate(offline, offer)
  \/ Controller
  \/ AlarmFires
  \/ StatusCommand
  \/ \E i \in Items : PressButton(i)
  \/ PowerCycle
  \/ InquiryCommand

Spec == Init /\ [][Next]_vars

\* The threads are scheduled and the kernel delivers SIGALRM; users and the
\* machine owe nothing.
FairSpec == Spec /\ WF_vars(Controller) /\ WF_vars(AlarmFires)

-----------------------------------------------------------------------------
(* Properties *)

Over(s) == s < session \/ (s = session /\ ctl \in {"free", "idle"})

\* Whoever poured a cup on a session's credit is billed for it: when the
\* session is over, start_controller has sent a booking for that very item.
\* Timeout, polling and a late inquiry interleave in every order.
EveryCupIsBooked ==
  \A s \in Sessions, i \in Items :
    Over(s) => cups[s][i] <= booked[s][i]

\* A finished session has sent exactly one booking, for the item the MCI
\* thread told the machine to pour, and none if it granted nothing: a
\* selection that came with the alarm is neither lost nor inherited by the
\* next session.
OneBookingPerGrant ==
  \A s \in Sessions : Over(s) => booked[s] = Once(granted[s])

\* A session's credit never pours a second cup or another item, however
\* often an inquiry is repeated.
CupsWithinGrant ==
  \A s \in Sessions, i \in Items : cups[s][i] <= Once(granted[s])[i]

\* One press of a button is charged at most once, even if its inquiry is
\* repeated into a later session (mci.c:413-420).
ChargedOnce == charges <= 1

\* Nothing is taken twice: neither the booking of a session nor the machine's
\* charge for one press (controller.c:340-367, mci.c:411-431).
NothingTwice == OneBookingPerGrant /\ ChargedOnce

\* The grant of a session respects the list its own authentication brought:
\* neither the offline flag nor the list of an earlier session is used.
GrantIsAllowed ==
  session > 0 /\ granted[session] # NoItem => Allowed(granted[session])

\* check_credit follows enabled_products only while the response that holds
\* the list is allocated, and finds a list whenever it looks for one.
NoDanglingList ==
  /\ sdata.enabled => resp.live
  /\ sdata.credits /\ ~sdata.offline => sdata.enabled

\* No alarm outlives the wait it was set for: it would cut the next one.
NoStaleAlarm == alarm => ctl \in {"publish", "poll"} /\ loopWait

\* A session ends: by a selection or by the timeout.
SessionEnds == ctl # "idle" ~> ctl = "idle"

=============================================================================
