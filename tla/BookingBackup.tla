---------------------------- MODULE BookingBackup ----------------------------
(***************************************************************************)
(* What becomes of a booking once a cup was poured.  The controller        *)
(* (controller.c) pushes it to the server and stores it in the backup file *)
(* if that failed; after the next booking that succeeds it starts a        *)
(* detached thread (read_write_backup_file.c) which moves the backup file  *)
(* to a tmp file and pushes it line by line, restoring what fails.         *)
(*                                                                         *)
(* Files are bags of bookings: the order of lines is left out, so the      *)
(* thread may read any line of the tmp file next.  The fcntl locks are     *)
(* left out because they exclude nobody: both users are threads of one     *)
(* process, and the thread asks for a write lock on a descriptor it opened *)
(* for reading.  No result but that of fopen is looked at: a file may fail *)
(* at every other call unnoticed.  The files as last written and the       *)
(* server survive a crash.                                                 *)
(***************************************************************************)
EXTENDS Naturals

CONSTANTS
  Bookings,     \* the bookings followed
  Poison,       \* those the server answers with 400 whenever they come
  None,         \* no booking
  FileFails,    \* may fopen, freopen, fprintf, fflush and fgets fail
  CreateFails,  \* may pthread_create fail
  MaxFaults,    \* bound on these, lost replies and refusals of good bookings
  MaxStops      \* bound on signals and crashes

ASSUME BookingsAssumption ==
  /\ Poison \subseteq Bookings
  /\ None \notin Bookings
  /\ FileFails \in BOOLEAN
  /\ CreateFails \in BOOLEAN
  /\ MaxFaults \in Nat
  /\ MaxStops \in Nat

VARIABLES
  mainLoop,     \* main_loop
  ctl,          \* where the controller is
  cur,          \* the booking it holds (raw_root_json_str)
  startThread,  \* start_thread
  thread,       \* where the catch-up thread is
  line,         \* the line it holds (puffer)
  backup,       \* lines of the backup file
  tmp,          \* lines of the tmp file not yet read
  ledger,       \* how often the server booked each booking
  \* history
  taken,        \* the bookings handed over by a session
  unanswered,   \* how often the server booked without the client learning it
  doubled,      \* how often a copied line stayed in the backup file as well
  exposed,      \* bookings that met a crash, a file error or the copy race
  faults,       \* failures so far
  stops         \* signals and crashes so far

ctlVars    == <<ctl, cur, startThread>>
threadVars == <<thread, line, tmp>>
serverVars == <<ledger, unanswered>>
vars       == <<mainLoop, ctl, cur, startThread, thread, line, backup, tmp,
                ledger, taken, unanswered, doubled, exposed, faults, stops>>

Bag   == [Bookings -> Nat]
Empty == [b \in Bookings |-> 0]

Add(f, b)  == [f EXCEPT ![b] = @ + 1]
Drop(f, b) == [f EXCEPT ![b] = @ - 1]

\* The thread's work while the tmp file is the only place its lines are in.
Draining == {"next", "send", "restore"}

TypeOK ==
  /\ mainLoop \in BOOLEAN
  /\ ctl \in {"idle", "push", "store", "check", "create"}
  /\ cur \in Bookings \cup {None}
  /\ startThread \in BOOLEAN
  /\ thread \in {"none", "open", "copy", "truncate"} \cup Draining
  /\ line \in Bookings \cup {None}
  /\ backup \in Bag
  /\ tmp \in Bag
  /\ ledger \in Bag
  /\ taken \subseteq Bookings
  /\ unanswered \in Bag
  /\ doubled \in Bag
  /\ exposed \subseteq Bookings
  /\ faults \in 0..MaxFaults
  /\ stops \in 0..MaxStops

Init ==
  /\ mainLoop = TRUE
  /\ ctl = "idle"
  /\ cur = None
  /\ startThread = FALSE
  /\ thread = "none"
  /\ line = None
  /\ backup = Empty
  /\ tmp = Empty
  /\ ledger = Empty
  /\ taken = {}
  /\ unanswered = Empty
  /\ doubled = Empty
  /\ exposed = {}
  /\ faults = 0
  /\ stops = 0

Fault == faults < MaxFaults /\ faults' = faults + 1
Stop  == stops < MaxStops /\ stops' = stops + 1

-----------------------------------------------------------------------------
(* The server, as a pushed booking meets it *)

\* It books and says so.
Booked(b) ==
  /\ b \notin Poison
  /\ ledger' = Add(ledger, b)
  /\ UNCHANGED <<unanswered, faults>>

\* It books, but the reply is lost, late or not understood.
BookedUnanswered(b) ==
  /\ b \notin Poison
  /\ Fault
  /\ ledger' = Add(ledger, b)
  /\ unanswered' = Add(unanswered, b)

\* It cannot be reached, fails, or refuses the booking.
NotBooked(b) ==
  /\ (b \in Poison /\ UNCHANGED faults) \/ Fault
  /\ UNCHANGED serverVars

BugStoreForgets(b) == UNCHANGED <<backup, exposed, faults>>

\* write_in_backup_file.  A full disk shows at fflush, whose result nobody
\* reads, and a failed open is only logged: the line is gone either way, or
\* broken off, and the server refuses what is left of it and of the line
\* written onto its end (a fault of its own here).
WriteInBackup(b) ==
  \/ backup' = Add(backup, b) /\ UNCHANGED <<exposed, faults>>
  \/ FileFails /\ Fault /\ exposed' = exposed \cup {b} /\ UNCHANGED backup

-----------------------------------------------------------------------------
(* The controller *)

\* A session ends with a booking to make.
TakeBooking(b) ==
  /\ ctl = "idle"
  /\ mainLoop
  /\ b \notin taken
  /\ taken' = taken \cup {b}
  /\ cur' = b
  /\ ctl' = "push"
  /\ UNCHANGED <<mainLoop, startThread, backup, doubled, exposed, faults, stops>>
  /\ UNCHANGED threadVars
  /\ UNCHANGED serverVars

\* The booking of someone not followed here succeeds.
OtherBooking ==
  /\ ctl = "idle"
  /\ mainLoop
  /\ ctl' = "check"
  /\ UNCHANGED <<mainLoop, cur, startThread, backup, taken, doubled, exposed,
                 faults, stops>>
  /\ UNCHANGED threadVars
  /\ UNCHANGED serverVars

Push ==
  /\ ctl = "push"
  /\ \/ Booked(cur) /\ ctl' = "check" /\ cur' = None
     \/ BookedUnanswered(cur) /\ ctl' = "store" /\ UNCHANGED cur
     \/ NotBooked(cur) /\ ctl' = "store" /\ UNCHANGED cur
  /\ UNCHANGED <<mainLoop, startThread, backup, taken, doubled, exposed, stops>>
  /\ UNCHANGED threadVars

\* When the push could not even start, SIGTERM follows: see Terminate.
Store ==
  /\ ctl = "store"
  /\ WriteInBackup(cur)
  /\ cur' = None
  /\ ctl' = "idle"
  /\ UNCHANGED <<mainLoop, startThread, taken, doubled, stops>>
  /\ UNCHANGED threadVars
  /\ UNCHANGED serverVars

CheckWhen(mayStart) ==
  /\ ctl = "check"
  /\ \/ /\ mayStart
        /\ backup # Empty
        /\ startThread' = TRUE
        /\ ctl' = "create"
        /\ UNCHANGED faults
     \/ /\ \/ (~mayStart \/ backup = Empty) /\ UNCHANGED faults
           \/ mayStart /\ FileFails /\ Fault
        /\ ctl' = "idle"
        /\ UNCHANGED startThread
  /\ UNCHANGED <<mainLoop, cur, backup, taken, doubled, exposed, stops>>
  /\ UNCHANGED threadVars
  /\ UNCHANGED serverVars

\* have_unprocessed_bookings, unless a thread is at it already.
Check == CheckWhen(~startThread)

Create ==
  /\ ctl = "create"
  /\ ctl' = "idle"
  /\ \/ thread' = "open" /\ UNCHANGED faults
     \/ CreateFails /\ Fault /\ UNCHANGED thread
  /\ UNCHANGED <<mainLoop, cur, startThread, line, backup, tmp, taken,
                 doubled, exposed, stops>>
  /\ UNCHANGED serverVars

\* sig_usr on SIGINT or SIGTERM: the session that runs is finished first.
Terminate ==
  /\ mainLoop
  /\ Stop
  /\ mainLoop' = FALSE
  /\ UNCHANGED <<backup, taken, doubled, exposed, faults>>
  /\ UNCHANGED ctlVars
  /\ UNCHANGED threadVars
  /\ UNCHANGED serverVars

-----------------------------------------------------------------------------
(* The catch-up thread *)

\* Both files; the tmp file is emptied.  A failed open returns past the
\* cleanup handler, and the flag stays set.
Open ==
  /\ thread = "open"
  /\ \/ thread' = "copy" /\ tmp' = Empty /\ UNCHANGED faults
     \/ FileFails /\ Fault /\ thread' = "none" /\ UNCHANGED tmp
  /\ UNCHANGED <<mainLoop, line, backup, taken, doubled, exposed, stops>>
  /\ UNCHANGED ctlVars
  /\ UNCHANGED serverVars

\* Lines of the file bag.
PartsOf(bag) ==
  {part \in [Bookings -> UNION {0 .. bag[b] : b \in Bookings}] :
     \A b \in Bookings : part[b] <= bag[b]}

\* fgets until it returns NULL: at the end of the file, or when reading fails.
\* Nobody looks whether what was written reached the tmp file.
Copy ==
  /\ thread = "copy"
  /\ \/ tmp' = backup /\ UNCHANGED faults
     \/ FileFails /\ Fault /\ tmp' \in PartsOf(backup)
  /\ thread' = "truncate"
  /\ UNCHANGED <<mainLoop, line, backup, taken, doubled, exposed, stops>>
  /\ UNCHANGED ctlVars
  /\ UNCHANGED serverVars

BugNotTruncated == backup

\* freopen with mode "w" empties the file.
Truncated == Empty

\* When it fails nobody notices: the lines of the tmp file are sent all the
\* same, and those of the backup file come up again with the next thread.
Truncate ==
  /\ thread = "truncate"
  /\ \/ /\ backup' = Truncated
        /\ exposed' = exposed \cup {b \in Bookings : backup[b] > tmp[b]}
        /\ UNCHANGED <<doubled, faults>>
     \/ /\ FileFails /\ Fault
        /\ doubled' = [b \in Bookings |-> doubled[b] + tmp[b]]
        /\ UNCHANGED <<backup, exposed>>
  /\ thread' = "next"
  /\ UNCHANGED <<mainLoop, line, tmp, taken, stops>>
  /\ UNCHANGED ctlVars
  /\ UNCHANGED serverVars

HasLine(b) == tmp[b] > 0

\* One line of the tmp file.
NextLine ==
  /\ thread = "next"
  /\ \E b \in Bookings : HasLine(b) /\ line' = b /\ tmp' = Drop(tmp, b)
  /\ thread' = "send"
  /\ UNCHANGED <<mainLoop, backup, taken, doubled, exposed, faults, stops>>
  /\ UNCHANGED ctlVars
  /\ UNCHANGED serverVars

Send ==
  /\ thread = "send"
  /\ \/ Booked(line) /\ thread' = "next" /\ line' = None
     \/ BookedUnanswered(line) /\ thread' = "restore" /\ UNCHANGED line
     \/ NotBooked(line) /\ thread' = "restore" /\ UNCHANGED line
  /\ UNCHANGED <<mainLoop, tmp, backup, taken, doubled, exposed, stops>>
  /\ UNCHANGED ctlVars

RestoreThen(place, flag) ==
  /\ thread = "restore"
  /\ WriteInBackup(line)
  /\ line' = None
  /\ thread' = place
  /\ startThread' = flag
  /\ UNCHANGED <<mainLoop, ctl, cur, tmp, taken, doubled, stops>>
  /\ UNCHANGED serverVars

BugStopsAtFailure == RestoreThen("none", FALSE)

\* What was not booked goes back to the backup file; the next line is tried.
Restore == RestoreThen("next", startThread)

\* The tmp file is read to its end, or fgets fails and it looks so.  The
\* cleanup handler of the thread clears start_thread.
Exit ==
  /\ thread = "next"
  /\ \/ tmp = Empty /\ UNCHANGED <<exposed, faults>>
     \/ /\ tmp # Empty
        /\ FileFails /\ Fault
        /\ exposed' = exposed \cup {b \in Bookings : tmp[b] > 0}
  /\ thread' = "none"
  /\ startThread' = FALSE
  /\ UNCHANGED <<mainLoop, ctl, cur, line, tmp, backup, taken, doubled, stops>>
  /\ UNCHANGED serverVars

-----------------------------------------------------------------------------
(* The process ends and is started again.  Nobody joins the thread. *)

Restarted ==
  /\ mainLoop' = TRUE
  /\ ctl' = "idle"
  /\ cur' = None
  /\ startThread' = FALSE
  /\ thread' = "none"
  /\ line' = None
  /\ exposed' = exposed \cup ({cur, line} \ {None})
                  \cup {b \in Bookings : thread \in Draining /\ tmp[b] > 0}
  /\ UNCHANGED <<tmp, backup, taken, doubled, faults>>
  /\ UNCHANGED serverVars

\* main returns.
Shutdown ==
  /\ ctl = "idle"
  /\ ~mainLoop
  /\ Restarted
  /\ UNCHANGED stops

\* The process is killed, or the machine stops with the files as written.
Crash == Stop /\ Restarted

-----------------------------------------------------------------------------
Controller == Push \/ Store \/ Check \/ Create \/ Shutdown
CatchUp == Open \/ Copy \/ Truncate \/ NextLine \/ Send \/ Restore \/ Exit

Next ==
  \/ \E b \in Bookings : TakeBooking(b)
  \/ OtherBooking
  \/ Controller
  \/ Terminate
  \/ CatchUp
  \/ Crash

Spec == Init /\ [][Next]_vars

\* The threads are scheduled, and every transfer ends.
FairSpec == Spec /\ WF_vars(Controller) /\ WF_vars(CatchUp)

\* And bookings keep coming whenever the machine is idle.
BusySpec == FairSpec /\ WF_vars(OtherBooking)

-----------------------------------------------------------------------------
(* Properties *)

One(p) == IF p THEN 1 ELSE 0

\* Where booking b is: booked, in the backup file, in the part of the tmp
\* file that only the thread knows, or in somebody's hands.
Account(b) ==
  ledger[b] + backup[b] + (IF thread \in Draining THEN tmp[b] ELSE 0)
    + One(cur = b) + One(line = b)

\* A booking is charged once more than it was handed over only for each time
\* the server had booked it and the client could not know, and for each time a
\* truncation failed after its line was copied: neither crashes nor what else
\* may happen to the two files, in whatever order, multiply a booking.
BookedOnce ==
  \A b \in Bookings :
    Account(b) <= One(b \in taken) + unanswered[b] + doubled[b]

\* A booking that met no crash in somebody's hands or in the drained tmp
\* file, no failing write or read and no append between copy and truncation
\* is never lost, whatever happens to the others.
NothingElseLost ==
  \A b \in taken \ exposed : Account(b) = 1 + unanswered[b] + doubled[b]

\* No second catch-up thread is ever created beside the first: the two would
\* empty each other's tmp file.
SingleCatchUp == ctl = "create" => thread = "none"

\* The flag without a thread that would clear it: read_write_backup_file.c:147,
\* :155 and controller.c:418-423 leave it so until the controller restarts.
Stuck == startThread /\ thread = "none" /\ ctl # "create"

\* A stored booking the server accepts reaches it, as long as others book and
\* the flag is not stuck: one that is always refused does not hold up the rest.
StoredIsBooked ==
  \A b \in Bookings \ Poison :
    backup[b] > 0 ~> (ledger[b] > 0 \/ b \in exposed \/ Stuck)

\* "To avoid rage conditions at the backup file, the thread locks the file and
\* copy all unprocessed bookings" (read_write_backup_file.c:119-122): moving
\* the lines loses none.
MoveLosesNothing == \A b \in taken : Account(b) > 0

=============================================================================
