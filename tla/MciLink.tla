------------------------------ MODULE MciLink ------------------------------
(***************************************************************************)
(* The mci thread's hold on the serial line (th_start_mci_loop, mci.c),    *)
(* and mci_has_error, the flag the controller rejects keys by.  The thread *)
(* never writes the flag: it raises SIGUSR1 and the handler toggles, so    *)
(* that flag and fault agree only if every fault is signalled exactly      *)
(* twice.  The loop selects on `master', filled once before the loop with  *)
(* the descriptor the line had then; after an error it closes the line and *)
(* opens it again, and open gives the lowest descriptor that is free among *)
(* those of all threads (sockets, files and the reader's USB handle).      *)
(***************************************************************************)
EXTENDS Naturals, FiniteSets

\* (Operators named Bug... are slips of the code one definition further down
\* could suffer; each is used to show that a property would notice.)

CONSTANTS
  MaxFd,      \* the highest descriptor
  Closed,     \* tty_fd after a failing open (-1)
  MaxOthers,  \* bound on the descriptors the other threads hold at once
  MaxInterrupts \* bound on the signals that meet the thread in select

ASSUME LinkAssumption ==
  /\ MaxFd \in Nat
  /\ Closed \notin 0 .. MaxFd
  /\ MaxOthers \in Nat
  /\ MaxInterrupts \in Nat

Fds == 0 .. MaxFd

VARIABLES
  loop,       \* th_mci_loop
  pc,         \* where the thread is
  unplugged,  \* unpluggedIsDetected
  hasError,   \* mci_has_error, static in controller.c
  ttyFd,      \* tty_fd
  master,     \* the set passed to select
  others,     \* descriptors other threads have open
  line,       \* the interface: "up", "silent" (no power) or "gone"
  interrupts  \* history: signals handled while the thread selected

linkVars == <<loop, pc, unplugged, hasError, ttyFd, master, others, line,
              interrupts>>

LinkTypeOK ==
  /\ loop \in BOOLEAN
  /\ pc \in {"select", "read", "reopen", "retry", "exited"}
  /\ unplugged \in BOOLEAN
  /\ hasError \in BOOLEAN
  /\ ttyFd \in Fds \cup {Closed}
  /\ master \in SUBSET Fds
  /\ others \in SUBSET Fds
  /\ line \in {"up", "silent", "gone"}
  /\ interrupts \in 0 .. MaxInterrupts

Open == others \cup ({ttyFd} \ {Closed})
Free == Fds \ Open

\* What open() and socket() return.
LowestFree == {f \in Free : \A g \in Free : f <= g}

\* init_mini_coffee_interface opened the line before any thread started.
LinkInit ==
  /\ loop = TRUE
  /\ pc = "select"
  /\ unplugged = FALSE
  /\ hasError = FALSE
  /\ ttyFd = 0
  /\ master = {0}
  /\ others = {}
  /\ line = "up"
  /\ interrupts = 0

\* raise(SIGUSR1) runs sig_usr in this thread before it returns.
Raised == hasError' = ~hasError

-----------------------------------------------------------------------------
(* The loop. *)

Selecting == pc = "select" /\ loop

\* What select(tty_fd + 1, master) looks at.
Watched == {f \in master : f <= ttyFd}

\* A watched descriptor is closed: EBADF.
BadSet == Watched \cap Free # {}

\* A watched descriptor can be read: the interface sends or is gone (EOF), or
\* what another thread opened under that number has data.
MayBeReady ==
  \/ ttyFd \in master /\ line # "silent"
  \/ Watched \cap others # {}

BugReadyKeepsUnplugged(isSet) ==
  /\ Selecting /\ ~BadSet /\ MayBeReady
  /\ IF unplugged THEN Raised ELSE UNCHANGED hasError
  /\ pc' = IF isSet THEN "read" ELSE "select"
  /\ UNCHANGED <<loop, unplugged, ttyFd, master, others, line, interrupts>>

\* select() reports a request; the interface is plugged in again if it had
\* been missing.  FD_ISSET looks at tty_fd, not at what was watched.
ReadyWhen(isSet) ==
  /\ Selecting /\ ~BadSet /\ MayBeReady
  /\ IF unplugged
       THEN unplugged' = FALSE /\ Raised
       ELSE UNCHANGED <<unplugged, hasError>>
  /\ pc' = IF isSet THEN "read" ELSE "select"
  /\ UNCHANGED <<loop, ttyFd, master, others, line, interrupts>>

Ready == ReadyWhen(ttyFd \in master /\ line # "silent")

\* Nothing for a second: no power, or nothing plugged in.
TimesOut ==
  /\ Selecting /\ ~BadSet
  /\ ~(ttyFd \in master /\ line # "silent")
  /\ unplugged' = TRUE
  /\ IF unplugged THEN UNCHANGED hasError ELSE Raised
  /\ UNCHANGED <<loop, pc, ttyFd, master, others, line, interrupts>>

\* After a failing select: close the line, to open it once more.
Reconnects ==
  /\ pc' = "retry"
  /\ ttyFd' = Closed
  /\ UNCHANGED <<loop, unplugged, hasError, master, others, line>>

\* select() fails over a closed descriptor.
SelectFails ==
  /\ Selecting /\ BadSet
  /\ Reconnects
  /\ UNCHANGED interrupts

\* The line has a request: answer it (VendSession), or ignore it.
ReadRequest ==
  /\ pc = "read" /\ line # "gone"
  /\ pc' = "select"
  /\ UNCHANGED <<loop, unplugged, hasError, ttyFd, master, others, line, interrupts>>

\* read() fails: close the line and report the error.
ReadFails ==
  /\ pc = "read" /\ line = "gone"
  /\ pc' = "reopen"
  /\ ttyFd' = Closed
  /\ Raised
  /\ UNCHANGED <<loop, unplugged, master, others, line, interrupts>>

Opens == line # "gone" /\ Free # {}

\* Opened again.  Only tty_fd learns the new descriptor.
ReopenedAs(fd, set) ==
  /\ pc = "reopen" /\ Opens
  /\ ttyFd' = fd
  /\ master' = set
  /\ pc' = "select"
  /\ IF loop THEN Raised ELSE UNCHANGED hasError
  /\ UNCHANGED <<loop, unplugged, others, line, interrupts>>

Reopened == \E fd \in LowestFree : ReopenedAs(fd, master)

BugKeepsTrying ==
  /\ pc = "reopen" /\ ~Opens
  /\ UNCHANGED linkVars

\* Not yet: try again in a second, unless the process shuts down.
StillClosed ==
  /\ pc = "reopen" /\ ~Opens
  /\ ~loop
  /\ pc' = "select"
  /\ UNCHANGED <<loop, unplugged, hasError, ttyFd, master, others, line, interrupts>>

\* The one attempt after a failing select.
Retried ==
  /\ pc = "retry" /\ Opens
  /\ ttyFd' \in LowestFree
  /\ pc' = "select"
  /\ UNCHANGED <<loop, unplugged, hasError, master, others, line, interrupts>>

\* It failed: raise(SIGTERM) and return.
GivesUp ==
  /\ pc = "retry" /\ ~Opens
  /\ loop' = FALSE
  /\ pc' = "exited"
  /\ UNCHANGED <<unplugged, hasError, ttyFd, master, others, line, interrupts>>

Exit ==
  /\ pc = "select" /\ ~loop
  /\ pc' = "exited"
  /\ ttyFd' = Closed
  /\ UNCHANGED <<loop, unplugged, hasError, master, others, line, interrupts>>

MciThread ==
  \/ Ready \/ TimesOut \/ SelectFails
  \/ ReadRequest \/ ReadFails
  \/ Reopened \/ StillClosed
  \/ Retried \/ GivesUp
  \/ Exit

-----------------------------------------------------------------------------
(* Everybody else. *)

\* Another thread opens a socket, a file or the reader, or closes it.
OtherOpens ==
  /\ Cardinality(others) < MaxOthers
  /\ \E f \in LowestFree : others' = others \cup {f}
  /\ UNCHANGED <<loop, pc, unplugged, hasError, ttyFd, master, line, interrupts>>

OtherCloses(f) ==
  /\ others' = others \ {f}
  /\ UNCHANGED <<loop, pc, unplugged, hasError, ttyFd, master, line, interrupts>>

\* The coffee machine is switched off or on, the cable pulled or plugged in.
LineChanges(l) ==
  /\ line' = l
  /\ UNCHANGED <<loop, pc, unplugged, hasError, ttyFd, master, others, interrupts>>

\* SIGTERM: sig_usr clears th_mci_loop.
ClearLoop ==
  /\ loop' = FALSE
  /\ UNCHANGED <<pc, unplugged, hasError, ttyFd, master, others, line, interrupts>>

\* A handler (the alarm's, or sig_usr) ran in this thread while it selected:
\* select() fails with EINTR, which is taken for an error of the line.
Interrupted ==
  /\ pc = "select"
  /\ interrupts < MaxInterrupts
  /\ interrupts' = interrupts + 1
  /\ Reconnects

LinkNext ==
  \/ MciThread
  \/ OtherOpens
  \/ \E f \in others : OtherCloses(f)
  \/ \E l \in {"up", "silent", "gone"} : LineChanges(l)
  \/ ClearLoop
  \/ Interrupted

LinkSpec == LinkInit /\ [][LinkNext]_linkVars

\* The thread is scheduled.
LinkFairSpec == LinkSpec /\ WF_linkVars(MciThread)

-----------------------------------------------------------------------------
(* Properties *)

\* The toggles never get out of step: whenever the loop selects, keys are
\* rejected exactly while the interface is taken for missing; they are
\* accepted while a request is read, and rejected while the line is closed
\* after a failing read.
ErrorFlagAgrees ==
  /\ pc \in {"select", "retry"} /\ loop => hasError = unplugged
  /\ pc = "read" => ~hasError /\ ~unplugged
  /\ pc = "reopen" => hasError /\ ~unplugged

\* A line that stays up gets keys accepted again, whatever errors came before,
\* if no other thread took the descriptor of the closed line.
KeysAcceptedAgain ==
  <>[](line = "up" /\ loop /\ ttyFd \in master \cup {Closed}) => []<>(~hasError)

\* On a shutdown the thread ends, even while the line is gone; main joins it.
MciThreadEnds == ~loop ~> pc = "exited"

\* The link serves again after every error that ends, and stops when it is told.
LinkServes == KeysAcceptedAgain /\ MciThreadEnds

=============================================================================
