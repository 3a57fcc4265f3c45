---------------------------- MODULE KeyHandover ----------------------------
(***************************************************************************)
(* How a key gets from the reader to a session, and how a signal ends it.  *)
(* The nfc thread (nfc.c) copies a key it read into key->key if it gets    *)
(* the mutex, and signals; the controller (controller.c) waits on the      *)
(* condition without a predicate, keeps the mutex for the whole session    *)
(* and clears the buffer.  sig_usr, which any thread may run, clears the   *)
(* loop flags, unlocks the mutex whoever holds it and signals.             *)
(*                                                                         *)
(* The buffer has two halves, which strncpy and memset write one by one in *)
(* either order: torn contents exist.  The mutex is a plain one: unlock    *)
(* frees it for whoever calls.  A session is one step here (VendSession),  *)
(* the interface's faults are a flag that toggles (MciLink).               *)
(***************************************************************************)
EXTENDS Naturals

\* (Operators named Bug... are slips of the code one definition further down
\* could suffer; each is used to show that a property would notice.)

CONSTANTS
  Readings,   \* cards put on the reader, each a reading of its own
  Zero,       \* cleared bytes
  Nobody,     \* the owner of a free mutex, the thread of no handler
  Spurious,   \* may pthread_cond_wait return without a signal
  MaxFaults,  \* bound on SIGUSR1
  MaxStops    \* bound on SIGTERM from outside and from the other threads

ASSUME HandoverAssumption ==
  /\ Zero \notin Readings
  /\ Nobody \notin {"controller", "nfc", "other"}
  /\ Spurious \in BOOLEAN
  /\ MaxFaults \in Nat
  /\ MaxStops \in Nat

Halves == {1, 2}
Buffer == [Halves -> Readings \cup {Zero}]
Whole(r) == [h \in Halves |-> r]

VARIABLES
  mainLoop, nfcLoop,  \* main_loop, th_nfc_loop
  mciHasError,        \* mci_has_error
  mutex,              \* who holds key->mutex
  key,                \* key->key
  main,               \* where the controller is
  toClear,            \* halves its memset has not cleared yet
  nfc,                \* where the nfc thread is
  keyBuf,             \* key_buf
  toCopy,             \* halves its strncpy has not copied yet
  handler,            \* where sig_usr is
  thread,             \* the thread that runs it
  \* history
  unread,             \* readings still to come
  served,             \* how often a whole reading was authenticated
  faults, stops       \* signals so far

mainVars    == <<main, toClear, served>>
nfcVars     == <<nfc, keyBuf, toCopy, unread>>
handlerVars == <<handler, thread, stops>>
flags       == <<mainLoop, nfcLoop>>
faultVars   == <<mciHasError, faults>>
handoverVars == <<mainLoop, nfcLoop, mciHasError, mutex, key, main, toClear, nfc,
                 keyBuf, toCopy, handler, thread, unread, served, faults, stops>>

HandoverTypeOK ==
  /\ mainLoop \in BOOLEAN /\ nfcLoop \in BOOLEAN
  /\ mciHasError \in BOOLEAN
  /\ mutex \in {"controller", "nfc", Nobody}
  /\ key \in Buffer
  /\ main \in {"check", "lock", "enter", "waiting", "woken", "decide", "reject",
              "auth", "fatal", "session", "clear", "unlock", "stopped"}
  /\ toClear \in SUBSET Halves
  /\ nfc \in {"loop", "read", "trylock", "copy", "unlock", "signal", "done"}
  /\ keyBuf \in Readings \cup {Zero}
  /\ toCopy \in SUBSET Halves
  /\ handler \in {"idle", "flags", "unlock", "signal"}
  /\ thread \in {"controller", "nfc", "other", Nobody}
  /\ unread \in SUBSET Readings
  /\ served \in [Readings -> Nat]
  /\ faults \in 0 .. MaxFaults
  /\ stops \in 0 .. MaxStops

HandoverInit ==
  /\ mainLoop = TRUE /\ nfcLoop = TRUE
  /\ mciHasError = FALSE
  /\ mutex = Nobody
  /\ key = Whole(Zero)
  /\ main = "check"
  /\ toClear = {}
  /\ nfc = "loop"
  /\ keyBuf = Zero
  /\ toCopy = {}
  /\ handler = "idle" /\ thread = Nobody
  /\ unread = Readings
  /\ served = [r \in Readings |-> 0]
  /\ faults = 0 /\ stops = 0

-----------------------------------------------------------------------------
(* pthread_cond_signal, by the reader or the handler. *)

Wake == main' = IF main = "waiting" THEN "woken" ELSE main

-----------------------------------------------------------------------------
(* The nfc thread.  It is interrupted while it runs the handler. *)

NfcRuns == thread # "nfc"

NfcLoop ==
  /\ NfcRuns /\ nfc = "loop"
  /\ nfc' = IF nfcLoop THEN "read" ELSE "done"
  /\ keyBuf' = Zero
  /\ UNCHANGED <<mutex, key, toCopy, unread>>
  /\ UNCHANGED mainVars /\ UNCHANGED handlerVars
  /\ UNCHANGED flags /\ UNCHANGED faultVars

\* A card is on the reader.
NfcRead(r) ==
  /\ NfcRuns /\ nfc = "read"
  /\ r \in unread
  /\ unread' = unread \ {r}
  /\ keyBuf' = r
  /\ nfc' = "trylock"
  /\ UNCHANGED <<mutex, key, toCopy>>
  /\ UNCHANGED mainVars /\ UNCHANGED handlerVars
  /\ UNCHANGED flags /\ UNCHANGED faultVars

\* The reader fails and is opened again.
NfcReopened ==
  /\ NfcRuns /\ nfc = "read"
  /\ nfc' = "loop"
  /\ UNCHANGED <<mutex, key, keyBuf, toCopy, unread>>
  /\ UNCHANGED mainVars /\ UNCHANGED handlerVars
  /\ UNCHANGED flags /\ UNCHANGED faultVars

\* It cannot be opened: raise(SIGTERM) and return.
NfcFails ==
  /\ NfcRuns /\ nfc = "read"
  /\ thread = Nobody
  /\ nfc' = "done"
  /\ handler' = "flags" /\ thread' = "nfc"
  /\ UNCHANGED <<mutex, key, keyBuf, toCopy, unread, stops>>
  /\ UNCHANGED mainVars
  /\ UNCHANGED flags /\ UNCHANGED faultVars

TryLocked(got) ==
  /\ NfcRuns /\ nfc = "trylock"
  /\ IF got
       THEN mutex' = "nfc" /\ nfc' = "copy" /\ toCopy' = Halves
       ELSE nfc' = "loop" /\ UNCHANGED <<mutex, toCopy>>
  /\ UNCHANGED <<key, keyBuf, unread>>
  /\ UNCHANGED mainVars /\ UNCHANGED handlerVars
  /\ UNCHANGED flags /\ UNCHANGED faultVars

BugLocksAnyway == TryLocked(TRUE)

\* A key read while a session holds the mutex is discarded.
NfcTryLock == TryLocked(mutex = Nobody)

BugCopiesPastEnd(h) ==
  /\ NfcRuns /\ nfc = "copy"
  /\ h \in toCopy
  /\ key' = [key EXCEPT ![h] = keyBuf]
  /\ toCopy' = (toCopy \ {h}) \cup {h + 1}
  /\ UNCHANGED <<mutex, nfc, keyBuf, unread>>
  /\ UNCHANGED mainVars /\ UNCHANGED handlerVars
  /\ UNCHANGED flags /\ UNCHANGED faultVars

NfcCopy(h) ==
  /\ NfcRuns /\ nfc = "copy"
  /\ h \in toCopy
  /\ key' = [key EXCEPT ![h] = keyBuf]
  /\ toCopy' = toCopy \ {h}
  /\ nfc' = IF toCopy' = {} THEN "unlock" ELSE "copy"
  /\ UNCHANGED <<mutex, keyBuf, unread>>
  /\ UNCHANGED mainVars /\ UNCHANGED handlerVars
  /\ UNCHANGED flags /\ UNCHANGED faultVars

NfcUnlock ==
  /\ NfcRuns /\ nfc = "unlock"
  /\ mutex' = Nobody
  /\ nfc' = "signal"
  /\ UNCHANGED <<key, keyBuf, toCopy, unread>>
  /\ UNCHANGED mainVars /\ UNCHANGED handlerVars
  /\ UNCHANGED flags /\ UNCHANGED faultVars

NfcSignal ==
  /\ NfcRuns /\ nfc = "signal"
  /\ Wake
  /\ nfc' = "loop"
  /\ UNCHANGED <<mutex, key, keyBuf, toCopy, unread, toClear, served>>
  /\ UNCHANGED handlerVars /\ UNCHANGED flags /\ UNCHANGED faultVars

NfcHandsOver ==
  \/ NfcTryLock
  \/ \E h \in Halves : NfcCopy(h)
  \/ NfcUnlock
  \/ NfcSignal

Nfc ==
  \/ NfcLoop
  \/ \E r \in Readings : NfcRead(r)
  \/ NfcReopened
  \/ NfcFails
  \/ NfcHandsOver

-----------------------------------------------------------------------------
(* The controller.  It too is interrupted while it runs the handler. *)

MainRuns == thread # "controller"

Check ==
  /\ MainRuns /\ main = "check"
  /\ main' = IF mainLoop THEN "lock" ELSE "stopped"
  /\ UNCHANGED <<mutex, key, toClear, served>>
  /\ UNCHANGED nfcVars /\ UNCHANGED handlerVars
  /\ UNCHANGED flags /\ UNCHANGED faultVars

Lock ==
  /\ MainRuns /\ main = "lock"
  /\ mutex = Nobody
  /\ mutex' = "controller"
  /\ main' = "enter"
  /\ UNCHANGED <<key, toClear, served>>
  /\ UNCHANGED nfcVars /\ UNCHANGED handlerVars
  /\ UNCHANGED flags /\ UNCHANGED faultVars

\* pthread_cond_wait starts to wait and frees the mutex,
CondWait ==
  /\ MainRuns /\ main = "enter"
  /\ mutex' = Nobody
  /\ main' = "waiting"
  /\ UNCHANGED <<key, toClear, served>>
  /\ UNCHANGED nfcVars /\ UNCHANGED handlerVars
  /\ UNCHANGED flags /\ UNCHANGED faultVars

\* may stop waiting for no reason,
WakeSpuriously ==
  /\ Spurious
  /\ MainRuns /\ main = "waiting"
  /\ main' = "woken"
  /\ UNCHANGED <<mutex, key, toClear, served>>
  /\ UNCHANGED nfcVars /\ UNCHANGED handlerVars
  /\ UNCHANGED flags /\ UNCHANGED faultVars

\* and returns with the mutex.
Relock ==
  /\ MainRuns /\ main = "woken"
  /\ mutex = Nobody
  /\ mutex' = "controller"
  /\ main' = "decide"
  /\ UNCHANGED <<key, toClear, served>>
  /\ UNCHANGED nfcVars /\ UNCHANGED handlerVars
  /\ UNCHANGED flags /\ UNCHANGED faultVars

\* The shutdown leaves the loop with the mutex locked; a faulty interface
\* makes it give up the mutex and then clear the buffer.
Decide ==
  /\ MainRuns /\ main = "decide"
  /\ \/ ~mainLoop /\ main' = "stopped" /\ UNCHANGED <<mutex, toClear>>
     \/ /\ mainLoop /\ mciHasError
        /\ mutex' = Nobody
        /\ toClear' = Halves
        /\ main' = "reject"
     \/ mainLoop /\ ~mciHasError /\ main' = "auth" /\ UNCHANGED <<mutex, toClear>>
  /\ UNCHANGED <<key, served>>
  /\ UNCHANGED nfcVars /\ UNCHANGED handlerVars
  /\ UNCHANGED flags /\ UNCHANGED faultVars

\* memset of the buffer, then on to the next place in the loop.
Clear(h) ==
  /\ MainRuns /\ main \in {"reject", "clear"}
  /\ h \in toClear
  /\ key' = [key EXCEPT ![h] = Zero]
  /\ toClear' = toClear \ {h}
  /\ main' = IF toClear' # {} THEN main
              ELSE IF main = "reject" THEN "check" ELSE "unlock"
  /\ UNCHANGED <<mutex, served>>
  /\ UNCHANGED nfcVars /\ UNCHANGED handlerVars
  /\ UNCHANGED flags /\ UNCHANGED faultVars

\* key_authentication copies the buffer into its request.
AuthenticateKey ==
  /\ MainRuns /\ main = "auth"
  /\ served' = [r \in Readings |->
                  served[r] + IF key = Whole(r) THEN 1 ELSE 0]
  /\ main' = "session"
  /\ UNCHANGED <<mutex, key, toClear>>
  /\ UNCHANGED nfcVars /\ UNCHANGED handlerVars
  /\ UNCHANGED flags /\ UNCHANGED faultVars

\* It returns NULL (out of memory): raise(SIGTERM), and out of the loop.
AuthFatal ==
  /\ main = "auth"
  /\ thread = Nobody
  /\ handler' = "flags" /\ thread' = "controller"
  /\ main' = "fatal"
  /\ UNCHANGED <<mutex, key, toClear, served, stops>>
  /\ UNCHANGED nfcVars /\ UNCHANGED flags /\ UNCHANGED faultVars

Fatal ==
  /\ MainRuns /\ main = "fatal"
  /\ main' = "stopped"
  /\ UNCHANGED <<mutex, key, toClear, served>>
  /\ UNCHANGED nfcVars /\ UNCHANGED handlerVars
  /\ UNCHANGED flags /\ UNCHANGED faultVars

BugBufferKept ==
  /\ MainRuns /\ main = "session"
  /\ main' = "unlock"
  /\ UNCHANGED <<mutex, key, toClear, served>>
  /\ UNCHANGED nfcVars /\ UNCHANGED handlerVars
  /\ UNCHANGED flags /\ UNCHANGED faultVars

EndSession ==
  /\ MainRuns /\ main = "session"
  /\ main' = "clear"
  /\ toClear' = Halves
  /\ UNCHANGED <<mutex, key, served>>
  /\ UNCHANGED nfcVars /\ UNCHANGED handlerVars
  /\ UNCHANGED flags /\ UNCHANGED faultVars

Unlock ==
  /\ MainRuns /\ main = "unlock"
  /\ mutex' = Nobody
  /\ main' = "check"
  /\ UNCHANGED <<key, toClear, served>>
  /\ UNCHANGED nfcVars /\ UNCHANGED handlerVars
  /\ UNCHANGED flags /\ UNCHANGED faultVars

MainThread ==
  \/ Check \/ Lock \/ CondWait \/ Relock \/ Decide
  \/ \E h \in Halves : Clear(h)
  \/ AuthenticateKey \/ Fatal \/ EndSession \/ Unlock

-----------------------------------------------------------------------------
(* Signals. *)

\* SIGTERM from outside (the main thread runs the handler), or raised by the
\* mci or the display thread.
Terminate(t) ==
  /\ stops < MaxStops
  /\ thread = Nobody
  /\ t = "controller" => main # "stopped"
  /\ stops' = stops + 1
  /\ handler' = "flags" /\ thread' = t
  /\ UNCHANGED <<mutex, key>>
  /\ UNCHANGED mainVars /\ UNCHANGED nfcVars
  /\ UNCHANGED flags /\ UNCHANGED faultVars

ClearFlags ==
  /\ handler = "flags"
  /\ mainLoop' = FALSE /\ nfcLoop' = FALSE
  /\ handler' = "unlock"
  /\ UNCHANGED <<mutex, key, thread, stops>>
  /\ UNCHANGED mainVars /\ UNCHANGED nfcVars /\ UNCHANGED faultVars

\* Whoever holds it.
ForceUnlock ==
  /\ handler = "unlock"
  /\ mutex' = Nobody
  /\ handler' = "signal"
  /\ UNCHANGED <<key, thread, stops>>
  /\ UNCHANGED mainVars /\ UNCHANGED nfcVars
  /\ UNCHANGED flags /\ UNCHANGED faultVars

BugHandlerSilent ==
  /\ handler = "signal"
  /\ handler' = "idle" /\ thread' = Nobody
  /\ UNCHANGED <<mutex, key, stops>>
  /\ UNCHANGED mainVars /\ UNCHANGED nfcVars
  /\ UNCHANGED flags /\ UNCHANGED faultVars

HandlerSignal ==
  /\ handler = "signal"
  /\ Wake
  /\ handler' = "idle" /\ thread' = Nobody
  /\ UNCHANGED <<mutex, key, toClear, served, stops>>
  /\ UNCHANGED nfcVars /\ UNCHANGED flags /\ UNCHANGED faultVars

Handler == ClearFlags \/ ForceUnlock \/ HandlerSignal

\* SIGUSR1, raised by the mci thread: a fault, or its end.
MciSignal ==
  /\ faults < MaxFaults
  /\ faults' = faults + 1
  /\ mciHasError' = ~mciHasError
  /\ UNCHANGED <<mutex, key>>
  /\ UNCHANGED mainVars /\ UNCHANGED nfcVars /\ UNCHANGED handlerVars
  /\ UNCHANGED flags

HandoverNext ==
  \/ Nfc
  \/ MainThread
  \/ WakeSpuriously
  \/ AuthFatal
  \/ \E t \in {"controller", "other"} : Terminate(t)
  \/ Handler
  \/ MciSignal

HandoverSpec == HandoverInit /\ [][HandoverNext]_handoverVars

\* The threads are scheduled and a session ends (VendSession); cards, signals
\* and spurious wakeups need not come.
HandoverFairSpec ==
  /\ HandoverSpec
  /\ WF_handoverVars(MainThread)
  /\ WF_handoverVars(NfcHandsOver)
  /\ WF_handoverVars(Handler)

-----------------------------------------------------------------------------
(* Properties *)

\* A card put on the reader once opens one session at most: stale contents of
\* the buffer never serve a late signal or a spurious wakeup a second time.
ServedOnce == \A r \in Readings : served[r] <= 1

\* Until the handler of a shutdown has freed the mutex, the buffer is the
\* controller's for the whole session, so the key that is authorized is the key
\* that was authenticated.
SessionKeyStays ==
  [][(main \in {"auth", "session"} /\ (mainLoop \/ mutex = "controller"))
       => UNCHANGED key]_handoverVars

\* A shutdown that does not meet the controller between its test of main_loop
\* and its wait gets the controller out of the loop.
ShutdownReaches ==
  handler = "signal" /\ main \notin {"lock", "enter"} ~> main = "stopped"

=============================================================================
