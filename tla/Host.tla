-------------------------------- MODULE Host --------------------------------
(***************************************************************************)
(* The event loop of the full-screen terminal, src/ui/tui/host.rs.  One    *)
(* thread draws, reads keys and talks to the runtime.  At most one command *)
(* is in flight: `pending' is its slot.  What cannot wait for the slot is   *)
(* refused; what may wait is put in `deferred' and started when the slot is *)
(* free, before the next key is read.  The desks, modules that extend this  *)
(* one, own the screens; Terminal puts them together.                       *)
(*                                                                         *)
(* Generations.  The code tags a request with a counter and compares it,   *)
(* on the answer, with the counter's present value.  Counters only grow, so *)
(* a request carries here the flag `fresh', which every bump clears.        *)
(***************************************************************************)
EXTENDS Naturals, Sequences, FiniteSets

CONSTANTS None          \* the absent value

VARIABLES
    pending,    \* the request in flight (memory, profile, preview, command, shutdown), or None
    deferred,   \* what waits for the slot to be free
    stopping,   \* runtime_status = Stopping
    ended,      \* "no", or how the event loop returned: quit, interrupted, failed, unexpected,
                \* or uncancelled: the runtime could not be told to drop a review
    held,       \* the kinds of review the runtime has registered for this client
    left        \* None, or what the teardown did

hostVars == <<pending, deferred, stopping, ended, held, left>>

ReviewKinds == {"profile", "skill", "memory"}

NothingDeferred ==
    [quit |-> FALSE, nav |-> "none", memory |-> <<>>, again |-> FALSE,
     profile |-> None, preview |-> None]

HostInit ==
    /\ pending = None
    /\ deferred = NothingDeferred
    /\ stopping = FALSE
    /\ ended = "no"
    /\ held = {}
    /\ left = None

-----------------------------------------------------------------------------
Running == ended = "no"
Free == pending = None
InFlight == ~Free

\* A slip: a refresh that waits is left for a quieter moment.
FaultyAtTheKeyboard == Running /\ (InFlight \/ ~deferred.quit)

\* The loop reaches its read of the next key only with the slot taken or with
\* nothing that wants it, unless a refresh just found the runtime busy: the
\* next refresh is tried after the key (again).
AtTheKeyboard ==
    /\ Running
    /\ \/ InFlight
       \/ /\ ~deferred.quit
          /\ deferred.nav = "none"
          /\ deferred.memory = <<>> \/ deferred.again
          /\ deferred.profile = None

Pending(kind) == Running /\ InFlight /\ pending.kind = kind

\* What most steps leave alone.
KeepRunning == UNCHANGED <<stopping, ended, left>>

-----------------------------------------------------------------------------
\* A slip: a quit behind a command in flight is not queued.
ForgetfulQuit ==
    /\ AtTheKeyboard
    /\ ~stopping
    /\ stopping' = TRUE
    /\ deferred' = [deferred EXCEPT !.preview = None]
    /\ pending' = IF InFlight THEN pending ELSE [kind |-> "shutdown"]
    /\ UNCHANGED <<ended, held, left>>

\* request_auditable_shutdown: behind a command in flight the request waits.
Quit ==
    /\ AtTheKeyboard
    /\ ~stopping
    /\ stopping' = TRUE
    /\ deferred' = [deferred EXCEPT !.quit = InFlight, !.preview = None]
    /\ pending' = IF InFlight THEN pending ELSE [kind |-> "shutdown"]
    /\ UNCHANGED <<ended, held, left>>

SubmitQueuedShutdown ==
    /\ Running /\ Free
    /\ deferred.quit
    /\ deferred' = [deferred EXCEPT !.quit = FALSE]
    /\ pending' = [kind |-> "shutdown"]
    /\ UNCHANGED <<stopping, ended, held, left>>

\* The loop returns, and with it goes everything but what the teardown needs.
Close(why) ==
    /\ Running
    /\ ended' = why
    /\ pending' = None /\ deferred' = NothingDeferred
    /\ UNCHANGED <<held, left>>

\* poll_pending with the answer to RequestShutdown.
ShutdownAnswered == Pending("shutdown") /\ Close("quit") /\ UNCHANGED stopping

\* Ctrl-C, or a signal, finishes the loop at once, whatever is in flight.
Interrupt == AtTheKeyboard /\ Close("interrupted") /\ stopping' = TRUE

\* Reading a key, measuring or drawing the screen fails, or the runtime returns
\* an error that no action names: all of them leave the loop, at any point.
LoopFails == Close("failed") /\ UNCHANGED stopping

-----------------------------------------------------------------------------
\* run_with_screen after the loop: each desk that has something to cancel
\* (owned) asks the runtime, the screen is restored and the runtime finished;
\* every step is tried, whichever of the earlier ones failed.  The loop's own
\* error is reported before any error of these.  `held' tells what is still
\* registered when the runtime is told to finish.
TearDown(owned) ==
    /\ ~Running
    /\ left = None
    /\ stopping' = TRUE
    /\ \E failed \in SUBSET (owned \cup {"screen", "runtime"}) :
          /\ held' = held \ (owned \ failed)
          /\ left' = [failed |-> failed,
                      reported |-> IF ended \in {"failed", "unexpected", "uncancelled"} THEN ended
                                   ELSE IF failed # {} THEN "teardown" ELSE "none"]
    /\ UNCHANGED <<pending, deferred, ended>>
=============================================================================
