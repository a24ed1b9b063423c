------------------------------ MODULE Runtime ------------------------------
(***************************************************************************)
(* The bounded command transport of src/runtime/mod.rs.                    *)
(*                                                                         *)
(* Any number of calls reach one worker thread over a bounded queue.  A    *)
(* blocking call reserves a place under the state lock, sends outside the  *)
(* lock, resolves its reservation and waits for its one reply; a           *)
(* non-blocking call tries to send under the lock.  Shutdown closes        *)
(* admission, tells the worker over a second, unbounded channel, and joins *)
(* the thread.  The worker drains what was admitted, finishes the          *)
(* application and publishes how it ended; a panic in the application      *)
(* publishes, answers the panicking call and unwinds.                      *)
(*                                                                         *)
(* One call is one element of Calls: a thread that calls again is another  *)
(* element.  Every step below is one critical section, one channel         *)
(* operation or one call of the application.                               *)
(*                                                                         *)
(* An operator named Faulty... is a plausible wrong version of the         *)
(* definition after it.  Nothing uses it here: it shows, put in place of   *)
(* that definition, that a property notices the mistake.                   *)
(***************************************************************************)
EXTENDS Naturals, Sequences, FiniteSets

CONSTANTS
    Submitters,     \* blocking calls: submit, request_reply, the previews
    Tryers,         \* calls of try_submit
    Finishers,      \* calls of finish_and_join
    Capacity,       \* bound of the request queue
    Reasons,        \* ShutdownReason
    Failure,        \* ShutdownReason::ApplicationError
    NoCall          \* "no call is executing"

ASSUME RuntimeAssumption ==
    /\ IsFiniteSet(Submitters)
    /\ Submitters \cap Tryers = {}
    /\ "worker" \notin Finishers
    /\ Capacity \in Nat \ {0}
    /\ Failure \in Reasons
    /\ NoCall \notin Submitters \cup Tryers

Calls == Submitters \cup Tryers

(* What the application answers, what the runtime answers in its place, and *)
(* how a worker thread may end.                                             *)
Replies   == {"Outcome", "Application"}
Endings   == {"Ok", "Application", "WorkerPanicked", "WorkerExited"}
Errors    == Endings \ {"Ok"}
Refusals  == Errors \cup {"Closed", "Backpressure"}

VARIABLES
    (* SharedRuntime::state, under its mutex, and its condition variable *)
    admission,      \* "Open" (holds the queue's sender) or "Closing"
    reservations,   \* blocking calls admitted whose send is not resolved
    worker,         \* "Running", "Exited", "Joined"
    exit,           \* the result stored in Exited or Joined
    sleeping,       \* threads inside Condvar::wait
    (* the two channels *)
    queue,          \* the bounded request channel
    receiving,      \* its receiver has not been dropped
    control,        \* the unbounded control channel: shutdown reasons
    (* the worker thread *)
    wpc, resume,    \* where it is, and where it was when it took a request
    current,        \* the request it is executing
    pending,        \* the ending it is about to publish
    reason,         \* the shutdown reason it was told to finish with
    (* what the application has been asked to do *)
    executed,       \* calls handed to the executor, in order
    finishes,       \* calls of finish and whether they succeeded
    (* the calls *)
    cpc, reply, result,
    (* ApplicationRuntime *)
    handle,         \* JoinState
    fpc, fresult,   \* the calls of finish_and_join
    reaper,         \* the thread started by Drop
    dropped,        \* the runtime value has been dropped
    closer          \* the reason of the call that closed admission

shared  == <<admission, reservations, worker, exit>>
channel == <<queue, receiving, control>>
loop    == <<wpc, resume, current, pending, reason>>
app     == <<executed, finishes>>
calls   == <<cpc, reply, result>>
owners  == <<handle, fpc, fresult, reaper, dropped, closer>>
vars    == <<shared, sleeping, channel, loop, app, calls, owners>>

Init ==
    /\ admission = "Open" /\ reservations = 0
    /\ worker = "Running" /\ exit = "None" /\ sleeping = {}
    /\ queue = <<>> /\ receiving = TRUE /\ control = <<>>
    /\ wpc = "select" /\ resume = "select"
    /\ current = NoCall /\ pending = "None" /\ reason = "None"
    /\ executed = <<>> /\ finishes = <<>>
    /\ cpc = [c \in Calls |-> "idle"]
    /\ reply = [c \in Calls |-> "None"]
    /\ result = [c \in Calls |-> "None"]
    /\ handle = "Available" /\ reaper = "none" /\ dropped = FALSE
    /\ fpc = [f \in Finishers |-> "idle"]
    /\ fresult = [f \in Finishers |-> "None"]
    /\ closer = "None"

-----------------------------------------------------------------------------
(* Shared helpers *)

NotifyAll == sleeping' = {}

(* SharedRuntime::terminal_error *)
TerminalError ==
    IF worker # "Running" /\ exit # "Ok" THEN exit ELSE "Closed"

(* SharedRuntime::close_admission: only the first closer is heard. *)
CloseAdmissionWith(why) ==
    IF admission = "Open"
      THEN /\ control' = Append(control, why)
           /\ admission' = "Closing"
           /\ closer' = why
           /\ NotifyAll
      ELSE UNCHANGED <<control, admission, closer, sleeping>>

(* SharedRuntime::publish_joined, with the result a joiner computed. *)
FaultyPublishJoined(ending) ==
    /\ IF worker # "Joined" THEN worker' = "Joined" /\ exit' = ending
                            ELSE UNCHANGED <<worker, exit>>
    /\ UNCHANGED sleeping

PublishJoined(ending) ==
    /\ IF worker # "Joined"
         THEN worker' = "Joined" /\ exit' = ending /\ NotifyAll
         ELSE UNCHANGED <<worker, exit, sleeping>>

(* What JoinHandle::join and exited_result tell the joiner of a thread that *)
(* is gone: a panic is resumed after it was published.                      *)
FaultyJoinResult == TerminalError

JoinResult ==
    IF pending = "WorkerPanicked" THEN "WorkerPanicked"
    ELSE IF worker = "Running" THEN "WorkerExited" ELSE exit

Return(c, value) ==
    /\ cpc' = [cpc EXCEPT ![c] = "done"]
    /\ result' = [result EXCEPT ![c] = value]

-----------------------------------------------------------------------------
(* Calls *)

(* Blocking calls: reserve *)
Reserve(c) ==
    /\ cpc[c] = "idle" /\ worker = "Running" /\ admission = "Open"
    /\ reservations' = reservations + 1
    /\ NotifyAll
    /\ cpc' = [cpc EXCEPT ![c] = "reserved"]
    /\ UNCHANGED <<admission, worker, exit, channel, loop, app, reply, result, owners>>

ReserveRefused(c) ==
    /\ cpc[c] = "idle"
    /\ worker # "Running" \/ admission = "Closing"
    /\ Return(c, TerminalError)
    /\ UNCHANGED <<shared, sleeping, channel, loop, app, reply, owners>>

(* Blocking send, outside the lock; the sender clone is dropped with it. *)
Send(c) ==
    /\ cpc[c] = "reserved" /\ receiving /\ Len(queue) < Capacity
    /\ queue' = Append(queue, c)
    /\ cpc' = [cpc EXCEPT ![c] = "sent"]
    /\ UNCHANGED <<shared, sleeping, receiving, control, loop, app, reply, result, owners>>

SendFails(c) ==
    /\ cpc[c] = "reserved" /\ ~receiving
    /\ cpc' = [cpc EXCEPT ![c] = "unsent"]
    /\ UNCHANGED <<shared, sleeping, channel, loop, app, reply, result, owners>>

FaultyResolveReservation(c) ==   \* a failed send returns before resolving
    /\ cpc[c] \in {"sent", "unsent"}
    /\ IF cpc[c] = "sent"
         THEN /\ reservations' = IF reservations > 0 THEN reservations - 1 ELSE 0
              /\ NotifyAll
              /\ cpc' = [cpc EXCEPT ![c] = "awaiting"] /\ UNCHANGED result
         ELSE Return(c, TerminalError) /\ UNCHANGED <<reservations, sleeping>>
    /\ UNCHANGED <<admission, worker, exit, channel, loop, app, reply, owners>>

FaultyResolveSilently(c) ==      \* nobody is notified
    /\ cpc[c] \in {"sent", "unsent"}
    /\ reservations' = IF reservations > 0 THEN reservations - 1 ELSE 0
    /\ UNCHANGED sleeping
    /\ IF cpc[c] = "sent"
         THEN cpc' = [cpc EXCEPT ![c] = "awaiting"] /\ UNCHANGED result
         ELSE Return(c, TerminalError)
    /\ UNCHANGED <<admission, worker, exit, channel, loop, app, reply, owners>>

ResolveReservation(c) ==
    /\ cpc[c] \in {"sent", "unsent"}
    /\ reservations' = IF reservations > 0 THEN reservations - 1 ELSE 0
    /\ NotifyAll
    /\ IF cpc[c] = "sent"
         THEN cpc' = [cpc EXCEPT ![c] = "awaiting"] /\ UNCHANGED result
         ELSE Return(c, TerminalError)
    /\ UNCHANGED <<admission, worker, exit, channel, loop, app, reply, owners>>

(* try_submit: everything under the lock.  Its Disconnected branch cannot   *)
(* be taken: OpenMeansServed.                                               *)
TryAccepted(c) ==
    /\ cpc[c] = "idle" /\ worker = "Running" /\ admission = "Open"
    /\ Len(queue) < Capacity
    /\ queue' = Append(queue, c)
    /\ cpc' = [cpc EXCEPT ![c] = "awaiting"]
    /\ UNCHANGED <<shared, sleeping, receiving, control, loop, app, reply, result, owners>>

TryRefused(c) ==
    /\ cpc[c] = "idle"
    /\ \/ /\ worker # "Running" \/ admission = "Closing"
          /\ Return(c, TerminalError)
       \/ /\ worker = "Running" /\ admission = "Open" /\ Len(queue) = Capacity
          /\ Return(c, "Backpressure")
    /\ UNCHANGED <<shared, sleeping, channel, loop, app, reply, owners>>

(* PendingOutcome::recv and the wait of a blocking call *)
Receive(c) ==
    /\ cpc[c] = "awaiting" /\ reply[c] # "None"
    /\ Return(c, IF reply[c] = "Disconnected" THEN TerminalError ELSE reply[c])
    /\ UNCHANGED <<shared, sleeping, channel, loop, app, reply, owners>>

-----------------------------------------------------------------------------
(* The worker thread *)

Goto(place) == wpc' = place /\ UNCHANGED <<resume, current, pending, reason>>

(* select_biased tries the control channel first, then the requests; these  *)
(* are two operations on two channels, not one.                             *)
SelectControl ==
    /\ wpc \in {"select", "blocked"} /\ control # <<>>
    /\ control' = Tail(control)
    /\ reason' = Head(control)
    /\ wpc' = "drain"
    /\ UNCHANGED <<resume, current, pending, shared, sleeping, queue, receiving, app, calls, owners>>

SelectNoControl ==
    /\ wpc = "select" /\ control = <<>>
    /\ Goto("poll")
    /\ UNCHANGED <<shared, sleeping, channel, app, calls, owners>>

(* Some sender of the request queue still exists. *)
Connected == admission = "Open" \/ \E c \in Calls : cpc[c] = "reserved"

PollEmpty ==
    /\ wpc = "poll" /\ queue = <<>> /\ Connected
    /\ Goto("blocked")
    /\ UNCHANGED <<shared, sleeping, channel, app, calls, owners>>

PollDisconnected ==
    /\ wpc = "poll" /\ queue = <<>> /\ ~Connected
    /\ wpc' = "publish" /\ pending' = "WorkerExited"
    /\ UNCHANGED <<resume, current, reason, shared, sleeping, channel, app, calls, owners>>

(* The worker's next request: recv in the loop, try_recv while draining. *)
FaultyTakeRequest ==
    /\ wpc \in {"poll", "blocked", "drain", "final"} /\ queue # <<>>
    /\ current' = queue[Len(queue)]
    /\ queue' = SubSeq(queue, 1, Len(queue) - 1)
    /\ executed' = Append(executed, current')
    /\ resume' = IF wpc \in {"poll", "blocked"} THEN "select" ELSE wpc
    /\ wpc' = "execute"
    /\ UNCHANGED <<pending, reason, shared, sleeping, receiving, control, finishes, calls, owners>>

TakeRequest ==
    /\ wpc \in {"poll", "blocked", "drain", "final"} /\ queue # <<>>
    /\ current' = Head(queue)
    /\ queue' = Tail(queue)
    /\ executed' = Append(executed, Head(queue))
    /\ resume' = IF wpc \in {"poll", "blocked"} THEN "select" ELSE wpc
    /\ wpc' = "execute"
    /\ UNCHANGED <<pending, reason, shared, sleeping, receiving, control, finishes, calls, owners>>

(* execute_request: the application answers ... *)
ExecuteReplies ==
    /\ wpc = "execute"
    /\ \E value \in Replies : reply' = [reply EXCEPT ![current] = value]
    /\ wpc' = resume /\ current' = NoCall
    /\ UNCHANGED <<resume, pending, reason, shared, sleeping, channel, app, cpc, result, owners>>

(* ... or panics: fail_panicked_request finishes the application, whatever  *)
(* that returns, and is about to publish.                                   *)
FaultyExecutePanics ==           \* the loop goes on serving
    /\ wpc = "execute"
    /\ finishes' = Append(finishes, [reason |-> Failure, ok |-> TRUE])
    /\ reply' = [reply EXCEPT ![current] = "WorkerPanicked"]
    /\ wpc' = resume /\ current' = NoCall
    /\ UNCHANGED <<resume, pending, reason, executed, shared, sleeping, channel,
                   cpc, result, owners>>

ExecutePanics ==
    /\ wpc = "execute"
    /\ \E ok \in BOOLEAN :
         finishes' = Append(finishes, [reason |-> Failure, ok |-> ok])
    /\ wpc' = "publish" /\ pending' = "WorkerPanicked"
    /\ UNCHANGED <<resume, current, reason, executed, shared, sleeping, channel, calls, owners>>

(* drain_reservations *)
DrainEmpty ==
    /\ wpc = "drain" /\ queue = <<>>
    /\ Goto("check")
    /\ UNCHANGED <<shared, sleeping, channel, app, calls, owners>>

FaultyDrainCheck ==
    /\ wpc = "check"
    /\ Goto("final") /\ UNCHANGED sleeping
    /\ UNCHANGED <<shared, channel, app, calls, owners>>

DrainCheck ==
    /\ wpc = "check"
    /\ IF reservations = 0
         THEN Goto("final") /\ UNCHANGED sleeping
         ELSE Goto("parked") /\ sleeping' = sleeping \cup {"worker"}
    /\ UNCHANGED <<shared, channel, app, calls, owners>>

DrainWakes ==
    /\ wpc = "parked" /\ "worker" \notin sleeping
    /\ Goto("drain")
    /\ UNCHANGED <<shared, sleeping, channel, app, calls, owners>>

DrainDone ==
    /\ wpc = "final" /\ queue = <<>>
    /\ Goto("finish")
    /\ UNCHANGED <<shared, sleeping, channel, app, calls, owners>>

(* executor.finish(reason) at the end of the loop *)
Finish ==
    /\ wpc = "finish"
    /\ \E ending \in {"Ok", "Application", "WorkerPanicked"} :
         /\ finishes' = Append(finishes, [reason |-> reason, ok |-> ending = "Ok"])
         /\ pending' = ending
    /\ wpc' = "publish"
    /\ UNCHANGED <<resume, current, reason, executed, shared, sleeping, channel, calls, owners>>

(* publish_exited; a panicking request is answered next. *)
PublishExited ==
    /\ wpc = "publish"
    /\ IF worker = "Running"
         THEN /\ admission' = "Closing" /\ worker' = "Exited"
              /\ exit' = pending /\ NotifyAll
         ELSE UNCHANGED <<admission, worker, exit, sleeping>>
    /\ wpc' = IF current = NoCall THEN "close" ELSE "answer"
    /\ UNCHANGED <<resume, current, pending, reason, reservations, channel, app, calls, owners>>

AnswerPanicked ==
    /\ wpc = "answer"
    /\ reply' = [reply EXCEPT ![current] = "WorkerPanicked"]
    /\ wpc' = "close" /\ current' = NoCall
    /\ UNCHANGED <<resume, pending, reason, shared, sleeping, channel, app, cpc, result, owners>>

(* worker_loop returns or unwinds: the receiver is dropped, and with it     *)
(* every request still queued.                                              *)
DropReceiver ==
    /\ wpc = "close"
    /\ receiving' = FALSE /\ queue' = <<>>
    /\ reply' = [c \in Calls |->
                   IF \E i \in 1..Len(queue) : queue[i] = c
                     THEN "Disconnected" ELSE reply[c]]
    /\ Goto("dropExecutor")
    /\ UNCHANGED <<shared, sleeping, control, app, cpc, result, owners>>

(* Drop of ServiceWorker, then the thread ends. *)
Finished == \E i \in 1..Len(finishes) : finishes[i].ok

DropExecutor ==
    /\ wpc = "dropExecutor"
    /\ IF Finished
         THEN UNCHANGED finishes
         ELSE \E ok \in BOOLEAN :
                finishes' = Append(finishes, [reason |-> Failure, ok |-> ok])
    /\ Goto("gone")
    /\ UNCHANGED <<executed, shared, sleeping, channel, calls, owners>>

-----------------------------------------------------------------------------
(* finish_and_join, Drop and the reaper *)

CloseAdmission(f) ==
    /\ fpc[f] = "idle" /\ ~dropped
    /\ \E why \in Reasons : CloseAdmissionWith(why)
    /\ fpc' = [fpc EXCEPT ![f] = "closed"]
    /\ UNCHANGED <<reservations, worker, exit, queue, receiving, loop, app, calls,
                   handle, fresult, reaper, dropped>>

(* join_worker: the first caller takes the handle. *)
TakeHandle(f) ==
    /\ fpc[f] = "closed"
    /\ IF handle = "Available"
         THEN handle' = "Joining" /\ fpc' = [fpc EXCEPT ![f] = "owner"]
         ELSE UNCHANGED handle /\ fpc' = [fpc EXCEPT ![f] = "enter"]
    /\ UNCHANGED <<shared, sleeping, channel, loop, app, calls,
                   fresult, reaper, dropped, closer>>

AnnounceOwner(f) ==
    /\ fpc[f] = "owner"
    /\ NotifyAll
    /\ fpc' = [fpc EXCEPT ![f] = "joining"]
    /\ UNCHANGED <<shared, channel, loop, app, calls,
                   handle, fresult, reaper, dropped, closer>>

(* The thread is gone: its ending is published and returned.  The handle    *)
(* becomes Joined; to every later caller Joining and Joined mean the same.  *)
JoinWorker(f) ==
    /\ fpc[f] = "joining" /\ wpc = "gone"
    /\ PublishJoined(JoinResult)
    /\ handle' = "Joined"
    /\ fpc' = [fpc EXCEPT ![f] = "done"]
    /\ fresult' = [fresult EXCEPT ![f] = JoinResult]
    /\ UNCHANGED <<admission, reservations, channel, loop, app, calls, reaper, dropped, closer>>

(* wait_for_joined(true): the change of join_waiters notifies everybody. *)
FaultyWaitForJoined(f) ==
    /\ fpc[f] = "enter" \/ (fpc[f] = "waiting" /\ f \notin sleeping)
    /\ IF worker # "Running"
         THEN /\ NotifyAll
              /\ fpc' = [fpc EXCEPT ![f] = "done"]
              /\ fresult' = [fresult EXCEPT ![f] = exit]
         ELSE /\ sleeping' = (IF fpc[f] = "enter" THEN {} ELSE sleeping) \cup {f}
              /\ fpc' = [fpc EXCEPT ![f] = "waiting"]
              /\ UNCHANGED fresult
    /\ UNCHANGED <<shared, channel, loop, app, calls, handle, reaper, dropped, closer>>

WaitForJoined(f) ==
    /\ fpc[f] = "enter" \/ (fpc[f] = "waiting" /\ f \notin sleeping)
    /\ IF worker = "Joined"
         THEN /\ NotifyAll
              /\ fpc' = [fpc EXCEPT ![f] = "done"]
              /\ fresult' = [fresult EXCEPT ![f] = exit]
         ELSE /\ sleeping' = (IF fpc[f] = "enter" THEN {} ELSE sleeping) \cup {f}
              /\ fpc' = [fpc EXCEPT ![f] = "waiting"]
              /\ UNCHANGED fresult
    /\ UNCHANGED <<shared, channel, loop, app, calls, handle, reaper, dropped, closer>>

(* Drop needs the value alone: no finish_and_join is under way. *)
FaultyDropRuntime ==             \* the handle is reaped, admission stays open
    /\ ~dropped /\ \A f \in Finishers : fpc[f] \in {"idle", "done"}
    /\ dropped' = TRUE
    /\ IF handle = "Available"
         THEN handle' = "Joining" /\ reaper' = "joining"
         ELSE UNCHANGED <<handle, reaper>>
    /\ UNCHANGED <<shared, sleeping, channel, loop, app, calls, fpc, fresult, closer>>

DropRuntime ==
    /\ ~dropped /\ \A f \in Finishers : fpc[f] \in {"idle", "done"}
    /\ dropped' = TRUE
    /\ CloseAdmissionWith(Failure)
    /\ IF handle = "Available"
         THEN handle' = "Joining" /\ reaper' = "joining"
         ELSE UNCHANGED <<handle, reaper>>
    /\ UNCHANGED <<reservations, worker, exit, queue, receiving, loop, app, calls,
                   fpc, fresult>>

Reap ==
    /\ reaper = "joining" /\ wpc = "gone"
    /\ PublishJoined(JoinResult)
    /\ reaper' = "done"
    /\ UNCHANGED <<admission, reservations, channel, loop, app, calls,
                   handle, fpc, fresult, dropped, closer>>

(* Condvar::wait may return without a notification. *)
SpuriousWake(t) ==
    /\ t \in sleeping
    /\ sleeping' = sleeping \ {t}
    /\ UNCHANGED <<shared, channel, loop, app, calls, owners>>

-----------------------------------------------------------------------------
Submit(c) ==
    \/ Reserve(c) \/ ReserveRefused(c)
    \/ Send(c) \/ SendFails(c) \/ ResolveReservation(c)

TrySubmit(c) == TryAccepted(c) \/ TryRefused(c)

Work ==
    \/ SelectControl \/ SelectNoControl \/ PollEmpty \/ PollDisconnected
    \/ TakeRequest \/ ExecuteReplies \/ ExecutePanics
    \/ DrainEmpty \/ DrainCheck \/ DrainWakes \/ DrainDone \/ Finish
    \/ PublishExited \/ AnswerPanicked \/ DropReceiver \/ DropExecutor

FinishAndJoin(f) ==
    \/ CloseAdmission(f) \/ TakeHandle(f) \/ AnnounceOwner(f)
    \/ JoinWorker(f) \/ WaitForJoined(f)

Next ==
    \/ \E c \in Submitters : Submit(c)
    \/ \E c \in Tryers : TrySubmit(c)
    \/ \E c \in Calls : Receive(c)
    \/ Work
    \/ \E f \in Finishers : FinishAndJoin(f)
    \/ DropRuntime \/ Reap
    \/ \E t \in Finishers \cup {"worker"} : SpuriousWake(t)

Spec == Init /\ [][Next]_vars

(* Threads that have started are scheduled, and the application returns or  *)
(* panics.  Nothing obliges anybody to call, to shut down or to drop, and   *)
(* spurious wakeups are never owed.                                         *)
Fairness ==
    /\ WF_vars(Work) /\ WF_vars(Reap)
    /\ \A c \in Submitters :
         WF_vars(Send(c) \/ SendFails(c) \/ ResolveReservation(c))
    /\ \A c \in Calls : WF_vars(Receive(c))
    /\ \A f \in Finishers :
         WF_vars(TakeHandle(f) \/ AnnounceOwner(f) \/ JoinWorker(f) \/ WaitForJoined(f))

FairSpec == Spec /\ Fairness
-----------------------------------------------------------------------------
(* Types *)

TypeShared ==
    /\ admission \in {"Open", "Closing"} /\ reservations \in Nat
    /\ worker \in {"Running", "Exited", "Joined"}
    /\ exit \in Endings \cup {"None"}
    /\ sleeping \subseteq Finishers \cup {"worker"}

TypeChannel ==
    /\ queue \in Seq(Calls) /\ receiving \in BOOLEAN
    /\ control \in Seq(Reasons)

TypeLoop ==
    /\ wpc \in {"select", "poll", "blocked", "execute", "drain", "check",
                "parked", "final", "finish", "publish", "answer", "close",
                "dropExecutor", "gone"}
    /\ resume \in {"select", "drain", "final"}
    /\ current \in Calls \cup {NoCall}
    /\ pending \in Endings \cup {"None"} /\ reason \in Reasons \cup {"None"}

TypeApp ==
    /\ executed \in Seq(Calls)
    /\ finishes \in Seq([reason : Reasons \cup {"None"}, ok : BOOLEAN])

TypeCalls ==
    /\ cpc \in [Calls -> {"idle", "reserved", "sent", "unsent", "awaiting", "done"}]
    /\ reply \in [Calls -> Replies \cup {"None", "WorkerPanicked", "Disconnected"}]
    /\ result \in [Calls -> Replies \cup Refusals \cup {"None"}]

TypeOwners ==
    /\ handle \in {"Available", "Joining", "Joined"}
    /\ fpc \in [Finishers -> {"idle", "closed", "owner", "joining", "enter", "waiting", "done"}]
    /\ fresult \in [Finishers -> Endings \cup {"None"}]
    /\ reaper \in {"none", "joining", "done"} /\ dropped \in BOOLEAN
    /\ closer \in Reasons \cup {"None"}

TypeOK == TypeShared /\ TypeChannel /\ TypeLoop /\ TypeApp /\ TypeCalls /\ TypeOwners

-----------------------------------------------------------------------------
(* Safety *)

Reserved == {c \in Submitters : cpc[c] \in {"reserved", "sent", "unsent"}}

(* The count the worker waits on is exactly the number of blocking calls    *)
(* between reserve and resolve_reservation: it never saturates at zero, and *)
(* no early return leaks a reservation that would keep shutdown waiting.    *)
ReservationsCounted == reservations = Cardinality(Reserved)

Ended == pending # "None"
Graceful == Ended /\ pending # "WorkerPanicked"

(* Unless the application panics, no accepted request is dropped with the   *)
(* queue: once the worker has decided how it ends, every call whose send    *)
(* succeeded has the application's own reply, and no call can still send.   *)
GracefulEndLosesNothing ==
    Graceful =>
      /\ queue = <<>>
      /\ \A c \in Calls :
           /\ cpc[c] # "reserved"
           /\ cpc[c] \in {"sent", "awaiting"} => reply[c] \in Replies

(* While admission is open and the worker is running, the queue's receiver  *)
(* exists, so the Disconnected branch of try_submit is dead; a terminal     *)
(* error is published before anybody can be disconnected.                   *)
OpenMeansServed ==
    /\ admission = "Open" => worker = "Running" /\ receiving
    /\ ~receiving => worker # "Running"
    /\ \A c \in Calls : reply[c] = "Disconnected" => exit = "WorkerPanicked"

(* Every finish_and_join that returns does so after the thread is gone and  *)
(* with the same ending, however the joins, the reaper and the publishing   *)
(* of the exit interleave.                                                  *)
JoinersAgree ==
    \A f \in Finishers : fpc[f] = "done" =>
      /\ wpc = "gone" /\ worker = "Joined"
      /\ fresult[f] = pending /\ exit = pending

(* The application is finished successfully at most once, by the worker's   *)
(* loop, the panic path or the executor's Drop, and at the end at least one *)
(* attempt was made.                                                        *)
FinishedOnce ==
    /\ \A i, j \in 1..Len(finishes) : finishes[i].ok /\ finishes[j].ok => i = j
    /\ wpc = "gone" => finishes # <<>>

(* Once finish has been called on the application, it executes nothing.     *)
NothingAfterFinish == [][finishes # <<>> => executed' = executed]_vars

-----------------------------------------------------------------------------
(* The contract the transport implements *)

Phase ==
    IF pending = "None" THEN "serving"
    ELSE IF pending # "WorkerPanicked" THEN "finished"
    ELSE IF receiving THEN "panicked" ELSE "abandoned"

Transport == INSTANCE CommandTransport
    WITH inbox <- queue, log <- executed, busy <- current, phase <- Phase

(* The runtime implements CommandTransport: first in first out, one reply   *)
(* for each accepted call, no execution of a refused one.                   *)
ImplementsTransport == Transport!Spec

-----------------------------------------------------------------------------
(* Liveness *)

(* Every call that was admitted returns. *)
AdmittedCallsReturn ==
    \A c \in Calls : cpc[c] \in {"reserved", "sent", "unsent", "awaiting"} ~> cpc[c] = "done"

(* Every finish_and_join returns. *)
ShutdownCompletes == \A f \in Finishers : fpc[f] = "closed" ~> fpc[f] = "done"

(* After Drop the thread is eventually joined by the reaper, which is what  *)
(* wait_for_termination waits for.                                          *)
DroppedIsReaped == dropped ~> worker = "Joined"

=============================================================================
