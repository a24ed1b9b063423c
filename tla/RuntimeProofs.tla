---------------------------- MODULE RuntimeProofs ----------------------------
(***************************************************************************)
(* What holds of the runtime for every number of calls, finishers and      *)
(* queue slots.  The inductive invariant relates the worker's place to the *)
(* shared state it leaves behind: once draining has seen no reservation    *)
(* with admission closed, nobody can send any more, so an empty queue      *)
(* stays empty until the end.                                              *)
(***************************************************************************)
EXTENDS Runtime, TLAPS, FiniteSetTheorems

InSeq(c, s) == \E i \in 1..Len(s) : s[i] = c

(* Where the worker is, against what it has decided and published *)
Places ==
    /\ Ended <=> wpc \in {"publish", "answer", "close", "dropExecutor", "gone"}
    /\ worker # "Running" <=> wpc \in {"answer", "close", "dropExecutor", "gone"}
    /\ ~receiving <=> wpc \in {"dropExecutor", "gone"}
    /\ worker = "Running" <=> exit = "None"
    /\ worker # "Running" => exit = pending

(* The request in hand *)
InHand ==
    /\ wpc \in {"execute", "answer"} => current \in Calls
    /\ current # NoCall =>
         wpc = "execute" \/ (wpc \in {"publish", "answer"} /\ pending = "WorkerPanicked")

(* Admission is closed for good when the worker drains or has published *)
Draining ==
    \/ wpc \in {"drain", "check", "parked", "final", "finish"}
    \/ wpc = "execute" /\ resume \in {"drain", "final"}

Closed ==
    /\ control # <<>> \/ Draining \/ worker # "Running" => admission = "Closing"

(* Nobody can send any more *)
Final == wpc \in {"final", "finish"} \/ (wpc = "execute" /\ resume = "final")

Sealed ==
    /\ Final \/ Graceful => admission = "Closing" /\ \A c \in Calls : cpc[c] # "reserved"
    /\ wpc = "finish" \/ Graceful => queue = <<>>

(* Where an accepted request is *)
Accounted ==
    \A c \in Calls :
      /\ cpc[c] \in {"sent", "awaiting"} => InSeq(c, queue) \/ current = c \/ reply[c] # "None"
      /\ reply[c] \in {"WorkerPanicked", "Disconnected"} => pending = "WorkerPanicked"
      /\ reply[c] \in {"Disconnected"} => ~receiving
      /\ c \in Tryers => cpc[c] \in {"idle", "awaiting", "done"}

(* A thread that has been joined is gone *)
JoinedIsGone == worker = "Joined" => wpc = "gone"

(* How often finish has been called *)
FinishCalls ==
    /\ ~Ended => finishes = <<>>
    /\ wpc # "gone" => Len(finishes) \in {0, 1}
    /\ wpc = "gone" => Len(finishes) \in {1, 2}
    /\ Len(finishes) = 2 => ~finishes[1].ok

IInv ==
    /\ TypeOK /\ ReservationsCounted
    /\ Places /\ InHand /\ Closed /\ Sealed /\ Accounted
    /\ JoinedIsGone /\ JoinersAgree /\ FinishCalls

-----------------------------------------------------------------------------
(* Every step of the runtime keeps every variable in its range. *)
LEMMA TypeStep == TypeOK /\ [Next]_vars => TypeOK'
<1> SUFFICES ASSUME TypeOK, [Next]_vars
             PROVE  TypeOK'
  OBVIOUS
<1> USE DEF TypeOK, shared, channel, loop, app, calls, owners, NotifyAll, Goto, Return
<1>1. ASSUME NEW c \in Submitters, Submit(c)
      PROVE  TypeOK'
  <2>1. CASE Reserve(c)
    <3>1. TypeShared'
      BY <2>1 DEF Reserve, TypeShared, Endings
    <3>2. TypeCalls'
      BY <2>1 DEF Reserve, TypeCalls, Calls
    <3> QED
      BY <2>1, <3>1, <3>2 DEF Reserve, TypeChannel, TypeLoop, TypeApp, TypeOwners
  <2>2. CASE ReserveRefused(c)
    <3>1. TypeCalls'
      BY <2>2 DEF ReserveRefused, TerminalError, TypeCalls, TypeShared, Endings, Errors, Refusals, Replies, Calls
    <3> QED
      BY <2>2, <3>1 DEF ReserveRefused, TypeShared, TypeChannel, TypeLoop, TypeApp, TypeOwners, TerminalError
  <2>3. CASE Send(c)
    <3>1. TypeChannel'
      BY <2>3 DEF Send, TypeChannel, Calls
    <3>2. TypeCalls'
      BY <2>3 DEF Send, TypeCalls, Calls
    <3> QED
      BY <2>3, <3>1, <3>2 DEF Send, TypeShared, TypeLoop, TypeApp, TypeOwners
  <2>4. CASE SendFails(c)
    <3>1. TypeCalls'
      BY <2>4 DEF SendFails, TypeCalls, Calls
    <3> QED
      BY <2>4, <3>1 DEF SendFails, TypeShared, TypeChannel, TypeLoop, TypeApp, TypeOwners
  <2>5. CASE ResolveReservation(c)
    <3>1. TypeShared'
      BY <2>5 DEF ResolveReservation, TerminalError, TypeShared, Endings
    <3>2. TypeCalls'
      BY <2>5 DEF ResolveReservation, TerminalError, TypeCalls, TypeShared, Endings, Errors, Refusals, Replies, Calls
    <3> QED
      BY <2>5, <3>1, <3>2 DEF ResolveReservation, TypeChannel, TypeLoop, TypeApp, TypeOwners, TerminalError
  <2> QED
    BY <1>1, <2>1, <2>2, <2>3, <2>4, <2>5 DEF Submit
<1>2. ASSUME NEW c \in Tryers, TrySubmit(c)
      PROVE  TypeOK'
  <2>1. CASE TryAccepted(c)
    <3>1. TypeChannel'
      BY <2>1 DEF TryAccepted, TypeChannel, Calls
    <3>2. TypeCalls'
      BY <2>1 DEF TryAccepted, TypeCalls, Calls
    <3> QED
      BY <2>1, <3>1, <3>2 DEF TryAccepted, TypeShared, TypeLoop, TypeApp, TypeOwners
  <2>2. CASE TryRefused(c)
    <3>1. TypeCalls'
      BY <2>2 DEF TryRefused, TerminalError, TypeCalls, TypeShared, Endings, Errors, Refusals, Replies, Calls
    <3> QED
      BY <2>2, <3>1 DEF TryRefused, TypeShared, TypeChannel, TypeLoop, TypeApp, TypeOwners, TerminalError
  <2> QED
    BY <1>2, <2>1, <2>2 DEF TrySubmit
<1>3. ASSUME NEW c \in Calls, Receive(c)
      PROVE  TypeOK'
  <2>1. TypeCalls'
    BY <1>3 DEF Receive, TerminalError, TypeCalls, TypeShared, Endings, Errors, Refusals, Replies
  <2> QED
    BY <1>3, <2>1 DEF Receive, TypeShared, TypeChannel, TypeLoop, TypeApp, TypeOwners, TerminalError
<1>4. CASE Work
  <2>1. CASE SelectControl
    <3>1. TypeChannel'
      BY <2>1 DEF SelectControl, TypeChannel
    <3>2. TypeLoop'
      BY <2>1 DEF SelectControl, TypeLoop, TypeChannel
    <3> QED
      BY <2>1, <3>1, <3>2 DEF SelectControl, TypeShared, TypeApp, TypeCalls, TypeOwners
  <2>2. CASE SelectNoControl
    <3>1. TypeLoop'
      BY <2>2 DEF SelectNoControl, TypeLoop
    <3> QED
      BY <2>2, <3>1 DEF SelectNoControl, TypeShared, TypeChannel, TypeApp, TypeCalls, TypeOwners
  <2>3. CASE PollEmpty
    <3>1. TypeLoop'
      BY <2>3 DEF PollEmpty, TypeLoop
    <3> QED
      BY <2>3, <3>1 DEF PollEmpty, TypeShared, TypeChannel, TypeApp, TypeCalls, TypeOwners
  <2>4. CASE PollDisconnected
    <3>1. TypeLoop'
      BY <2>4 DEF PollDisconnected, TypeLoop, Endings
    <3> QED
      BY <2>4, <3>1 DEF PollDisconnected, TypeShared, TypeChannel, TypeApp, TypeCalls, TypeOwners
  <2>5. CASE TakeRequest
    <3>1. TypeChannel'
      BY <2>5 DEF TakeRequest, TypeChannel
    <3>2. TypeLoop'
      BY <2>5 DEF TakeRequest, TypeLoop, TypeChannel
    <3>3. TypeApp'
      BY <2>5 DEF TakeRequest, TypeApp, TypeChannel
    <3> QED
      BY <2>5, <3>1, <3>2, <3>3 DEF TakeRequest, TypeShared, TypeCalls, TypeOwners
  <2>6. CASE ExecuteReplies
    <3>1. TypeLoop'
      BY <2>6 DEF ExecuteReplies, TypeLoop
    <3>2. TypeCalls'
      BY <2>6 DEF ExecuteReplies, TypeCalls
    <3> QED
      BY <2>6, <3>1, <3>2 DEF ExecuteReplies, TypeShared, TypeChannel, TypeApp, TypeOwners
  <2>7. CASE ExecutePanics
    <3>1. TypeLoop'
      BY <2>7, RuntimeAssumption DEF ExecutePanics, TypeLoop, Endings
    <3>2. TypeApp'
      BY <2>7, RuntimeAssumption DEF ExecutePanics, TypeApp
    <3> QED
      BY <2>7, <3>1, <3>2 DEF ExecutePanics, TypeShared, TypeChannel, TypeCalls, TypeOwners
  <2>8. CASE DrainEmpty
    <3>1. TypeLoop'
      BY <2>8 DEF DrainEmpty, TypeLoop
    <3> QED
      BY <2>8, <3>1 DEF DrainEmpty, TypeShared, TypeChannel, TypeApp, TypeCalls, TypeOwners
  <2>9. CASE DrainCheck
    <3>1. TypeShared'
      BY <2>9 DEF DrainCheck, TypeShared, Endings
    <3>2. TypeLoop'
      BY <2>9 DEF DrainCheck, TypeLoop
    <3> QED
      BY <2>9, <3>1, <3>2 DEF DrainCheck, TypeChannel, TypeApp, TypeCalls, TypeOwners
  <2>10. CASE DrainWakes
    <3>1. TypeLoop'
      BY <2>10 DEF DrainWakes, TypeLoop
    <3> QED
      BY <2>10, <3>1 DEF DrainWakes, TypeShared, TypeChannel, TypeApp, TypeCalls, TypeOwners
  <2>11. CASE DrainDone
    <3>1. TypeLoop'
      BY <2>11 DEF DrainDone, TypeLoop
    <3> QED
      BY <2>11, <3>1 DEF DrainDone, TypeShared, TypeChannel, TypeApp, TypeCalls, TypeOwners
  <2>12. CASE Finish
    <3>1. TypeLoop'
      BY <2>12 DEF Finish, TypeLoop, Endings
    <3>2. TypeApp'
      BY <2>12 DEF Finish, TypeApp, TypeLoop
    <3> QED
      BY <2>12, <3>1, <3>2 DEF Finish, TypeShared, TypeChannel, TypeCalls, TypeOwners
  <2>13. CASE PublishExited
    <3>1. TypeShared'
      BY <2>13 DEF PublishExited, TypeShared, Endings, TypeLoop
    <3>2. TypeLoop'
      BY <2>13 DEF PublishExited, TypeLoop
    <3> QED
      BY <2>13, <3>1, <3>2 DEF PublishExited, TypeChannel, TypeApp, TypeCalls, TypeOwners
  <2>14. CASE AnswerPanicked
    <3>1. TypeLoop'
      BY <2>14 DEF AnswerPanicked, TypeLoop
    <3>2. TypeCalls'
      BY <2>14 DEF AnswerPanicked, TypeCalls
    <3> QED
      BY <2>14, <3>1, <3>2 DEF AnswerPanicked, TypeShared, TypeChannel, TypeApp, TypeOwners
  <2>15. CASE DropReceiver
    <3>1. TypeChannel'
      <4>1. queue' = <<>> /\ receiving' = FALSE /\ control' = control
        BY <2>15 DEF DropReceiver
      <4>2. queue' \in Seq(Calls)
        BY <4>1
      <4>3. receiving' \in BOOLEAN
        BY <4>1
      <4> QED
        BY <4>1, <4>2, <4>3 DEF TypeChannel
    <3>2. TypeLoop'
      BY <2>15 DEF DropReceiver, TypeLoop
    <3>3. TypeCalls'
      BY <2>15 DEF DropReceiver, TypeCalls
    <3> QED
      BY <2>15, <3>1, <3>2, <3>3 DEF DropReceiver, TypeShared, TypeApp, TypeOwners
  <2>16. CASE DropExecutor
    <3>1. TypeLoop'
      BY <2>16, RuntimeAssumption DEF DropExecutor, TypeLoop
    <3>2. TypeApp'
      <4>1. UNCHANGED executed
        BY <2>16 DEF DropExecutor
      <4>2. \/ UNCHANGED finishes
           \/ \E ok \in BOOLEAN : finishes' = Append(finishes, [reason |-> Failure, ok |-> ok])
        BY <2>16 DEF DropExecutor
      <4>3. CASE UNCHANGED finishes
        BY <4>1, <4>3 DEF TypeApp
      <4>4. ASSUME NEW ok \in BOOLEAN,
                  finishes' = Append(finishes, [reason |-> Failure, ok |-> ok])
           PROVE  TypeApp'
        BY <4>1, <4>4, RuntimeAssumption DEF TypeApp
      <4> QED
        BY <4>2, <4>3, <4>4
    <3> QED
      BY <2>16, <3>1, <3>2 DEF DropExecutor, TypeShared, TypeChannel, TypeCalls, TypeOwners
  <2> QED
    BY <1>4, <2>1, <2>2, <2>3, <2>4, <2>5, <2>6, <2>7, <2>8, <2>9, <2>10, <2>11, <2>12, <2>13, <2>14, <2>15, <2>16 DEF Work
<1>5. ASSUME NEW f \in Finishers, FinishAndJoin(f)
      PROVE  TypeOK'
  <2>1. CASE CloseAdmission(f)
    <3>1. TypeShared'
      BY <2>1, RuntimeAssumption DEF CloseAdmission, CloseAdmissionWith, TypeShared, Endings
    <3>2. TypeChannel'
      <4>1. queue' = queue /\ receiving' = receiving
        BY <2>1 DEF CloseAdmission
      <4>2. control' = control \/ \E why \in Reasons : control' = Append(control, why)
        BY <2>1 DEF CloseAdmission, CloseAdmissionWith
      <4> QED
        BY <4>1, <4>2 DEF TypeChannel
    <3>3. TypeOwners'
      BY <2>1, RuntimeAssumption DEF CloseAdmission, CloseAdmissionWith, TypeOwners
    <3> QED
      BY <2>1, <3>1, <3>2, <3>3 DEF CloseAdmission, TypeLoop, TypeApp, TypeCalls, CloseAdmissionWith
  <2>2. CASE TakeHandle(f)
    <3>1. TypeOwners'
      BY <2>2 DEF TakeHandle, TypeOwners
    <3> QED
      BY <2>2, <3>1 DEF TakeHandle, TypeShared, TypeChannel, TypeLoop, TypeApp, TypeCalls
  <2>3. CASE AnnounceOwner(f)
    <3>1. TypeShared'
      BY <2>3 DEF AnnounceOwner, TypeShared, Endings
    <3>2. TypeOwners'
      BY <2>3 DEF AnnounceOwner, TypeOwners
    <3> QED
      BY <2>3, <3>1, <3>2 DEF AnnounceOwner, TypeChannel, TypeLoop, TypeApp, TypeCalls
  <2>4. CASE JoinWorker(f)
    <3>1. TypeShared'
      BY <2>4 DEF JoinWorker, PublishJoined, JoinResult, TypeShared, Endings, TypeLoop
    <3>2. TypeOwners'
      BY <2>4 DEF JoinWorker, PublishJoined, JoinResult, TypeOwners, TypeShared, TypeLoop, Endings
    <3> QED
      BY <2>4, <3>1, <3>2 DEF JoinWorker, TypeChannel, TypeLoop, TypeApp, TypeCalls, PublishJoined, JoinResult
  <2>5. CASE WaitForJoined(f)
    <3>1. TypeShared'
      BY <2>5 DEF WaitForJoined, TypeShared, Endings
    <3>2. TypeOwners'
      BY <2>5 DEF WaitForJoined, TypeOwners, TypeShared, TypeLoop, Endings
    <3> QED
      BY <2>5, <3>1, <3>2 DEF WaitForJoined, TypeChannel, TypeLoop, TypeApp, TypeCalls
  <2> QED
    BY <1>5, <2>1, <2>2, <2>3, <2>4, <2>5 DEF FinishAndJoin
<1>6. CASE DropRuntime
  <2>1. TypeShared'
    BY <1>6, RuntimeAssumption DEF DropRuntime, CloseAdmissionWith, TypeShared, Endings
  <2>2. TypeChannel'
    BY <1>6, RuntimeAssumption DEF DropRuntime, CloseAdmissionWith, TypeChannel
  <2>3. TypeOwners'
    BY <1>6, RuntimeAssumption DEF DropRuntime, CloseAdmissionWith, TypeOwners
  <2> QED
    BY <1>6, <2>1, <2>2, <2>3 DEF DropRuntime, TypeLoop, TypeApp, TypeCalls, CloseAdmissionWith
<1>7. CASE Reap
  <2>1. TypeShared'
    BY <1>7 DEF Reap, PublishJoined, JoinResult, TypeShared, Endings, TypeLoop
  <2>2. TypeOwners'
    BY <1>7 DEF Reap, PublishJoined, JoinResult, TypeOwners, TypeShared, TypeLoop, Endings
  <2> QED
    BY <1>7, <2>1, <2>2 DEF Reap, TypeChannel, TypeLoop, TypeApp, TypeCalls, PublishJoined, JoinResult
<1>8. ASSUME NEW t \in Finishers \cup {"worker"}, SpuriousWake(t)
      PROVE  TypeOK'
  <2>1. TypeShared'
    BY <1>8 DEF SpuriousWake, TypeShared, Endings
  <2> QED
    BY <1>8, <2>1 DEF SpuriousWake, TypeChannel, TypeLoop, TypeApp, TypeCalls, TypeOwners
<1>9. CASE UNCHANGED vars
  BY <1>9 DEF vars, TypeShared, TypeChannel, TypeLoop, TypeApp, TypeCalls, TypeOwners
<1> QED
  BY <1>1, <1>2, <1>3, <1>4, <1>5, <1>6, <1>7, <1>8, <1>9 DEF Next

-----------------------------------------------------------------------------
(* Who can disturb what: a call never moves the worker and never touches    *)
(* the published state; a joiner never touches the queue, the worker or a   *)
(* call.                                                                    *)
LEMMA CallFrame ==
  ASSUME \/ \E c \in Submitters : Submit(c)
         \/ \E c \in Tryers : TrySubmit(c)
         \/ \E c \in Calls : Receive(c)
  PROVE  UNCHANGED <<admission, worker, exit, receiving, control, loop, app, owners>>
BY DEF Submit, TrySubmit, Reserve, ReserveRefused, Send, SendFails, ResolveReservation,
       TryAccepted, TryRefused, Receive, shared, channel, loop, app, owners

LEMMA OwnerFrame ==
  ASSUME \/ \E f \in Finishers : FinishAndJoin(f)
         \/ DropRuntime \/ Reap
         \/ \E t \in Finishers \cup {"worker"} : SpuriousWake(t)
  PROVE  UNCHANGED <<reservations, queue, receiving, loop, app, calls>>
BY DEF FinishAndJoin, CloseAdmission, TakeHandle, AnnounceOwner, JoinWorker,
       WaitForJoined, DropRuntime, Reap, SpuriousWake,
       shared, channel, loop, app, calls

(* Shutdown closes admission and may leave a reason behind; a join          *)
(* republishes what the thread published.                                   *)
LEMMA OwnerEffect ==
  ASSUME \/ \E f \in Finishers : FinishAndJoin(f)
         \/ DropRuntime \/ Reap
         \/ \E t \in Finishers \cup {"worker"} : SpuriousWake(t)
  PROVE  /\ \/ UNCHANGED <<admission, control>>
            \/ admission' = "Closing"
         /\ \/ UNCHANGED <<worker, exit>>
            \/ wpc = "gone" /\ worker' = "Joined" /\ exit' = JoinResult
<1>1. ASSUME NEW f \in Finishers, FinishAndJoin(f)
      PROVE  /\ UNCHANGED <<admission, control>> \/ admission' = "Closing"
             /\ \/ UNCHANGED <<worker, exit>>
                \/ wpc = "gone" /\ worker' = "Joined" /\ exit' = JoinResult
  BY <1>1 DEF FinishAndJoin, CloseAdmission, TakeHandle, AnnounceOwner, JoinWorker,
       WaitForJoined, CloseAdmissionWith, PublishJoined, shared, channel
<1> QED
  BY <1>1 DEF DropRuntime, Reap, SpuriousWake, CloseAdmissionWith, PublishJoined, shared, channel

(* The worker publishes before it answers, closes and goes. *)
LEMMA PlacesStep ==
  ASSUME TypeOK, Places, [Next]_vars
  PROVE  Places'
<1> USE RuntimeAssumption DEF Places, Ended, TypeOK, TypeLoop, TypeShared, Endings
<1>1. CASE \/ \E c \in Submitters : Submit(c)
           \/ \E c \in Tryers : TrySubmit(c)
           \/ \E c \in Calls : Receive(c)
  BY <1>1, CallFrame DEF loop
<1>2. CASE Work
  <2>1. CASE SelectControl
    BY <2>1 DEF SelectControl, Goto, shared, channel, calls
  <2>2. CASE SelectNoControl
    BY <2>2 DEF SelectNoControl, Goto, shared, channel, calls
  <2>3. CASE PollEmpty
    BY <2>3 DEF PollEmpty, Goto, shared, channel, calls
  <2>4. CASE PollDisconnected
    BY <2>4 DEF PollDisconnected, Goto, shared, channel, calls
  <2>5. CASE TakeRequest
    BY <2>5 DEF TakeRequest, Goto, shared, channel, calls
  <2>6. CASE ExecuteReplies
    BY <2>6 DEF ExecuteReplies, Goto, shared, channel, calls
  <2>7. CASE ExecutePanics
    BY <2>7 DEF ExecutePanics, Goto, shared, channel, calls
  <2>8. CASE DrainEmpty
    BY <2>8 DEF DrainEmpty, Goto, shared, channel, calls
  <2>9. CASE DrainCheck
    BY <2>9 DEF DrainCheck, Goto, shared, channel, calls
  <2>10. CASE DrainWakes
    BY <2>10 DEF DrainWakes, Goto, shared, channel, calls
  <2>11. CASE DrainDone
    BY <2>11 DEF DrainDone, Goto, shared, channel, calls
  <2>12. CASE Finish
    BY <2>12 DEF Finish, Goto, shared, channel, calls
  <2>13. CASE PublishExited
    BY <2>13 DEF PublishExited, Goto, shared, channel, calls
  <2>14. CASE AnswerPanicked
    BY <2>14 DEF AnswerPanicked, Goto, shared, channel, calls
  <2>15. CASE DropReceiver
    BY <2>15 DEF DropReceiver, Goto, shared, channel, calls
  <2>16. CASE DropExecutor
    BY <2>16 DEF DropExecutor, Goto, shared, channel, calls
  <2> QED
    BY <1>2, <2>1, <2>2, <2>3, <2>4, <2>5, <2>6, <2>7, <2>8, <2>9, <2>10, <2>11, <2>12, <2>13, <2>14, <2>15, <2>16 DEF Work
<1>3. CASE \/ \E f \in Finishers : FinishAndJoin(f)
           \/ DropRuntime \/ Reap
           \/ \E t \in Finishers \cup {"worker"} : SpuriousWake(t)
  BY <1>3, OwnerFrame, OwnerEffect DEF loop, JoinResult
<1>4. CASE UNCHANGED vars
  BY <1>4 DEF vars, shared, channel, loop, app, calls, owners
<1> QED
  BY <1>1, <1>2, <1>3, <1>4 DEF Next

(* Only a panic leaves a request in hand. *)
LEMMA InHandStep ==
  ASSUME TypeOK, Places, InHand, [Next]_vars
  PROVE  InHand'
<1> USE RuntimeAssumption DEF TypeOK, TypeLoop, TypeChannel, InHand, Places, Ended
<1>1. CASE \/ \E c \in Submitters : Submit(c)
           \/ \E c \in Tryers : TrySubmit(c)
           \/ \E c \in Calls : Receive(c)
  BY <1>1, CallFrame DEF loop
<1>2. CASE Work
  <2>1. CASE SelectControl
    BY <2>1 DEF SelectControl, Goto, shared, channel, calls
  <2>2. CASE SelectNoControl
    BY <2>2 DEF SelectNoControl, Goto, shared, channel, calls
  <2>3. CASE PollEmpty
    BY <2>3 DEF PollEmpty, Goto, shared, channel, calls
  <2>4. CASE PollDisconnected
    BY <2>4 DEF PollDisconnected, Goto, shared, channel, calls
  <2>5. CASE TakeRequest
    BY <2>5 DEF TakeRequest, Goto, shared, channel, calls
  <2>6. CASE ExecuteReplies
    BY <2>6 DEF ExecuteReplies, Goto, shared, channel, calls
  <2>7. CASE ExecutePanics
    BY <2>7 DEF ExecutePanics, Goto, shared, channel, calls
  <2>8. CASE DrainEmpty
    BY <2>8 DEF DrainEmpty, Goto, shared, channel, calls
  <2>9. CASE DrainCheck
    BY <2>9 DEF DrainCheck, Goto, shared, channel, calls
  <2>10. CASE DrainWakes
    BY <2>10 DEF DrainWakes, Goto, shared, channel, calls
  <2>11. CASE DrainDone
    BY <2>11 DEF DrainDone, Goto, shared, channel, calls
  <2>12. CASE Finish
    BY <2>12 DEF Finish, Goto, shared, channel, calls
  <2>13. CASE PublishExited
    BY <2>13 DEF PublishExited, Goto, shared, channel, calls
  <2>14. CASE AnswerPanicked
    BY <2>14 DEF AnswerPanicked, Goto, shared, channel, calls
  <2>15. CASE DropReceiver
    BY <2>15 DEF DropReceiver, Goto, shared, channel, calls
  <2>16. CASE DropExecutor
    BY <2>16 DEF DropExecutor, Goto, shared, channel, calls
  <2> QED
    BY <1>2, <2>1, <2>2, <2>3, <2>4, <2>5, <2>6, <2>7, <2>8, <2>9, <2>10, <2>11, <2>12, <2>13, <2>14, <2>15, <2>16 DEF Work
<1>3. CASE \/ \E f \in Finishers : FinishAndJoin(f)
           \/ DropRuntime \/ Reap
           \/ \E t \in Finishers \cup {"worker"} : SpuriousWake(t)
  BY <1>3, OwnerFrame, OwnerEffect DEF loop
<1>4. CASE UNCHANGED vars
  BY <1>4 DEF vars, shared, channel, loop, app, calls, owners
<1> QED
  BY <1>1, <1>2, <1>3, <1>4 DEF Next

(* Nothing reopens admission. *)
LEMMA ClosedStep ==
  ASSUME TypeOK, Places, Closed, [Next]_vars
  PROVE  Closed'
<1> USE RuntimeAssumption DEF TypeOK, TypeLoop, TypeShared, Closed, Draining, Places, Ended
<1>1. CASE \/ \E c \in Submitters : Submit(c)
           \/ \E c \in Tryers : TrySubmit(c)
           \/ \E c \in Calls : Receive(c)
  BY <1>1, CallFrame DEF loop
<1>2. CASE Work
  <2>1. CASE SelectControl
    BY <2>1 DEF SelectControl, shared
  <2>2. CASE SelectNoControl
    BY <2>2 DEF SelectNoControl, Goto, shared, channel, calls
  <2>3. CASE PollEmpty
    BY <2>3 DEF PollEmpty, Goto, shared, channel, calls
  <2>4. CASE PollDisconnected
    BY <2>4 DEF PollDisconnected, Goto, shared, channel, calls
  <2>5. CASE TakeRequest
    BY <2>5 DEF TakeRequest, Goto, shared, channel, calls
  <2>6. CASE ExecuteReplies
    BY <2>6 DEF ExecuteReplies, Goto, shared, channel, calls
  <2>7. CASE ExecutePanics
    BY <2>7 DEF ExecutePanics, Goto, shared, channel, calls
  <2>8. CASE DrainEmpty
    BY <2>8 DEF DrainEmpty, Goto, shared, channel, calls
  <2>9. CASE DrainCheck
    BY <2>9 DEF DrainCheck, Goto, shared, channel, calls
  <2>10. CASE DrainWakes
    BY <2>10 DEF DrainWakes, Goto, shared, channel, calls
  <2>11. CASE DrainDone
    BY <2>11 DEF DrainDone, Goto, shared, channel, calls
  <2>12. CASE Finish
    BY <2>12 DEF Finish, Goto, shared, channel, calls
  <2>13. CASE PublishExited
    BY <2>13 DEF PublishExited, Goto, shared, channel, calls
  <2>14. CASE AnswerPanicked
    BY <2>14 DEF AnswerPanicked, Goto, shared, channel, calls
  <2>15. CASE DropReceiver
    BY <2>15 DEF DropReceiver, Goto, shared, channel, calls
  <2>16. CASE DropExecutor
    BY <2>16 DEF DropExecutor, Goto, shared, channel, calls
  <2> QED
    BY <1>2, <2>1, <2>2, <2>3, <2>4, <2>5, <2>6, <2>7, <2>8, <2>9, <2>10, <2>11, <2>12, <2>13, <2>14, <2>15, <2>16 DEF Work
<1>3. CASE \/ \E f \in Finishers : FinishAndJoin(f)
           \/ DropRuntime \/ Reap
           \/ \E t \in Finishers \cup {"worker"} : SpuriousWake(t)
  BY <1>3, OwnerFrame, OwnerEffect DEF loop
<1>4. CASE UNCHANGED vars
  BY <1>4 DEF vars, shared, channel, loop, app, calls, owners
<1> QED
  BY <1>1, <1>2, <1>3, <1>4 DEF Next

-----------------------------------------------------------------------------
(* Membership in the queue *)
LEMMA InAppend ==
  ASSUME NEW S, NEW s \in Seq(S), NEW x \in S, NEW c
  PROVE  InSeq(c, Append(s, x)) <=> InSeq(c, s) \/ c = x
BY DEF InSeq

LEMMA InTail ==
  ASSUME NEW S, NEW s \in Seq(S), s # <<>>, NEW c, InSeq(c, s)
  PROVE  c = Head(s) \/ InSeq(c, Tail(s))
<1> PICK i \in 1..Len(s) : s[i] = c
  BY DEF InSeq
<1>1. CASE i = 1
  BY <1>1
<1>2. CASE i # 1
  <2>1. i - 1 \in 1..Len(Tail(s)) /\ Tail(s)[i - 1] = c
    BY <1>2
  <2> QED
    BY <2>1 DEF InSeq
<1> QED
  BY <1>1, <1>2

(* No reservation means that nobody is between reserve and send. *)
LEMMA NoneReserved ==
  ASSUME TypeCalls, ReservationsCounted, Accounted, reservations = 0
  PROVE  \A c \in Calls : cpc[c] # "reserved"
<1>1. Reserved \subseteq Submitters
  BY DEF Reserved
<1>2. IsFiniteSet(Reserved)
  BY <1>1, FS_Subset, RuntimeAssumption
<1>3. Reserved = {}
  BY <1>2, FS_EmptySet DEF ReservationsCounted
<1> QED
  BY <1>3 DEF Reserved, Calls, Accounted

(* A reservation is counted from reserve to resolve_reservation. *)
LEMMA CountStep ==
  ASSUME TypeOK, ReservationsCounted, Accounted, [Next]_vars
  PROVE  ReservationsCounted'
<1>1. IsFiniteSet(Reserved)
  <2>1. Reserved \subseteq Submitters
    BY DEF Reserved
  <2> QED
    BY <2>1, FS_Subset, RuntimeAssumption
<1>2. ASSUME Reserved' = Reserved, reservations' = reservations
      PROVE  ReservationsCounted'
  BY <1>2 DEF ReservationsCounted
<1>3. ASSUME NEW c \in Submitters, Submit(c)
      PROVE  ReservationsCounted'
  <2> USE DEF TypeOK, TypeCalls, Calls, Reserved
  <2>1. CASE Reserve(c)
    <3>1. Reserved' = Reserved \cup {c} /\ c \notin Reserved
      BY <2>1 DEF Reserve, calls
    <3>2. reservations' = reservations + 1
      BY <2>1 DEF Reserve
    <3>3. Cardinality(Reserved \cup {c}) = Cardinality(Reserved) + 1
      BY <1>1, <3>1, FS_AddElement
    <3> QED
      BY <3>1, <3>2, <3>3 DEF ReservationsCounted
  <2>2. CASE ResolveReservation(c)
    <3>1. Reserved' = Reserved \ {c} /\ c \in Reserved
      BY <2>2 DEF ResolveReservation, Return
    <3>2. Cardinality(Reserved \ {c}) = Cardinality(Reserved) - 1
      BY <1>1, <3>1, FS_RemoveElement
    <3>3. Cardinality(Reserved) # 0
      BY <1>1, <3>1, FS_EmptySet
    <3>4. reservations > 0
      BY <3>3 DEF ReservationsCounted, TypeShared
    <3>5. reservations' = reservations - 1
      BY <2>2, <3>4 DEF ResolveReservation
    <3> QED
      BY <3>1, <3>2, <3>5 DEF ReservationsCounted
  <2>3. CASE ReserveRefused(c)
    <3>1. Reserved' = Reserved
      BY <2>3 DEF ReserveRefused, Return
    <3> QED
      BY <1>2, <2>3, <3>1 DEF ReserveRefused, shared
  <2>4. CASE Send(c)
    <3>1. Reserved' = Reserved
      BY <2>4 DEF Send
    <3> QED
      BY <1>2, <2>4, <3>1 DEF Send, shared
  <2>5. CASE SendFails(c)
    <3>1. Reserved' = Reserved
      BY <2>5 DEF SendFails
    <3> QED
      BY <1>2, <2>5, <3>1 DEF SendFails, shared
  <2> QED
    BY <1>3, <2>1, <2>2, <2>3, <2>4, <2>5 DEF Submit
<1>4. CASE \/ \E c \in Tryers : TrySubmit(c)
           \/ \E c \in Calls : Receive(c)
  <2>1. reservations' = reservations
    BY <1>4 DEF TrySubmit, TryAccepted, TryRefused, Receive, shared
  <2>2. Reserved' = Reserved
    BY <1>4, RuntimeAssumption
       DEF TrySubmit, TryAccepted, TryRefused, Receive, Return, Reserved, TypeOK, TypeCalls, Calls
  <2> QED
    BY <1>2, <2>1, <2>2
<1>5. CASE Work
  <2>1. UNCHANGED <<reservations, cpc>>
    BY <1>5 DEF Work, SelectControl, SelectNoControl, PollEmpty, PollDisconnected,
         TakeRequest, ExecuteReplies, ExecutePanics, DrainEmpty, DrainCheck, DrainWakes,
         DrainDone, Finish, PublishExited, AnswerPanicked, DropReceiver, DropExecutor,
         shared, calls
  <2> QED
    BY <1>2, <2>1 DEF Reserved
<1>6. CASE \/ \E f \in Finishers : FinishAndJoin(f)
           \/ DropRuntime \/ Reap
           \/ \E t \in Finishers \cup {"worker"} : SpuriousWake(t)
  BY <1>2, <1>6, OwnerFrame DEF calls, Reserved
<1>7. CASE UNCHANGED vars
  BY <1>2, <1>7 DEF vars, shared, calls, Reserved
<1> QED
  BY <1>3, <1>4, <1>5, <1>6, <1>7 DEF Next

(* Once draining has seen no reservation, the queue stays empty. *)
LEMMA SealedStep ==
  ASSUME TypeOK, ReservationsCounted, Places, InHand, Closed, Accounted, Sealed, [Next]_vars
  PROVE  Sealed'
<1> USE RuntimeAssumption DEF TypeOK, TypeLoop, Sealed, Final, Closed, Draining, Places, Graceful, Ended
<1>1. CASE \/ \E c \in Submitters : Submit(c)
           \/ \E c \in Tryers : TrySubmit(c)
           \/ \E c \in Calls : Receive(c)
  <2>1. ASSUME Final \/ Graceful
        PROVE  /\ \A c \in Calls : cpc'[c] # "reserved"
               /\ wpc = "finish" \/ Graceful => queue' = <<>>
    BY <1>1, <2>1 DEF Submit, TrySubmit, Reserve, ReserveRefused, Send, SendFails,
         ResolveReservation, TryAccepted, TryRefused, Receive, Return, TypeCalls, Calls, channel
  <2> QED
    BY <1>1, <2>1, CallFrame DEF loop
<1>2. CASE Work
  <2>1. CASE SelectControl
    BY <2>1 DEF SelectControl, Goto, shared, channel, calls
  <2>2. CASE SelectNoControl
    BY <2>2 DEF SelectNoControl, Goto, shared, channel, calls
  <2>3. CASE PollEmpty
    BY <2>3 DEF PollEmpty, Goto, shared, channel, calls
  <2>4. CASE PollDisconnected
    BY <2>4 DEF PollDisconnected, Connected, shared, channel, calls, TypeShared
  <2>5. CASE TakeRequest
    BY <2>5 DEF TakeRequest, Goto, shared, channel, calls
  <2>6. CASE ExecuteReplies
    BY <2>6 DEF ExecuteReplies, Goto, shared, channel, calls
  <2>7. CASE ExecutePanics
    BY <2>7 DEF ExecutePanics, shared, channel, calls, InHand
  <2>8. CASE DrainEmpty
    BY <2>8 DEF DrainEmpty, Goto, shared, channel, calls
  <2>9. CASE DrainCheck
    <3>1. CASE reservations = 0
      BY <2>9, <3>1, NoneReserved DEF DrainCheck, Goto, shared, channel, calls
    <3>2. CASE reservations # 0
      BY <2>9, <3>2 DEF DrainCheck, Goto, shared, channel, calls
    <3> QED
      BY <3>1, <3>2
  <2>10. CASE DrainWakes
    BY <2>10 DEF DrainWakes, Goto, shared, channel, calls
  <2>11. CASE DrainDone
    BY <2>11 DEF DrainDone, Goto, shared, channel, calls
  <2>12. CASE Finish
    BY <2>12 DEF Finish, Goto, shared, channel, calls
  <2>13. CASE PublishExited
    BY <2>13 DEF PublishExited, shared, channel, calls, InHand
  <2>14. CASE AnswerPanicked
    BY <2>14 DEF AnswerPanicked, Goto, shared, channel, calls
  <2>15. CASE DropReceiver
    BY <2>15 DEF DropReceiver, Goto, shared, channel, calls
  <2>16. CASE DropExecutor
    BY <2>16 DEF DropExecutor, Goto, shared, channel, calls
  <2> QED
    BY <1>2, <2>1, <2>2, <2>3, <2>4, <2>5, <2>6, <2>7, <2>8, <2>9, <2>10, <2>11, <2>12, <2>13, <2>14, <2>15, <2>16 DEF Work
<1>3. CASE \/ \E f \in Finishers : FinishAndJoin(f)
           \/ DropRuntime \/ Reap
           \/ \E t \in Finishers \cup {"worker"} : SpuriousWake(t)
  BY <1>3, OwnerFrame, OwnerEffect DEF loop, calls
<1>4. CASE UNCHANGED vars
  BY <1>4 DEF vars, shared, channel, loop, app, calls, owners
<1> QED
  BY <1>1, <1>2, <1>3, <1>4 DEF Next

(* An accepted request is queued, in hand or answered; only a panic takes   *)
(* its answer away.                                                         *)
LEMMA AccountedStep ==
  ASSUME TypeOK, Places, InHand, Sealed, Accounted, [Next]_vars
  PROVE  Accounted'
<1> USE RuntimeAssumption DEF TypeOK, TypeCalls
<1>1. ASSUME NEW d \in Submitters, Submit(d)
      PROVE  Accounted'
  <2>1. d \in Calls /\ d \notin Tryers
    BY DEF Calls
  <2>2. UNCHANGED <<receiving, pending, current>>
    BY <1>1, CallFrame DEF loop
  <2>3. \A c \in Calls : InSeq(c, queue) => InSeq(c, queue')
    <3>1. queue' = queue \/ queue' = Append(queue, d)
      BY <1>1 DEF Submit, Reserve, ReserveRefused, Send, SendFails, ResolveReservation, channel
    <3>2. \A c \in Calls : InSeq(c, Append(queue, d)) <=> InSeq(c, queue) \/ c = d
      BY <2>1, InAppend DEF TypeChannel
    <3> QED
      BY <3>1, <3>2
  <2>4. UNCHANGED reply
    BY <1>1 DEF Submit, Reserve, ReserveRefused, Send, SendFails, ResolveReservation
  <2>5. \A c \in Calls : c # d => cpc'[c] = cpc[c]
    BY <1>1, <2>1 DEF Submit, Reserve, ReserveRefused, Send, SendFails,
         ResolveReservation, Return
  <2>6. cpc'[d] \in {"sent", "awaiting"} => InSeq(d, queue') \/ current = d \/ reply[d] # "None"
    <3>1. CASE Send(d)
      BY <2>1, <3>1, InAppend DEF Send, TypeChannel
    <3>2. CASE ~Send(d)
      <4>1. cpc'[d] \in {"sent", "awaiting"} => cpc[d] = "sent"
        BY <1>1, <2>1, <3>2 DEF Submit, Reserve, ReserveRefused, SendFails,
             ResolveReservation, Return
      <4> QED
        BY <2>1, <2>3, <4>1 DEF Accounted
    <3> QED
      BY <3>1, <3>2
  <2> QED
    BY <2>1, <2>2, <2>3, <2>4, <2>5, <2>6 DEF Accounted
<1>2. ASSUME NEW d \in Tryers, TrySubmit(d)
      PROVE  Accounted'
  <2>1. d \in Calls
    BY DEF Calls
  <2>2. UNCHANGED <<receiving, pending, current, reply>>
    BY <1>2, CallFrame DEF loop, TrySubmit, TryAccepted, TryRefused
  <2>3. \A c \in Calls : InSeq(c, queue) => InSeq(c, queue')
    <3>1. queue' = queue \/ queue' = Append(queue, d)
      BY <1>2 DEF TrySubmit, TryAccepted, TryRefused, channel
    <3>2. \A c \in Calls : InSeq(c, Append(queue, d)) <=> InSeq(c, queue) \/ c = d
      BY <2>1, InAppend DEF TypeChannel
    <3> QED
      BY <3>1, <3>2
  <2>4. \A c \in Calls : c # d => cpc'[c] = cpc[c]
    BY <1>2, <2>1 DEF TrySubmit, TryAccepted, TryRefused, Return
  <2>5. /\ cpc'[d] \in {"awaiting", "done"}
        /\ cpc'[d] = "awaiting" => InSeq(d, queue')
    <3>1. InSeq(d, Append(queue, d))
      BY <2>1, InAppend DEF TypeChannel
    <3>2. /\ cpc'[d] \in {"awaiting", "done"}
          /\ cpc'[d] = "awaiting" => queue' = Append(queue, d)
      BY <1>2, <2>1 DEF TrySubmit, TryAccepted, TryRefused, Return
    <3> QED
      BY <3>1, <3>2
  <2> QED
    BY <2>1, <2>2, <2>3, <2>4, <2>5 DEF Accounted
<1>3. ASSUME NEW d \in Calls, Receive(d)
      PROVE  Accounted'
  <2>1. UNCHANGED <<receiving, pending, current, reply, queue>>
    BY <1>3 DEF Receive, loop, channel
  <2>2. \A c \in Calls : cpc'[c] = IF c = d THEN "done" ELSE cpc[c]
    BY <1>3 DEF Receive, Return
  <2> QED
    BY <2>1, <2>2 DEF Accounted
<1>4. CASE Work
  <2>1. CASE TakeRequest
    <3>1. \A c \in Calls : InSeq(c, queue) => InSeq(c, queue') \/ current' = c
      BY <2>1, InTail DEF TakeRequest, TypeChannel
    <3>2. current = NoCall
      BY <2>1 DEF TakeRequest, InHand
    <3>3. UNCHANGED <<receiving, pending, reply, cpc>>
      BY <2>1 DEF TakeRequest, calls
    <3> QED
      BY <3>1, <3>2, <3>3 DEF Accounted, Calls
  <2>2. CASE ExecuteReplies
    <3>1. UNCHANGED <<receiving, pending, queue, cpc>> /\ current \in Calls
      BY <2>2 DEF ExecuteReplies, channel, InHand
    <3>2. PICK value \in Replies : reply' = [reply EXCEPT ![current] = value]
      BY <2>2 DEF ExecuteReplies
    <3>3. \A c \in Calls : reply'[c] = IF c = current THEN value ELSE reply[c]
      BY <3>2
    <3>4. value \notin {"None", "WorkerPanicked", "Disconnected"}
      BY DEF Replies
    <3> QED
      BY <3>1, <3>3, <3>4 DEF Accounted
  <2>3. CASE AnswerPanicked
    <3>1. UNCHANGED <<receiving, pending, queue, cpc>> /\ current \in Calls
      BY <2>3 DEF AnswerPanicked, channel, InHand
    <3>2. pending = "WorkerPanicked"
      BY <2>3, <3>1 DEF AnswerPanicked, InHand, Calls
    <3>3. \A c \in Calls : reply'[c] = IF c = current THEN "WorkerPanicked" ELSE reply[c]
      BY <2>3, <3>1 DEF AnswerPanicked
    <3> QED
      BY <3>1, <3>2, <3>3 DEF Accounted
  <2>4. CASE DropReceiver
    <3>1. UNCHANGED <<pending, current, cpc>> /\ receiving' = FALSE
      BY <2>4 DEF DropReceiver, Goto
    <3>2. \A c \in Calls : reply'[c] = IF InSeq(c, queue) THEN "Disconnected" ELSE reply[c]
      BY <2>4 DEF DropReceiver, InSeq
    <3>3. \A c \in Calls : InSeq(c, queue) => pending = "WorkerPanicked"
      BY <2>4 DEF DropReceiver, Sealed, Graceful, Places, Ended, InSeq
    <3>4. current = NoCall
      BY <2>4 DEF DropReceiver, InHand
    <3> QED
      BY <3>1, <3>2, <3>3, <3>4 DEF Accounted, Calls
  <2>5. CASE PollDisconnected \/ ExecutePanics \/ Finish
    <3>1. UNCHANGED <<receiving, current, reply, cpc, queue>> /\ pending = "None"
      BY <2>5 DEF PollDisconnected, ExecutePanics, Finish, channel, calls, Places, Ended
    <3> QED
      BY <3>1 DEF Accounted
  <2>6. CASE \/ SelectControl \/ SelectNoControl \/ PollEmpty
             \/ DrainEmpty \/ DrainCheck \/ DrainWakes \/ DrainDone
             \/ PublishExited \/ DropExecutor
    <3>1. UNCHANGED <<receiving, pending, current, reply, cpc, queue>>
      BY <2>6 DEF SelectControl, SelectNoControl, PollEmpty, DrainEmpty, DrainCheck,
           DrainWakes, DrainDone, PublishExited, DropExecutor, Goto, channel, calls
    <3> QED
      BY <3>1 DEF Accounted
  <2> QED
    BY <1>4, <2>1, <2>2, <2>3, <2>4, <2>5, <2>6 DEF Work
<1>5. CASE \/ \E f \in Finishers : FinishAndJoin(f)
           \/ DropRuntime \/ Reap
           \/ \E t \in Finishers \cup {"worker"} : SpuriousWake(t)
  <2>1. UNCHANGED <<receiving, pending, current, reply, cpc, queue>>
    BY <1>5, OwnerFrame DEF loop, calls
  <2> QED
    BY <2>1 DEF Accounted
<1>6. CASE UNCHANGED vars
  BY <1>6 DEF Accounted, vars, channel, loop, calls
<1> QED
  BY <1>1, <1>2, <1>3, <1>4, <1>5, <1>6 DEF Next

(* Only a joiner publishes that the thread is joined, and only when it is gone. *)
LEMMA JoinedIsGoneStep ==
  ASSUME TypeOK, Places, JoinedIsGone, [Next]_vars
  PROVE  JoinedIsGone'
<1> USE RuntimeAssumption DEF JoinedIsGone, Places, Ended, TypeOK, TypeShared, TypeLoop
<1>1. CASE \/ \E c \in Submitters : Submit(c)
           \/ \E c \in Tryers : TrySubmit(c)
           \/ \E c \in Calls : Receive(c)
  BY <1>1, CallFrame DEF loop
<1>2. CASE Work
  <2>1. CASE SelectControl
    BY <2>1 DEF SelectControl, Goto, shared, channel, calls
  <2>2. CASE SelectNoControl
    BY <2>2 DEF SelectNoControl, Goto, shared, channel, calls
  <2>3. CASE PollEmpty
    BY <2>3 DEF PollEmpty, Goto, shared, channel, calls
  <2>4. CASE PollDisconnected
    BY <2>4 DEF PollDisconnected, Goto, shared, channel, calls
  <2>5. CASE TakeRequest
    BY <2>5 DEF TakeRequest, Goto, shared, channel, calls
  <2>6. CASE ExecuteReplies
    BY <2>6 DEF ExecuteReplies, Goto, shared, channel, calls
  <2>7. CASE ExecutePanics
    BY <2>7 DEF ExecutePanics, Goto, shared, channel, calls
  <2>8. CASE DrainEmpty
    BY <2>8 DEF DrainEmpty, Goto, shared, channel, calls
  <2>9. CASE DrainCheck
    BY <2>9 DEF DrainCheck, Goto, shared, channel, calls
  <2>10. CASE DrainWakes
    BY <2>10 DEF DrainWakes, Goto, shared, channel, calls
  <2>11. CASE DrainDone
    BY <2>11 DEF DrainDone, Goto, shared, channel, calls
  <2>12. CASE Finish
    BY <2>12 DEF Finish, Goto, shared, channel, calls
  <2>13. CASE PublishExited
    BY <2>13 DEF PublishExited, Goto, shared, channel, calls
  <2>14. CASE AnswerPanicked
    BY <2>14 DEF AnswerPanicked, Goto, shared, channel, calls
  <2>15. CASE DropReceiver
    BY <2>15 DEF DropReceiver, Goto, shared, channel, calls
  <2>16. CASE DropExecutor
    BY <2>16 DEF DropExecutor, Goto, shared, channel, calls
  <2> QED
    BY <1>2, <2>1, <2>2, <2>3, <2>4, <2>5, <2>6, <2>7, <2>8, <2>9, <2>10, <2>11, <2>12, <2>13, <2>14, <2>15, <2>16 DEF Work
<1>3. CASE \/ \E f \in Finishers : FinishAndJoin(f)
           \/ DropRuntime \/ Reap
           \/ \E t \in Finishers \cup {"worker"} : SpuriousWake(t)
  BY <1>3, OwnerFrame, OwnerEffect DEF loop
<1>4. CASE UNCHANGED vars
  BY <1>4 DEF vars, shared, channel, loop, app, calls, owners
<1> QED
  BY <1>1, <1>2, <1>3, <1>4 DEF Next

(* A joiner returns what the thread published, once it is gone. *)
LEMMA JoinersStep ==
  ASSUME TypeOK, Places, JoinedIsGone, JoinersAgree, [Next]_vars
  PROVE  JoinersAgree'
<1> USE DEF TypeOK, TypeOwners, TypeShared, TypeLoop
<1>1. wpc = "gone" => wpc' = "gone" /\ pending' = pending
  <2>1. CASE Work
    BY <2>1 DEF Work, SelectControl, SelectNoControl, PollEmpty, PollDisconnected,
         TakeRequest, ExecuteReplies, ExecutePanics, DrainEmpty, DrainCheck, DrainWakes,
         DrainDone, Finish, PublishExited, AnswerPanicked, DropReceiver, DropExecutor
  <2>2. CASE ~Work
    BY <2>2, CallFrame, OwnerFrame DEF Next, loop, vars
  <2> QED
    BY <2>1, <2>2
<1>2. worker = "Joined" => worker' = "Joined" /\ exit' = exit
  <2>1. CASE Work
    BY <2>1 DEF JoinedIsGone, Work, SelectControl, SelectNoControl, PollEmpty,
         PollDisconnected, TakeRequest, ExecuteReplies, ExecutePanics, DrainEmpty, DrainCheck,
         DrainWakes, DrainDone, Finish, PublishExited, AnswerPanicked, DropReceiver,
         DropExecutor, shared
  <2>2. CASE UNCHANGED <<worker, exit>>
    BY <2>2
  <2>3. CASE \/ \E f \in Finishers : FinishAndJoin(f)
             \/ DropRuntime \/ Reap
             \/ \E t \in Finishers \cup {"worker"} : SpuriousWake(t)
    <3>1. ASSUME worker = "Joined"
          PROVE  UNCHANGED <<worker, exit>>
      BY <2>3, <3>1 DEF FinishAndJoin, CloseAdmission, TakeHandle, AnnounceOwner, JoinWorker,
           WaitForJoined, DropRuntime, Reap, SpuriousWake, PublishJoined, shared
    <3> QED
      BY <3>1
  <2> QED
    BY <2>1, <2>2, <2>3, CallFrame DEF Next, vars, shared
<1>3. ASSUME NEW g \in Finishers, fpc'[g] = "done", fpc[g] # "done"
      PROVE  /\ wpc = "gone" /\ worker' = "Joined"
             /\ fresult'[g] = pending /\ exit' = pending
  <2>1. PICK f \in Finishers : JoinWorker(f) \/ WaitForJoined(f)
    BY <1>3, CallFrame DEF Next, Work, SelectControl, SelectNoControl, PollEmpty,
         PollDisconnected, TakeRequest, ExecuteReplies, ExecutePanics, DrainEmpty, DrainCheck,
         DrainWakes, DrainDone, Finish, PublishExited, AnswerPanicked, DropReceiver,
         DropExecutor, FinishAndJoin, CloseAdmission, TakeHandle, AnnounceOwner,
         DropRuntime, Reap, SpuriousWake, owners, vars
  <2>2. CASE JoinWorker(f)
    <3>1. f = g /\ wpc = "gone" /\ fresult'[g] = JoinResult
      BY <1>3, <2>2 DEF JoinWorker
    <3>2. JoinResult = pending /\ worker # "Running" /\ exit = pending
      BY <3>1 DEF JoinResult, Places
    <3> QED
      BY <2>2, <3>1, <3>2 DEF JoinWorker, PublishJoined
  <2>3. CASE WaitForJoined(f)
    <3>1. f = g /\ worker = "Joined" /\ fresult'[g] = exit /\ UNCHANGED <<worker, exit>>
      BY <1>3, <2>3 DEF WaitForJoined, shared
    <3> QED
      BY <3>1 DEF JoinedIsGone, Places
  <2> QED
    BY <2>1, <2>2, <2>3
<1>4. ASSUME NEW g \in Finishers, fpc[g] = "done"
      PROVE  fpc'[g] = "done" /\ fresult'[g] = fresult[g]
  <2>1. CASE \E f \in Finishers : FinishAndJoin(f)
    BY <1>4, <2>1 DEF FinishAndJoin, CloseAdmission, TakeHandle, AnnounceOwner, JoinWorker,
         WaitForJoined
  <2>2. CASE UNCHANGED <<fpc, fresult>>
    BY <1>4, <2>2
  <2> QED
    BY <2>1, <2>2, CallFrame DEF Next, Work, SelectControl, SelectNoControl, PollEmpty,
         PollDisconnected, TakeRequest, ExecuteReplies, ExecutePanics, DrainEmpty, DrainCheck,
         DrainWakes, DrainDone, Finish, PublishExited, AnswerPanicked, DropReceiver,
         DropExecutor, DropRuntime, Reap, SpuriousWake, owners, vars
<1>5. fpc \in [Finishers -> {"idle", "closed", "owner", "joining", "enter", "waiting", "done"}]
  OBVIOUS
<1> QED
  BY <1>1, <1>2, <1>3, <1>4 DEF JoinersAgree

(* Finish is called once before the thread ends, and a second time by the   *)
(* executor's Drop only when the first call failed.                         *)
LEMMA FinishCallsStep ==
  ASSUME TypeOK, Places, FinishCalls, [Next]_vars
  PROVE  FinishCalls'
<1> DEFINE Call == [reason : Reasons \cup {"None"}, ok : BOOLEAN]
<1>1. finishes \in Seq(Call)
  BY DEF TypeOK, TypeApp
<1>2. CASE ExecutePanics \/ Finish
  <2>1. PICK call \in Call : finishes' = Append(finishes, call)
    BY <1>2, RuntimeAssumption DEF ExecutePanics, Finish, TypeOK, TypeLoop
  <2>2. finishes = <<>> /\ wpc' = "publish" /\ pending' # "None"
    BY <1>2 DEF ExecutePanics, Finish, FinishCalls, Places, Ended
  <2>3. Len(finishes') = 1
    BY <1>1, <2>1, <2>2
  <2> QED
    BY <2>2, <2>3 DEF FinishCalls, Ended
<1>3. CASE DropExecutor
  <2>1. wpc = "dropExecutor" /\ wpc' = "gone" /\ pending' # "None"
    BY <1>3 DEF DropExecutor, Goto, Places, Ended
  <2>2. Len(finishes) \in {0, 1}
    BY <2>1 DEF FinishCalls
  <2>3. CASE Finished
    <3>1. finishes' = finishes
      BY <1>3, <2>3 DEF DropExecutor
    <3>2. Len(finishes) = 1
      BY <1>1, <2>2, <2>3 DEF Finished
    <3> QED
      BY <2>1, <3>1, <3>2 DEF FinishCalls, Ended
  <2>4. CASE ~Finished
    <3>1. PICK call \in Call : finishes' = Append(finishes, call)
      BY <1>3, <2>4, RuntimeAssumption DEF DropExecutor
    <3>2. Len(finishes') = Len(finishes) + 1
      BY <1>1, <3>1
    <3>3. Len(finishes') = 2 => finishes'[1] = finishes[1] /\ ~finishes[1].ok
      BY <1>1, <2>2, <2>4, <3>1, <3>2 DEF Finished
    <3>4. Len(finishes') \in {1, 2}
      <4>1. \A n \in {0, 1} : n + 1 \in {1, 2}
        OBVIOUS
      <4> QED
        BY <2>2, <3>2, <4>1, Zenon
    <3> QED
      BY <2>1, <3>3, <3>4 DEF FinishCalls, Ended
  <2> QED
    BY <2>3, <2>4
<1>4. CASE UNCHANGED <<finishes, pending>> /\ (wpc' = "gone" <=> wpc = "gone")
  BY <1>4 DEF FinishCalls, Ended
<1>5. CASE PollDisconnected
  <2>1. finishes = <<>> /\ UNCHANGED finishes /\ wpc' = "publish" /\ pending' # "None"
    BY <1>5 DEF PollDisconnected, FinishCalls, Places, Ended, app
  <2> QED
    BY <2>1 DEF FinishCalls, Ended
<1>6. CASE Work /\ ~(ExecutePanics \/ Finish \/ DropExecutor \/ PollDisconnected)
  <2>1. UNCHANGED <<finishes, pending>> /\ (wpc' = "gone" <=> wpc = "gone")
    BY <1>6 DEF Work, SelectControl, SelectNoControl, PollEmpty, TakeRequest, ExecuteReplies,
         DrainEmpty, DrainCheck, DrainWakes, DrainDone, PublishExited, AnswerPanicked,
         DropReceiver, Goto, app, TypeOK, TypeLoop
  <2> QED
    BY <1>4, <2>1
<1>7. CASE ~Work
  <2>1. UNCHANGED <<finishes, pending>> /\ (wpc' = "gone" <=> wpc = "gone")
    BY <1>7, CallFrame, OwnerFrame DEF Next, loop, app, vars
  <2> QED
    BY <1>4, <2>1
<1> QED
  BY <1>2, <1>3, <1>5, <1>6, <1>7

-----------------------------------------------------------------------------
LEMMA InitInv == Init => IInv
<1> SUFFICES ASSUME Init
             PROVE  IInv
  OBVIOUS
<1>1. TypeOK
  <2>1. TypeShared /\ TypeLoop /\ TypeOwners
    BY DEF Init, TypeShared, TypeLoop, TypeOwners
  <2>2. TypeCalls
    BY DEF Init, TypeCalls
  <2>3. \A S : <<>> \in Seq(S)
    OBVIOUS
  <2>4. TypeChannel /\ TypeApp
    BY <2>3 DEF Init, TypeChannel, TypeApp
  <2> QED
    BY <2>1, <2>2, <2>4 DEF TypeOK
<1>2. ReservationsCounted
  <2>1. Reserved = {}
    BY DEF Init, Reserved, Calls
  <2> QED
    BY <2>1, FS_EmptySet DEF Init, ReservationsCounted
<1>3. Places /\ InHand /\ Closed /\ Sealed
  BY DEF Init, Places, InHand, Closed, Sealed, Ended, Graceful, Draining, Final
<1>4. Accounted
  BY DEF Init, Accounted
<1>5. JoinedIsGone /\ JoinersAgree /\ FinishCalls
  BY DEF Init, JoinedIsGone, JoinersAgree, FinishCalls, Ended
<1> QED
  BY <1>1, <1>2, <1>3, <1>4, <1>5 DEF IInv

LEMMA StepInv == IInv /\ [Next]_vars => IInv'
BY TypeStep, CountStep, PlacesStep, InHandStep, ClosedStep, SealedStep, AccountedStep,
   JoinedIsGoneStep, JoinersStep, FinishCallsStep DEF IInv

THEOREM Invariant == Spec => []IInv
BY InitInv, StepInv, PTL DEF Spec

(* Every variable stays in its range, for any number of calls and slots. *)
THEOREM TypeCorrect == Spec => []TypeOK
<1>1. IInv => TypeOK
  BY DEF IInv
<1> QED
  BY <1>1, Invariant, PTL

(* The reservation count the draining worker trusts is exact: no schedule   *)
(* of reserve, send, panic and resolve leaks or loses one.                  *)
THEOREM ReservationsAreCounted == Spec => []ReservationsCounted
<1>1. IInv => ReservationsCounted
  BY DEF IInv
<1> QED
  BY <1>1, Invariant, PTL

(* Shutdown without a panic answers every accepted call with the            *)
(* application's reply, whatever calls race with it.                        *)
THEOREM GracefulEnd == Spec => []GracefulEndLosesNothing
<1>1. IInv => GracefulEndLosesNothing
  <2> SUFFICES ASSUME IInv, Graceful
               PROVE  /\ queue = <<>>
                      /\ \A c \in Calls :
                           /\ cpc[c] # "reserved"
                           /\ cpc[c] \in {"sent", "awaiting"} => reply[c] \in Replies
    BY DEF GracefulEndLosesNothing
  <2>1. queue = <<>> /\ \A c \in Calls : cpc[c] # "reserved"
    BY DEF IInv, Sealed
  <2>2. current = NoCall
    BY DEF IInv, InHand, Places, Graceful, Ended
  <2>3. \A c \in Calls : ~InSeq(c, queue) /\ current # c
    BY <2>1, <2>2, RuntimeAssumption DEF InSeq, Calls
  <2>4. \A c \in Calls : reply[c] \notin {"WorkerPanicked", "Disconnected"}
    BY DEF IInv, Accounted, Graceful
  <2>5. \A c \in Calls : cpc[c] \in {"sent", "awaiting"} => reply[c] \in Replies
    BY <2>3, <2>4 DEF IInv, Accounted, TypeOK, TypeCalls
  <2> QED
    BY <2>1, <2>5
<1> QED
  BY <1>1, Invariant, PTL

(* The dead branch of try_submit is dead, and nobody is disconnected before *)
(* the panic has been published.                                            *)
THEOREM OpenIsServed == Spec => []OpenMeansServed
<1>1. IInv => OpenMeansServed
  BY DEF IInv, OpenMeansServed, Closed, Places, Accounted
<1> QED
  BY <1>1, Invariant, PTL

(* All joiners, the reaper and the exit published by the worker agree. *)
THEOREM JoinersAlwaysAgree == Spec => []JoinersAgree
<1>1. IInv => JoinersAgree
  BY DEF IInv
<1> QED
  BY <1>1, Invariant, PTL

(* The application is finished successfully at most once, and attempted at  *)
(* least once.                                                              *)
THEOREM FinishedAtMostOnce == Spec => []FinishedOnce
<1>1. IInv => FinishedOnce
  <2> SUFFICES ASSUME IInv
               PROVE  FinishedOnce
    OBVIOUS
  <2>1. Len(finishes) \in {0, 1, 2} /\ (wpc = "gone" => Len(finishes) # 0)
    BY DEF IInv, FinishCalls
  <2>2. ASSUME NEW i \in 1..Len(finishes), NEW j \in 1..Len(finishes),
               finishes[i].ok, finishes[j].ok
        PROVE  i = j
    BY <2>1, <2>2 DEF IInv, FinishCalls
  <2> QED
    BY <2>1, <2>2 DEF FinishedOnce
<1> QED
  BY <1>1, Invariant, PTL

(* After finish has been called, nothing is executed. *)
THEOREM NothingAfter == Spec => NothingAfterFinish
<1>1. IInv /\ [Next]_vars => [finishes # <<>> => executed' = executed]_vars
  <2> SUFFICES ASSUME IInv, Next, finishes # <<>>
               PROVE  executed' = executed
    OBVIOUS
  <2>1. ~TakeRequest
    BY DEF IInv, FinishCalls, Places, Ended, TakeRequest
  <2>2. CASE Work
    BY <2>1, <2>2 DEF Work, SelectControl, SelectNoControl, PollEmpty, PollDisconnected,
         ExecuteReplies, ExecutePanics, DrainEmpty, DrainCheck, DrainWakes, DrainDone, Finish,
         PublishExited, AnswerPanicked, DropReceiver, DropExecutor, app
  <2> QED
    BY <2>2, CallFrame, OwnerFrame DEF Next, app
<1> QED
  BY <1>1, Invariant, PTL DEF Spec, NothingAfterFinish

-----------------------------------------------------------------------------
(***************************************************************************)
(* The runtime implements CommandTransport                                 *)
(*                                                                         *)
(* The refinement needs to know more about a call than IInv says: that it   *)
(* is in one place at a time.  A call that has sent nothing is in no queue, *)
(* in no execution and unanswered; a call stands in the queue at most once; *)
(* what is queued or in hand has no reply yet.  Together with the sealed    *)
(* queue this lets every step of the threads be one step of the contract or *)
(* none.                                                                   *)
(***************************************************************************)

(* Nothing of this call has reached the worker. *)
Untouched(c) == ~InSeq(c, queue) /\ ~InSeq(c, executed) /\ reply[c] = "None"

OnePlace ==
    /\ \A c \in Calls :
         /\ cpc[c] \in {"idle", "reserved", "unsent"} => Untouched(c)
         /\ cpc[c] # "done" => result[c] = "None"
         /\ InSeq(c, queue) \/ current = c => reply[c] = "None"
         /\ current = c => InSeq(c, executed) /\ ~InSeq(c, queue)
    /\ \A i, j \in 1..Len(queue) : queue[i] = queue[j] => i = j

-----------------------------------------------------------------------------
(* Sequences: what is queued twice, what is gone once it was taken *)
LEMMA AppendKeepsDistinct ==
  ASSUME NEW S, NEW s \in Seq(S), NEW x \in S, ~InSeq(x, s),
         \A i, j \in 1..Len(s) : s[i] = s[j] => i = j
  PROVE  \A i, j \in 1..Len(Append(s, x)) : Append(s, x)[i] = Append(s, x)[j] => i = j
BY DEF InSeq

LEMMA TailKeepsDistinct ==
  ASSUME NEW S, NEW s \in Seq(S), s # <<>>,
         \A i, j \in 1..Len(s) : s[i] = s[j] => i = j
  PROVE  /\ ~InSeq(Head(s), Tail(s))
         /\ \A i, j \in 1..Len(Tail(s)) : Tail(s)[i] = Tail(s)[j] => i = j
<1>1. Len(Tail(s)) = Len(s) - 1 /\ \A i \in 1..Len(Tail(s)) : Tail(s)[i] = s[i + 1]
  OBVIOUS
<1>2. \A i \in 1..Len(Tail(s)) : i + 1 \in 1..Len(s)
  BY <1>1
<1>3. Len(s) \in Nat /\ 1 \in 1..Len(s) /\ Head(s) = s[1]
  OBVIOUS
<1> QED
  BY <1>1, <1>2, <1>3 DEF InSeq

LEMMA TailIsInside ==
  ASSUME NEW S, NEW s \in Seq(S), s # <<>>, NEW c, InSeq(c, Tail(s))
  PROVE  InSeq(c, s)
<1> PICK i \in 1..Len(Tail(s)) : Tail(s)[i] = c
  BY DEF InSeq
<1>1. i + 1 \in 1..Len(s) /\ s[i + 1] = c
  OBVIOUS
<1> QED
  BY <1>1 DEF InSeq

LEMMA HeadIsInside ==
  ASSUME NEW S, NEW s \in Seq(S), s # <<>>
  PROVE  InSeq(Head(s), s) /\ Head(s) \in S
<1>1. 1 \in 1..Len(s) /\ Head(s) = s[1]
  OBVIOUS
<1> QED
  BY <1>1 DEF InSeq

-----------------------------------------------------------------------------
(* Every step leaves a call in one place. *)
LEMMA OnePlaceInit == Init => OnePlace
<1> SUFFICES ASSUME Init
             PROVE  OnePlace
  OBVIOUS
<1>1. queue = <<>> /\ executed = <<>> /\ current = NoCall
  BY DEF Init
<1>2. \A c \in Calls : Untouched(c) /\ result[c] = "None" /\ current # c
  BY <1>1, RuntimeAssumption DEF Init, Untouched, InSeq, Calls
<1> QED
  BY <1>1, <1>2 DEF OnePlace, Untouched

(* A call that enters the queue was nowhere. *)
LEMMA EnterKeepsOnePlace ==
  ASSUME TypeOK, OnePlace,
         NEW d \in Calls, cpc[d] \in {"idle", "reserved"},
         queue' = Append(queue, d),
         NEW place \in {"sent", "awaiting"}, cpc' = [cpc EXCEPT ![d] = place],
         UNCHANGED <<executed, current, reply, result>>
  PROVE  OnePlace'
<1> USE DEF TypeOK, TypeCalls, TypeChannel
<1>1. Untouched(d)
  BY DEF OnePlace
<1>2. \A c \in Calls : InSeq(c, queue') <=> InSeq(c, queue) \/ c = d
  BY InAppend
<1>3. \A i, j \in 1..Len(queue') : queue'[i] = queue'[j] => i = j
  BY <1>1, AppendKeepsDistinct DEF OnePlace, Untouched
<1>4. \A c \in Calls : cpc'[c] = IF c = d THEN place ELSE cpc[c]
  OBVIOUS
<1>5. ASSUME NEW c \in Calls
      PROVE  /\ cpc'[c] \in {"idle", "reserved", "unsent"} => Untouched(c)'
             /\ cpc'[c] # "done" => result'[c] = "None"
             /\ InSeq(c, queue') \/ current' = c => reply'[c] = "None"
             /\ current' = c => InSeq(c, executed') /\ ~InSeq(c, queue')
  <2>1. CASE c = d
    <3>1. current # c /\ reply[c] = "None" /\ result[c] = "None"
      BY <1>1, <2>1 DEF OnePlace, Untouched
    <3> QED
      BY <1>4, <2>1, <3>1
  <2>2. CASE c # d
    BY <1>2, <1>4, <2>2 DEF OnePlace, Untouched
  <2> QED
    BY <2>1, <2>2
<1> QED
  BY <1>3, <1>5 DEF OnePlace

(* A call that returns, or goes on waiting, moves nothing else. *)
LEMMA MoveKeepsOnePlace ==
  ASSUME TypeOK, OnePlace,
         NEW d \in Calls,
         NEW place, cpc' = [cpc EXCEPT ![d] = place],
         \/ place \notin {"idle", "reserved", "unsent"}
         \/ cpc[d] \in {"idle", "reserved", "unsent"},
         \/ place = "done"
         \/ cpc[d] # "done" /\ result' = result,
         \A c \in Calls : c # d => result'[c] = result[c],
         UNCHANGED <<queue, executed, current, reply>>
  PROVE  OnePlace'
<1>1. \A c \in Calls : cpc'[c] = IF c = d THEN place ELSE cpc[c]
  BY DEF TypeOK, TypeCalls
<1> QED
  BY <1>1 DEF OnePlace, Untouched

LEMMA OnePlaceStep ==
  ASSUME TypeOK, Places, InHand, OnePlace, [Next]_vars
  PROVE  OnePlace'
<1>1. ASSUME NEW d \in Submitters, Submit(d)
      PROVE  OnePlace'
  <2>1. d \in Calls
    BY DEF Calls
  <2>2. CASE Send(d)
    <3>1. /\ cpc[d] = "reserved" /\ queue' = Append(queue, d)
          /\ cpc' = [cpc EXCEPT ![d] = "sent"]
          /\ UNCHANGED <<executed, current, reply, result>>
      BY <2>2 DEF Send, loop, app
    <3> QED
      BY <2>1, <3>1, EnterKeepsOnePlace
  <2>3. CASE Reserve(d) \/ ReserveRefused(d) \/ SendFails(d) \/ ResolveReservation(d)
    <3>1. UNCHANGED <<queue, executed, current, reply>>
      BY <2>3 DEF Reserve, ReserveRefused, SendFails, ResolveReservation, channel, loop, app
    <3>2. \A c \in Calls : c # d => result'[c] = result[c]
      BY <2>1, <2>3 DEF Reserve, ReserveRefused, SendFails, ResolveReservation, Return,
           TypeOK, TypeCalls
    <3>3. CASE Reserve(d)
      BY <2>1, <3>1, <3>2, <3>3, MoveKeepsOnePlace DEF Reserve
    <3>4. CASE ReserveRefused(d)
      BY <2>1, <3>1, <3>2, <3>4, MoveKeepsOnePlace DEF ReserveRefused, Return
    <3>5. CASE SendFails(d)
      BY <2>1, <3>1, <3>2, <3>5, MoveKeepsOnePlace DEF SendFails
    <3>6. CASE ResolveReservation(d)
      <4>1. CASE cpc[d] = "sent"
        BY <2>1, <3>1, <3>2, <3>6, <4>1, MoveKeepsOnePlace DEF ResolveReservation
      <4>2. CASE cpc[d] # "sent"
        BY <2>1, <3>1, <3>2, <3>6, <4>2, MoveKeepsOnePlace DEF ResolveReservation, Return
      <4> QED
        BY <4>1, <4>2
    <3> QED
      BY <2>3, <3>3, <3>4, <3>5, <3>6
  <2> QED
    BY <1>1, <2>2, <2>3 DEF Submit
<1>2. ASSUME NEW d \in Tryers, TrySubmit(d)
      PROVE  OnePlace'
  <2>1. d \in Calls
    BY DEF Calls
  <2>2. CASE TryAccepted(d)
    <3>1. /\ cpc[d] = "idle" /\ queue' = Append(queue, d)
          /\ cpc' = [cpc EXCEPT ![d] = "awaiting"]
          /\ UNCHANGED <<executed, current, reply, result>>
      BY <2>2 DEF TryAccepted, loop, app
    <3> QED
      BY <2>1, <3>1, EnterKeepsOnePlace
  <2>3. CASE TryRefused(d)
    <3>1. /\ UNCHANGED <<queue, executed, current, reply>>
          /\ cpc' = [cpc EXCEPT ![d] = "done"]
          /\ \A c \in Calls : c # d => result'[c] = result[c]
      BY <2>1, <2>3 DEF TryRefused, Return, channel, loop, app, TypeOK, TypeCalls
    <3> QED
      BY <2>1, <3>1, MoveKeepsOnePlace
  <2> QED
    BY <1>2, <2>2, <2>3 DEF TrySubmit
<1>3. ASSUME NEW d \in Calls, Receive(d)
      PROVE  OnePlace'
  <2>1. /\ UNCHANGED <<queue, executed, current, reply>>
        /\ cpc' = [cpc EXCEPT ![d] = "done"]
        /\ \A c \in Calls : c # d => result'[c] = result[c]
    BY <1>3 DEF Receive, Return, channel, loop, app, TypeOK, TypeCalls
  <2> QED
    BY <2>1, MoveKeepsOnePlace
<1>4. CASE Work
  <2>1. CASE TakeRequest
    <3> DEFINE d == Head(queue)
    <3>1. /\ current = NoCall /\ queue \in Seq(Calls) /\ queue # <<>> /\ executed \in Seq(Calls)
      BY <2>1 DEF TakeRequest, InHand, TypeOK, TypeChannel, TypeApp
    <3>2. /\ current' = d /\ queue' = Tail(queue) /\ executed' = Append(executed, d)
          /\ UNCHANGED <<cpc, reply, result>>
      BY <2>1 DEF TakeRequest, calls
    <3>3. d \in Calls /\ InSeq(d, queue)
      BY <3>1, HeadIsInside
    <3>4. /\ ~InSeq(d, queue')
          /\ \A i, j \in 1..Len(queue') : queue'[i] = queue'[j] => i = j
      BY <3>1, <3>2, TailKeepsDistinct DEF OnePlace
    <3>5. \A c \in Calls : InSeq(c, queue') => InSeq(c, queue)
      BY <3>1, <3>2, TailIsInside
    <3>6. \A c \in Calls : InSeq(c, executed') <=> InSeq(c, executed) \/ c = d
      BY <3>1, <3>2, <3>3, InAppend
    <3> HIDE DEF d
    <3>7. ASSUME NEW c \in Calls
          PROVE  /\ cpc'[c] \in {"idle", "reserved", "unsent"} => Untouched(c)'
                 /\ cpc'[c] # "done" => result'[c] = "None"
                 /\ InSeq(c, queue') \/ current' = c => reply'[c] = "None"
                 /\ current' = c => InSeq(c, executed') /\ ~InSeq(c, queue')
      BY <3>2, <3>3, <3>4, <3>5, <3>6 DEF OnePlace, Untouched
    <3> QED
      BY <3>4, <3>7 DEF OnePlace
  <2>2. CASE ExecuteReplies \/ AnswerPanicked
    <3>1. current \in Calls
      BY <2>2 DEF ExecuteReplies, AnswerPanicked, InHand
    <3>2. /\ current' = NoCall /\ UNCHANGED <<queue, executed, cpc, result>>
          /\ \A c \in Calls : c # current => reply'[c] = reply[c]
      BY <2>2 DEF ExecuteReplies, AnswerPanicked, channel, app, TypeOK, TypeCalls
    <3>3. InSeq(current, executed) /\ ~InSeq(current, queue)
      BY <3>1 DEF OnePlace
    <3>4. NoCall \notin Calls
      BY RuntimeAssumption DEF Calls
    <3> QED
      BY <3>1, <3>2, <3>3, <3>4 DEF OnePlace, Untouched
  <2>3. CASE DropReceiver
    <3>1. /\ queue' = <<>> /\ UNCHANGED <<executed, current, cpc, result>>
          /\ \A c \in Calls : reply'[c] = IF InSeq(c, queue) THEN "Disconnected" ELSE reply[c]
      BY <2>3 DEF DropReceiver, Goto, app, InSeq
    <3>2. current \notin Calls
      BY <2>3, RuntimeAssumption DEF DropReceiver, InHand, Calls
    <3>3. \A c : ~InSeq(c, queue')
      BY <3>1 DEF InSeq
    <3>4. \A i, j \in 1..Len(queue') : queue'[i] = queue'[j] => i = j
      BY <3>1
    <3> QED
      BY <3>1, <3>2, <3>3, <3>4 DEF OnePlace, Untouched
  <2>4. CASE ~(TakeRequest \/ ExecuteReplies \/ AnswerPanicked \/ DropReceiver)
    <3>1. UNCHANGED <<queue, executed, current, cpc, reply, result>>
      BY <1>4, <2>4 DEF Work, SelectControl, SelectNoControl, PollEmpty, PollDisconnected,
           ExecutePanics, DrainEmpty, DrainCheck, DrainWakes, DrainDone, Finish,
           PublishExited, DropExecutor, Goto, channel, app, calls
    <3> QED
      BY <3>1 DEF OnePlace, Untouched
  <2> QED
    BY <2>1, <2>2, <2>3, <2>4
<1>5. CASE UNCHANGED <<queue, executed, current, cpc, reply, result>>
  BY <1>5 DEF OnePlace, Untouched
<1> QED
  BY <1>1, <1>2, <1>3, <1>4, <1>5, OwnerFrame DEF Next, vars, channel, loop, app, calls

TInv == IInv /\ OnePlace

THEOREM TransportInvariant == Spec => []TInv
<1>1. Init => TInv
  BY InitInv, OnePlaceInit DEF TInv
<1>2. TInv /\ [Next]_vars => TInv'
  BY StepInv, OnePlaceStep DEF TInv, IInv
<1> QED
  BY <1>1, <1>2, PTL DEF Spec

-----------------------------------------------------------------------------
(* The steps of the threads against the steps of the contract *)
LEMMA PhaseStays ==
  ASSUME UNCHANGED <<pending, receiving>>
  PROVE  UNCHANGED Phase
BY DEF Phase

(* Joiners, the reaper and wakeups are invisible. *)
LEMMA Invisible ==
  ASSUME UNCHANGED <<queue, executed, current, reply, result, pending, receiving>>
  PROVE  [Transport!Next]_(Transport!vars)
BY PhaseStays DEF Transport!vars

LEMMA UntouchedIsFresh ==
  ASSUME NEW c \in Calls, OnePlace, cpc[c] \in {"idle", "reserved", "unsent"}
  PROVE  Transport!Fresh(c) /\ result[c] = "None"
BY DEF OnePlace, Untouched, InSeq, Transport!Fresh, Transport!Occurs

LEMMA EnterIsAccept ==
  ASSUME TInv, NEW c \in Calls, cpc[c] \in {"idle", "reserved"},
         Phase \in {"serving", "panicked"},
         queue' = Append(queue, c),
         UNCHANGED <<executed, current, reply, result, pending, receiving>>
  PROVE  Transport!Next
<1>1. Transport!Accept(c)
  BY UntouchedIsFresh, PhaseStays DEF TInv, Transport!Accept
<1> QED
  BY <1>1 DEF Transport!Next

LEMMA ReturnIsRefuse ==
  ASSUME TInv, NEW c \in Calls, cpc[c] \in {"idle", "unsent"},
         NEW why \in Refusals, result' = [result EXCEPT ![c] = why],
         UNCHANGED <<queue, executed, current, reply, pending, receiving>>
  PROVE  Transport!Next
<1>1. Transport!Refuse(c, why)
  BY UntouchedIsFresh, PhaseStays DEF TInv, Transport!Refuse
<1> QED
  BY <1>1 DEF Transport!Next

LEMMA TerminalErrorIsRefusal ==
  ASSUME TypeOK, Places
  PROVE  TerminalError \in Refusals
BY DEF TerminalError, TypeOK, TypeShared, Places, Refusals, Errors, Endings

(* The callers' steps: accepted, refused, delivered *)
LEMMA CallerImplements ==
  ASSUME TInv,
         \/ \E c \in Submitters : Submit(c)
         \/ \E c \in Tryers : TrySubmit(c)
         \/ \E c \in Calls : Receive(c)
  PROVE  [Transport!Next]_(Transport!vars)
<1> USE DEF TInv, IInv
<1>1. UNCHANGED <<executed, current, pending, receiving, admission, worker>>
  BY CallFrame DEF loop, app
<1>2. ASSUME NEW c \in Submitters, Submit(c)
      PROVE  [Transport!Next]_(Transport!vars)
  <2>1. c \in Calls
    BY DEF Calls
  <2>2. CASE Send(c)
    <3>1. Phase \in {"serving", "panicked"}
      BY <2>1, <2>2 DEF Send, Phase, Sealed, Graceful, Ended
    <3>2. /\ cpc[c] \in {"idle", "reserved"} /\ queue' = Append(queue, c)
          /\ UNCHANGED <<reply, result>>
      BY <2>2 DEF Send
    <3> QED
      BY <1>1, <2>1, <3>1, <3>2, EnterIsAccept
  <2>3. CASE ReserveRefused(c) \/ (ResolveReservation(c) /\ cpc[c] = "unsent")
    <3>1. /\ cpc[c] \in {"idle", "unsent"}
          /\ result' = [result EXCEPT ![c] = TerminalError]
          /\ UNCHANGED <<queue, reply>>
      BY <2>3 DEF ReserveRefused, ResolveReservation, Return, channel
    <3> QED
      BY <1>1, <2>1, <3>1, ReturnIsRefuse, TerminalErrorIsRefusal
  <2>4. CASE \/ Reserve(c) \/ SendFails(c)
             \/ (ResolveReservation(c) /\ cpc[c] # "unsent")
    <3>1. UNCHANGED <<queue, reply, result>>
      BY <2>4 DEF Reserve, SendFails, ResolveReservation, channel
    <3> QED
      BY <1>1, <3>1, Invisible
  <2> QED
    BY <1>2, <2>2, <2>3, <2>4 DEF Submit
<1>3. ASSUME NEW c \in Tryers, TrySubmit(c)
      PROVE  [Transport!Next]_(Transport!vars)
  <2>1. c \in Calls
    BY DEF Calls
  <2>2. CASE TryAccepted(c)
    <3>1. Phase \in {"serving", "panicked"}
      BY <2>2 DEF TryAccepted, Phase, Sealed, Places, Graceful, Ended
    <3>2. /\ cpc[c] \in {"idle", "reserved"} /\ queue' = Append(queue, c)
          /\ UNCHANGED <<reply, result>>
      BY <2>2 DEF TryAccepted
    <3> QED
      BY <1>1, <2>1, <3>1, <3>2, EnterIsAccept
  <2>3. CASE TryRefused(c)
    <3>1. PICK why \in Refusals : result' = [result EXCEPT ![c] = why]
      BY <2>3, TerminalErrorIsRefusal DEF TryRefused, Return, Refusals
    <3>2. cpc[c] = "idle" /\ UNCHANGED <<queue, reply>>
      BY <2>3 DEF TryRefused, channel
    <3> QED
      BY <1>1, <2>1, <3>1, <3>2, ReturnIsRefuse
  <2> QED
    BY <1>3, <2>2, <2>3 DEF TrySubmit
<1>4. ASSUME NEW c \in Calls, Receive(c)
      PROVE  [Transport!Next]_(Transport!vars)
  <2>1. /\ cpc[c] = "awaiting" /\ reply[c] # "None"
        /\ UNCHANGED <<queue, reply>>
        /\ result' = [result EXCEPT ![c] =
                        IF reply[c] = "Disconnected" THEN TerminalError ELSE reply[c]]
    BY <1>4 DEF Receive, Return, channel
  <2>2. reply[c] = "Disconnected" => TerminalError = "WorkerPanicked"
    BY DEF Accounted, Places, TerminalError
  <2>3. result[c] = "None"
    BY <2>1 DEF OnePlace
  <2>4. result' = [result EXCEPT ![c] =
                     IF reply[c] = "Disconnected" THEN "WorkerPanicked" ELSE reply[c]]
    BY <2>1, <2>2
  <2>5. Transport!Deliver(c)
    BY <1>1, <2>1, <2>3, <2>4, PhaseStays DEF Transport!Deliver
  <2> QED
    BY <2>5 DEF Transport!Next
<1> QED
  BY <1>2, <1>3, <1>4

(* The worker's steps: executed, answered, ended, abandoned *)
LEMMA WorkerImplements ==
  ASSUME TInv, Work
  PROVE  [Transport!Next]_(Transport!vars)
<1> USE DEF TInv, IInv
<1>1. CASE TakeRequest
  <2>1. current = NoCall /\ Phase = "serving"
    BY <1>1 DEF TakeRequest, InHand, Phase, Places, Ended
  <2>2. Transport!Execute
    BY <1>1, <2>1, PhaseStays DEF TakeRequest, channel, calls, Transport!Execute
  <2> QED
    BY <2>2 DEF Transport!Next
<1>2. CASE ExecuteReplies
  <2>1. PICK value \in Replies : reply' = [reply EXCEPT ![current] = value]
    BY <1>2 DEF ExecuteReplies
  <2>2. current \in Calls /\ current # NoCall
    BY <1>2, RuntimeAssumption DEF ExecuteReplies, InHand, Calls
  <2>3. Phase = "serving" /\ reply[current] = "None"
    BY <1>2, <2>2 DEF ExecuteReplies, Phase, Places, Ended, OnePlace
  <2>4. Transport!Answer(value)
    BY <1>2, <2>1, <2>2, <2>3, PhaseStays DEF ExecuteReplies, channel, app, Transport!Answer
  <2> QED
    BY <2>4 DEF Transport!Next
<1>3. CASE AnswerPanicked
  <2>1. current \in Calls /\ current # NoCall
    BY <1>3, RuntimeAssumption DEF AnswerPanicked, InHand, Calls
  <2>2. Phase = "panicked" /\ reply[current] = "None"
    BY <1>3, <2>1 DEF AnswerPanicked, Phase, Places, Ended, InHand, OnePlace
  <2>3. Transport!Answer("WorkerPanicked")
    BY <1>3, <2>1, <2>2, PhaseStays DEF AnswerPanicked, channel, app, Transport!Answer
  <2> QED
    BY <2>3 DEF Transport!Next
<1>4. CASE ExecutePanics \/ PollDisconnected \/ Finish
  <2>1. /\ Phase = "serving" /\ pending' # "None" /\ receiving /\ receiving' = receiving
        /\ UNCHANGED <<queue, executed, current, reply, result>>
    BY <1>4 DEF ExecutePanics, PollDisconnected, Finish, Phase, Places, Ended, channel, app, calls
  <2>2. CASE pending' = "WorkerPanicked"
    <3>1. Phase' = "panicked"
      BY <2>1, <2>2 DEF Phase
    <3>2. Transport!Panic
      BY <2>1, <3>1 DEF Transport!Panic
    <3> QED
      BY <3>2 DEF Transport!Next
  <2>3. CASE pending' # "WorkerPanicked"
    <3>1. Phase' = "finished"
      BY <2>1, <2>3 DEF Phase
    <3>2. queue = <<>> /\ current = NoCall
      BY <1>4, <2>3 DEF ExecutePanics, PollDisconnected, Finish, Sealed, InHand
    <3>3. Transport!Finish
      BY <2>1, <3>1, <3>2 DEF Transport!Finish
    <3> QED
      BY <3>3 DEF Transport!Next
  <2> QED
    BY <2>2, <2>3
<1>5. CASE DropReceiver
  <2>1. /\ queue' = <<>> /\ receiving' = FALSE
        /\ reply' = [c \in Calls |-> IF InSeq(c, queue) THEN "Disconnected" ELSE reply[c]]
        /\ UNCHANGED <<executed, current, result, pending>>
    BY <1>5 DEF DropReceiver, Goto, app, InSeq
  <2>2. current = NoCall /\ receiving /\ Ended
    BY <1>5 DEF DropReceiver, InHand, Places
  <2>3. CASE pending = "WorkerPanicked"
    <3>1. Phase = "panicked" /\ Phase' = "abandoned"
      BY <2>1, <2>2, <2>3 DEF Phase
    <3>2. Transport!Abandon
      BY <2>1, <2>2, <3>1 DEF Transport!Abandon, Transport!Occurs, InSeq
    <3> QED
      BY <3>2 DEF Transport!Next
  <2>4. CASE pending # "WorkerPanicked"
    <3>1. queue = <<>>
      BY <2>2, <2>4 DEF Sealed, Graceful
    <3>2. Phase = "finished" /\ Phase' = "finished"
      BY <2>1, <2>2, <2>4 DEF Phase, Ended
    <3>3. reply' = reply
      BY <2>1, <3>1 DEF InSeq, TypeOK, TypeCalls
    <3> QED
      BY <2>1, <3>1, <3>2, <3>3 DEF Transport!vars
  <2> QED
    BY <2>3, <2>4
<1>6. CASE \/ SelectControl \/ SelectNoControl \/ PollEmpty
           \/ DrainEmpty \/ DrainCheck \/ DrainWakes \/ DrainDone
           \/ PublishExited \/ DropExecutor
  <2>1. UNCHANGED <<queue, executed, current, reply, result, pending, receiving>>
    BY <1>6 DEF SelectControl, SelectNoControl, PollEmpty, DrainEmpty, DrainCheck, DrainWakes,
         DrainDone, PublishExited, DropExecutor, Goto, channel, app, calls
  <2> QED
    BY <2>1, Invisible
<1> QED
  BY <1>1, <1>2, <1>3, <1>4, <1>5, <1>6 DEF Work

(* The threads, the lock, the two channels and the reservations implement   *)
(* the contract their callers see: accepted calls are executed once, in     *)
(* order, and answered once; a refused one never runs; shutdown without a   *)
(* panic abandons nobody.                                                   *)
THEOREM RuntimeImplementsTransport == Spec => ImplementsTransport
<1>1. Init => Transport!Init
  BY DEF Init, Transport!Init, Phase
<1>2. TInv /\ [Next]_vars => [Transport!Next]_(Transport!vars)
  <2> SUFFICES ASSUME TInv, [Next]_vars
               PROVE  [Transport!Next]_(Transport!vars)
    OBVIOUS
  <2>1. CASE \/ \E f \in Finishers : FinishAndJoin(f)
             \/ DropRuntime \/ Reap
             \/ \E t \in Finishers \cup {"worker"} : SpuriousWake(t)
    BY <2>1, OwnerFrame, Invisible DEF loop, app, calls
  <2>2. CASE UNCHANGED vars
    BY <2>2, Invisible DEF vars, loop, app, calls, channel
  <2> QED
    BY <2>1, <2>2, CallerImplements, WorkerImplements DEF Next
<1> QED
  BY <1>1, <1>2, TransportInvariant, PTL DEF Spec, ImplementsTransport, Transport!Spec

=============================================================================
