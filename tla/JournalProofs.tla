---------------------------- MODULE JournalProofs ----------------------------
(***************************************************************************)
(* The durable core, for any processes, attempts, commands and damage.      *)
(*                                                                         *)
(* The argument: every event that enters the stream fits what the stream    *)
(* replays to (StreamStep), so the stream keeps its shape; the owner of the *)
(* lock file is the only process that starts or serves (Owned), so nobody   *)
(* but a detached executor or damage can come between the transactions of   *)
(* its startup, and both leave their mark in disturbed (OnCourse).          *)
(***************************************************************************)
EXTENDS Journal, SequenceTheorems, TLAPS

Projected == {"loaded", "installed", "cleared"}

(* The lock file names the process that starts up or serves. *)
Owned ==
    \A p \in Processes : guard = p <=> pc[p] \in Owning \cup {"serving"}

(* The rows are what the stream reduces to, damaged or not: damage is told  *)
(* apart from the value the application wrote last.                         *)
Replayed == stored = Replay(log)

OneOpen == \A s, t \in OpenSessions(Replay(log)) : s = t

(* A process that has not begun its session is not in the stream. *)
Unstarted ==
    \A p \in Processes : pc[p] \in {"off"} \cup Starting => p \notin Replay(log).started

(* A session event names a session. *)
Named ==
    \A i \in 1..Len(log) :
      log[i].type \in {"ProcessSessionStarted"} \cup EndTypes => log[i].session \in Processes

Stream ==
    /\ Replayed /\ OneOpen /\ Named
    /\ CommandsInsideTheirSession /\ LifecycleIsWellFormed

(* What startup holds in memory is the stream of some moment. *)
Remembered ==
    \A p \in Processes : pc[p] \in Projected =>
      /\ state[p].last <= Len(log)
      /\ state[p].last = Len(log) => state[p] = Replay(log)

(* A startup that nobody disturbed knows how things are. *)
OnCourse(p) ==
    /\ pc[p] \in {"verified", "reconciled", "rebuild"} => known[p] = Len(log)
    /\ pc[p] \in Projected => state[p] = stored /\ damage = "none"
    /\ pc[p] \in {"installed", "cleared"} => state[p].installed
    /\ pc[p] = "cleared" => OpenSessions(state[p]) = {}

Undisturbed == \A p \in Processes : pc[p] \in Owning /\ p \notin disturbed => OnCourse(p)

(* An attempt asks one thing and is answered when it is done. *)
Asked ==
    \A k \in Attempts :
      /\ IF apc[k] = "idle" THEN command[k] = None /\ request[k] = None
         ELSE command[k] \in Commands /\ request[k] \in Requests /\ host[k] \in Processes
      /\ answer[k].kind = "None" <=> apc[k] # "done"

(* A receipt is empty or says what was decided. *)
Receipts ==
    \A c \in Commands : receipts[c] # NoReceipt =>
      receipts[c].request \in Requests /\ receipts[c].verdict \in {"Success", "Denied"}

IInv ==
    /\ TypeOK /\ Owned /\ Stream /\ Unstarted /\ Remembered
    /\ Undisturbed /\ UndisturbedStartupIsAccepted /\ Asked /\ Receipts

-----------------------------------------------------------------------------
(* The reducer *)

(* What the stream replays to is a projection.                              *)
LEMMA ReplayType ==
    ASSUME NEW events \in Seq(Events)
    PROVE  Replay(events) \in Projections
BY DEF Replay, Projections

(* Folding one more event is reducing it into what was folded before.       *)
LEMMA ReplayAppend ==
    ASSUME NEW events \in Seq(Events), NEW e \in Events,
           e.type = "ProcessSessionStarted" \/ e.type \in EndTypes => e.session \in Processes
    PROVE  Replay(Append(events, e)) = Reduce(Replay(events), e)
<1> DEFINE more == Append(events, e)
<1>1. /\ Len(more) = Len(events) + 1 /\ Len(events) \in Nat
      /\ \A i \in 1..Len(events) : more[i] = events[i]
      /\ more[Len(events) + 1] = e
  OBVIOUS
<1>2. \A i : i \in 1..Len(more) <=> i \in 1..Len(events) \/ i = Len(events) + 1
  BY <1>1
<1> HIDE DEF more
<1>3. (\E i \in 1..Len(more) : more[i].type = "InstallationInitialized")
        <=> \/ \E i \in 1..Len(events) : events[i].type = "InstallationInitialized"
            \/ e.type = "InstallationInitialized"
  BY <1>1, <1>2
<1>4. {p \in Processes : \E i \in 1..Len(more) :
          more[i].type = "ProcessSessionStarted" /\ more[i].session = p}
        = Replay(events).started \cup
            (IF e.type = "ProcessSessionStarted" THEN {e.session} ELSE {})
  BY <1>1, <1>2 DEF Replay
<1>5. {p \in Processes : \E i \in 1..Len(more) :
          more[i].type \in EndTypes /\ more[i].session = p}
        = Replay(events).ended \cup (IF e.type \in EndTypes THEN {e.session} ELSE {})
  BY <1>1, <1>2 DEF Replay
<1> QED
  BY <1>1, <1>3, <1>4, <1>5 DEF Replay, Reduce, more

(* Reducing an event keeps to the type.                                     *)
LEMMA ReduceType ==
    ASSUME NEW projection \in Projections, NEW e \in Events,
           e.type = "ProcessSessionStarted" \/ e.type \in EndTypes => e.session \in Processes
    PROVE  Reduce(projection, e) \in Projections
BY DEF Reduce, Projections

(* The events the code makes *)
LEMMA EventTypes ==
    /\ \A p \in Processes \cup {None} :
         \A type \in {"InstallationInitialized", "ProcessSessionStarted", "ProjectionRebuilt"}
                       \cup EndTypes :
           SystemEvent(type, p) \in Events
    /\ \A p \in Processes, c \in Commands, r \in Requests : CommandEvent(p, c, r) \in Events
BY DEF SystemEvent, CommandEvent, Events, EndTypes

-----------------------------------------------------------------------------
(* The stream *)

(* The event a step may append: it fits what the stream replays to, and a   *)
(* command is executed in a session that is open.                           *)
Follows(e) ==
    /\ e \in Events
    /\ Accepts(Replay(log), e)
    /\ e.type = "ProcessSessionStarted" \/ e.type \in EndTypes => e.session \in Processes
    /\ e.type = "Command" => e.session \in OpenSessions(Replay(log))

Appends(e) == Follows(e) /\ log' = Append(log, e) /\ stored' = Reduce(Replay(log), e)

(* The stream only grows at its end.                                        *)
LEMMA Appended ==
    ASSUME TypeOK, NEW e, Appends(e)
    PROVE  /\ Len(log) \in Nat /\ Len(log') = Len(log) + 1
           /\ \A i \in 1..Len(log) : log'[i] = log[i]
           /\ log'[Len(log) + 1] = e
           /\ \A i : i \in 1..Len(log') <=> i \in 1..Len(log) \/ i = Len(log) + 1
           /\ stored' = Replay(log') /\ Replay(log) \in Projections
           /\ e \in Events /\ log \in Seq(Events)
<1>1. log \in Seq(Events) /\ e \in Events /\ log' = Append(log, e)
  BY DEF TypeOK, Appends, Follows
<1>2. stored' = Replay(log')
  BY <1>1, ReplayAppend DEF Appends, Follows
<1> QED
  BY <1>1, <1>2, ReplayType

(* Before, of any stream *)
Earlier(events, i, type, p) == \E j \in 1..(i - 1) : events[j].type = type /\ events[j].session = p

(* What was before a place in the stream stays before it.                   *)
LEMMA EarlierKept ==
    ASSUME TypeOK, NEW e, Appends(e), NEW i \in 1..Len(log)
    PROVE  \A type, p : Earlier(log', i, type, p) <=> Earlier(log, i, type, p)
BY Appended DEF Earlier

(* Before the new place is what the stream replays to.                      *)
LEMMA EarlierNew ==
    ASSUME TypeOK, NEW e, Appends(e), NEW p \in Processes
    PROVE  /\ Earlier(log', Len(log) + 1, "ProcessSessionStarted", p)
                <=> p \in Replay(log).started
           /\ (\E end \in EndTypes : Earlier(log', Len(log) + 1, end, p))
                <=> p \in Replay(log).ended
<1>1. 1..(Len(log) + 1 - 1) = 1..Len(log)
  BY Appended
<1>2. /\ p \in Replay(log).started <=>
           \E i \in 1..Len(log) : log[i].type = "ProcessSessionStarted" /\ log[i].session = p
      /\ p \in Replay(log).ended <=>
           \E i \in 1..Len(log) : log[i].type \in EndTypes /\ log[i].session = p
  BY DEF Replay
<1> QED
  BY <1>1, <1>2, Appended DEF Earlier

(* An event that fits keeps the stream in shape.                            *)
LEMMA StreamGrows ==
    ASSUME TypeOK, Stream, NEW e, Appends(e)
    PROVE  Stream'
<1> DEFINE here == Replay(log)
           n == Len(log) + 1
<1>0. n \in Nat /\ here \in Projections /\ Follows(e)
  BY Appended DEF Appends
<1>1. Replayed'
  BY Appended DEF Replayed
<1>2. OneOpen'
  <2>1. Replay(log') = Reduce(here, e)
    BY Appended DEF Appends
  <2>2. \A s, t \in OpenSessions(here) : s = t
    BY DEF Stream, OneOpen
  <2> QED
    BY <2>1, <2>2, <1>0 DEF OneOpen, OpenSessions, Reduce, Follows, Accepts, Projections
<1>5. Named'
  BY Appended DEF Stream, Named, Appends, Follows
<1>3. CommandsInsideTheirSession'
  <2> SUFFICES ASSUME NEW i \in 1..Len(log'), log'[i].type = "Command"
               PROVE  /\ Earlier(log', i, "ProcessSessionStarted", log'[i].session)
                      /\ \A end \in EndTypes : ~Earlier(log', i, end, log'[i].session)
    BY DEF CommandsInsideTheirSession, Before, Earlier
  <2>1. CASE i \in 1..Len(log)
    <3>1. log'[i] = log[i]
      BY <2>1, Appended
    <3>2. /\ Earlier(log, i, "ProcessSessionStarted", log[i].session)
          /\ \A end \in EndTypes : ~Earlier(log, i, end, log[i].session)
      BY <2>1, <3>1 DEF Stream, CommandsInsideTheirSession, Before, Earlier
    <3> QED
      BY <2>1, <3>1, <3>2, EarlierKept
  <2>2. CASE i = n
    <3>1. log'[i] = e /\ e.session \in OpenSessions(here)
      BY <2>2, <1>0, Appended DEF Follows
    <3>2. e.session \in Processes /\ e.session \in here.started /\ e.session \notin here.ended
      BY <3>1, <1>0 DEF OpenSessions, Projections
    <3> QED
      BY <2>2, <3>1, <3>2, EarlierNew
  <2> QED
    BY <2>1, <2>2, Appended
<1>4. LifecycleIsWellFormed'
  <2>1. /\ here.installed <=>
             \E i \in 1..Len(log) : log[i].type = "InstallationInitialized"
        /\ \A i \in 1..Len(log) : log[i].type = "ProcessSessionStarted" /\ log[i].session \in Processes
             => log[i].session \in here.started
        /\ \A i \in 1..Len(log) : log[i].type \in EndTypes /\ log[i].session \in Processes
             => log[i].session \in here.ended
    BY DEF Replay
  <2>2. ASSUME NEW i \in 1..Len(log'), NEW j \in 1..Len(log'),
               log'[i].type = "InstallationInitialized", log'[j].type = "InstallationInitialized"
        PROVE  i = j
    BY <2>1, <2>2, <1>0, Appended DEF Stream, LifecycleIsWellFormed, Follows, Accepts
  <2>3. ASSUME NEW i \in 1..Len(log'), NEW j \in 1..Len(log'),
               log'[i].type \in EndTypes, log'[j].type \in EndTypes,
               log'[i].session = log'[j].session
        PROVE  i = j
    <3>1. e.type \in EndTypes => e.session \in Processes /\ e.session \notin here.ended
      BY <1>0 DEF Follows, Accepts, OpenSessions
    <3> QED
      BY <2>1, <2>3, <3>1, <1>0, Appended DEF Stream, LifecycleIsWellFormed
  <2>4. ASSUME NEW i \in 1..Len(log'), NEW j \in 1..Len(log'), i < j,
               log'[i].type = "ProcessSessionStarted", log'[j].type = "ProcessSessionStarted"
        PROVE  \E end \in EndTypes : Earlier(log', j, end, log'[i].session)
    <3>1. i \in 1..Len(log) /\ log'[i] = log[i]
      BY <2>4, Appended
    <3>2. CASE j \in 1..Len(log)
      <4>1. \E end \in EndTypes : Earlier(log, j, end, log[i].session)
        BY <2>4, <3>1, <3>2, Appended DEF Stream, LifecycleIsWellFormed, Before, Earlier
      <4> QED
        BY <4>1, <3>1, <3>2, EarlierKept
    <3>3. CASE j = n
      <4>1. e.type = "ProcessSessionStarted" /\ OpenSessions(here) = {}
        BY <2>4, <3>3, <1>0, Appended DEF Follows, Accepts
      <4>2. log[i].session \in here.started
        BY <2>1, <2>4, <3>1 DEF Stream, Named
      <4>3. log[i].session \in here.ended /\ log[i].session \in Processes
        BY <2>4, <3>1, <4>1, <4>2 DEF OpenSessions, Stream, Named
      <4> QED
        BY <3>1, <3>3, <4>3, EarlierNew
    <3> QED
      BY <3>2, <3>3, Appended
  <2> QED
    BY <2>2, <2>3, <2>4 DEF LifecycleIsWellFormed, Before, Earlier
<1> QED
  BY <1>1, <1>2, <1>5, <1>3, <1>4 DEF Stream

-----------------------------------------------------------------------------
(* At the start there is nothing.                                           *)
LEMMA InitInv == Init => IInv
<1> SUFFICES ASSUME Init PROVE IInv
  OBVIOUS
<1> USE JournalAssumption
<1>1. TypeOK
  BY DEF Init, TypeOK, Empty, Projections, NoReceipt, NoAnswer, Alive, Starting, Opening, Owning
<1>2. log = <<>> /\ Len(log) = 0 /\ Replay(log) = Empty
  <2>1. log = <<>> /\ Len(log) = 0 /\ 1..Len(log) = {}
    BY DEF Init
  <2> QED
    BY <2>1 DEF Replay, Empty
<1>3. Owned
  BY DEF Init, Owned, Owning
<1>4. Stream
  BY <1>2 DEF Init, Stream, Replayed, OneOpen, OpenSessions, Empty, Named,
              CommandsInsideTheirSession, LifecycleIsWellFormed
<1>5. Unstarted
  BY <1>2 DEF Unstarted, Empty
<1>6. Remembered /\ Undisturbed /\ UndisturbedStartupIsAccepted
  BY DEF Init, Remembered, Undisturbed, UndisturbedStartupIsAccepted, Projected, Owning
<1>7. Asked /\ Receipts
  BY DEF Init, Asked, Receipts, NoAnswer
<1> QED
  BY <1>1, <1>3, <1>4, <1>5, <1>6, <1>7 DEF IInv

-----------------------------------------------------------------------------
(* Types *)

TypeDatabase ==
    /\ schema \in 0..1 /\ log \in Seq(Events) /\ stored \in Projections
    /\ damage \in {"none", "pointers", "rows"}
    /\ receipts \in [Commands -> [request : Requests \cup {None},
                                  verdict : {"None", "Success", "Denied"}, at : Nat]]

TypeStartup ==
    /\ guard \in Processes \cup {None}
    /\ pc \in [Processes -> Alive \cup {"off", "failed", "dead"}]
    /\ seen \in [Processes -> 0..1] /\ known \in [Processes -> Nat]
    /\ state \in [Processes -> Projections]
    /\ failure \in [Processes ->
         {"None", "MigrationState", "AlreadyRunning", "Inconsistent", "Storage"}]
    /\ phase \in [Processes -> {"Open", "Closed"}]

TypeAttempts ==
    /\ apc \in [Attempts -> {"idle", "lookup", "main", "done"}]
    /\ host \in [Attempts -> Processes \cup {None}]
    /\ command \in [Attempts -> Commands \cup {None}]
    /\ request \in [Attempts -> Requests \cup {None}]
    /\ answer \in [Attempts -> [kind : {"None", "Success", "Denied", "Conflict", "Failed",
                                        "LifecycleFinished", "Lost"}, at : Nat]]

LEMMA TypeParts ==
    /\ TypeOK <=> TypeDatabase /\ TypeStartup /\ TypeAttempts
                    /\ damages \in Nat /\ disturbed \subseteq Processes
    /\ TypeOK' <=> TypeDatabase' /\ TypeStartup' /\ TypeAttempts'
                    /\ damages' \in Nat /\ disturbed' \subseteq Processes
BY DEF TypeOK, TypeDatabase, TypeStartup, TypeAttempts

(* Recording an event in a projection of the right type *)
LEMMA RecordType ==
    ASSUME TypeOK, NEW projection \in Projections, NEW e \in Events,
           e.type = "ProcessSessionStarted" \/ e.type \in EndTypes => e.session \in Processes,
           log' = Append(log, e), stored' = Reduce(projection, e)
    PROVE  log' \in Seq(Events) /\ stored' \in Projections /\ Len(log) \in Nat
BY ReduceType DEF TypeOK

LEMMA FailType ==
    ASSUME TypeOK, NEW p \in Processes, UNCHANGED phase,
           NEW why \in {"MigrationState", "AlreadyRunning", "Inconsistent", "Storage"},
           Fail(p, why)
    PROVE  TypeStartup'
BY DEF TypeOK, TypeStartup, Fail

LEMMA GotoType ==
    ASSUME TypeOK, NEW p \in Processes, NEW place \in Alive, Goto(p, place),
           UNCHANGED <<guard, seen, known, state, failure, phase>>
    PROVE  TypeStartup'
BY DEF TypeOK, TypeStartup, Goto

(* The events startup and the end of a session record                       *)
LEMMA SessionEvents ==
    ASSUME NEW p \in Processes, NEW type, type = "ProcessSessionStarted" \/ type \in EndTypes
    PROVE  SystemEvent(type, p) \in Events /\ SystemEvent(type, p).session \in Processes
BY EventTypes DEF SystemEvent

LEMMA StartupRecordsType ==
    ASSUME TypeOK, NEW p \in Processes, NEW e \in Events, NEW next \in Alive,
           e.type = "ProcessSessionStarted" \/ e.type \in EndTypes => e.session \in Processes,
           StartupRecords(p, e, next)
    PROVE  TypeOK'
<1>1. UNCHANGED <<schema, damage, receipts, phase, attempts, history>>
  BY DEF StartupRecords
<1>2. CASE Fits(state[p], e)
  <2>1. state[p] \in Projections
    BY DEF TypeOK
  <2>2. log' = Append(log, e) /\ stored' = Reduce(state[p], e)
    BY <1>2 DEF StartupRecords, Record
  <2>3. log' \in Seq(Events) /\ stored' \in Projections
    BY <2>1, <2>2, RecordType
  <2>4. state' = [state EXCEPT ![p] = stored'] /\ Goto(p, next)
        /\ UNCHANGED <<guard, seen, known, failure>>
    BY <1>2 DEF StartupRecords
  <2> QED
    BY <1>1, <2>3, <2>4 DEF TypeOK, Goto, attempts, history
<1>3. CASE ~Fits(state[p], e)
  <2>1. Fail(p, "Inconsistent") /\ UNCHANGED <<log, stored>>
    BY <1>3 DEF StartupRecords
  <2>2. TypeStartup'
    BY <1>1, <2>1, FailType
  <2> QED
    BY <1>1, <2>1, <2>2, TypeParts DEF TypeDatabase, TypeAttempts, attempts, history
<1> QED
  BY <1>2, <1>3

LEMMA StartupType ==
    ASSUME TypeOK, NEW p \in Processes, Startup(p)
    PROVE  TypeOK'
<1> USE TypeParts
<1>0. /\ {"opened", "migrated", "guarded", "verified", "reconciled", "rebuild", "loaded",
          "installed", "cleared", "serving"} \subseteq Alive
      /\ {"InstallationInitialized", "ProcessSessionStarted", "ProjectionRebuilt"} \cap EndTypes
          = {}
      /\ "PreviousSessionInterrupted" \in EndTypes
  BY DEF Alive, Starting, Opening, Owning, EndTypes
<1>1. CASE ReadVersion(p)
  BY <1>0, <1>1 DEF ReadVersion, Goto, TypeOK, database, attempts, history
<1>2. CASE Migrate(p)
  <2>1. TypeStartup'
    <3>1. CASE seen[p] = schema
      BY <1>0, <1>2, <3>1, GotoType DEF Migrate, startup
    <3>2. CASE seen[p] # schema
      BY <1>2, <3>2, FailType DEF Migrate
    <3> QED
      BY <3>1, <3>2
  <2>2. schema' \in 0..1
    BY <1>2 DEF Migrate, TypeOK
  <2> QED
    BY <1>2, <2>1, <2>2 DEF Migrate, TypeDatabase, TypeAttempts, attempts, history
<1>3. CASE AcquireGuard(p)
  <2>1. TypeStartup'
    <3>1. CASE guard = None
      BY <1>0, <1>3, <3>1 DEF AcquireGuard, Goto, startup, TypeOK, TypeStartup
    <3>2. CASE guard # None
      BY <1>3, <3>2, FailType DEF AcquireGuard
    <3> QED
      BY <3>1, <3>2
  <2> QED
    BY <1>3, <2>1 DEF AcquireGuard, TypeDatabase, TypeAttempts, database, attempts, history
<1>4. CASE LoadEvents(p)
  BY <1>0, <1>4 DEF LoadEvents, Goto, TypeOK, database, attempts, history
<1>5. CASE Reconcile(p)
  <2>1. TypeStartup'
    <3>1. CASE known[p] = Len(log)
      BY <1>0, <1>5, <3>1, GotoType DEF Reconcile, startup
    <3>2. CASE known[p] # Len(log)
      BY <1>5, <3>2, FailType DEF Reconcile
    <3> QED
      BY <3>1, <3>2
  <2>2. damage' \in {"none", "pointers", "rows"}
    BY <1>5 DEF Reconcile, TypeOK
  <2> QED
    BY <1>5, <2>1, <2>2 DEF Reconcile, TypeDatabase, TypeAttempts, attempts, history
<1>6. CASE Load(p)
  <2>1. stored \in Projections
    BY DEF TypeOK
  <2>2. TypeStartup'
    BY <1>0, <1>6, <2>1 DEF Load, Goto, TypeStartup
  <2> QED
    BY <1>6, <2>2 DEF Load, TypeDatabase, TypeAttempts, database, attempts, history
<1>7. CASE Rebuild(p)
  <2> DEFINE marker == SystemEvent("ProjectionRebuilt", None)
  <2>1. marker \in Events /\ marker.type = "ProjectionRebuilt"
    BY EventTypes DEF SystemEvent
  <2>2. CASE known[p] = Len(log)
    <3>1. Replay(log) \in Projections
      BY ReplayType DEF TypeOK
    <3>2. log' = Append(log, marker) /\ stored' = Reduce(Replay(log), marker)
      BY <1>7, <2>2 DEF Rebuild, Record
    <3>3. log' \in Seq(Events) /\ stored' \in Projections
      BY <1>0, <2>1, <3>1, <3>2, RecordType
    <3> QED
      BY <1>0, <1>7, <2>2, <3>3 DEF Rebuild, Goto, TypeOK, attempts, history
  <2>3. CASE known[p] # Len(log)
    <3>1. TypeStartup'
      BY <1>7, <2>3, FailType DEF Rebuild
    <3> QED
      BY <1>7, <2>3, <3>1 DEF Rebuild, TypeDatabase, TypeAttempts, attempts, history
  <2> QED
    BY <2>2, <2>3
<1>8. ASSUME NEW next \in Alive, Skip(p, next)
      PROVE  TypeOK'
  <2>1. TypeStartup'
    BY <1>8, GotoType DEF Skip, startup
  <2> QED
    BY <1>8, <2>1 DEF Skip, TypeDatabase, TypeAttempts, database, attempts, history
<1>9. CASE Install(p)
  <2>1. SystemEvent("InstallationInitialized", None) \in Events
        /\ SystemEvent("InstallationInitialized", None).type = "InstallationInitialized"
    BY EventTypes DEF SystemEvent
  <2>2. "InstallationInitialized" \notin EndTypes
    BY <1>0
  <2>3. CASE state[p].installed
    BY <1>0, <1>8, <1>9, <2>3 DEF Install
  <2>4. CASE ~state[p].installed
    <3>1. StartupRecords(p, SystemEvent("InstallationInitialized", None), "installed")
      BY <1>9, <2>4 DEF Install
    <3> QED
      BY <1>0, <2>1, <2>2, <3>1, StartupRecordsType
  <2> QED
    BY <2>3, <2>4
<1>10. CASE InterruptPrevious(p)
  <2>1. OpenSessions(state[p]) \subseteq Processes
    BY DEF OpenSessions, TypeOK, Projections
  <2> QED
    BY <1>0, <1>8, <1>10, <2>1, SessionEvents, StartupRecordsType DEF InterruptPrevious
<1>11. CASE StartSession(p)
  BY <1>0, <1>11, SessionEvents, StartupRecordsType DEF StartSession
<1> QED
  BY <1>1, <1>2, <1>3, <1>4, <1>5, <1>6, <1>7, <1>9, <1>10, <1>11 DEF Startup

LEMMA AnswerType ==
    ASSUME TypeOK, NEW k \in Attempts, NEW at \in Nat,
           NEW verdict \in {"None", "Success", "Denied", "Conflict", "Failed",
                            "LifecycleFinished"},
           Answer(k, verdict, at)
    PROVE  TypeAttempts'
BY DEF TypeOK, TypeAttempts, Answer

LEMMA EndType ==
    ASSUME TypeOK, NEW p \in Processes, StartupFails(p) \/ Finish(p) \/ Drop(p) \/ Die(p)
    PROVE  TypeOK'
<1> USE TypeParts
<1>1. CASE StartupFails(p)
  <2>1. TypeStartup'
    BY <1>1, FailType DEF StartupFails
  <2> QED
    BY <1>1, <2>1 DEF StartupFails, TypeDatabase, TypeAttempts, database, attempts, history
<1>2. CASE Finish(p)
  <2> DEFINE e == SystemEvent("ProcessSessionEnded", p)
  <2>1. "ProcessSessionEnded" \in EndTypes /\ e \in Events /\ e.session \in Processes
    BY SessionEvents DEF EndTypes
  <2>2. log' \in Seq(Events) /\ stored' \in Projections
    <3>1. CASE p \in stored.ended
      BY <1>2, <3>1 DEF Finish, TypeDatabase
    <3>2. CASE p \notin stored.ended
      <4>1. stored \in Projections /\ log' = Append(log, e) /\ stored' = Reduce(stored, e)
        BY <1>2, <3>2 DEF Finish, Record, TypeDatabase
      <4> QED
        BY <2>1, <4>1, RecordType
    <3> QED
      BY <3>1, <3>2
  <2>3. state' = [state EXCEPT ![p] = stored']
    BY <1>2 DEF Finish
  <2>4. TypeStartup'
    BY <1>2, <2>2, <2>3 DEF Finish, TypeStartup
  <2> QED
    BY <1>2, <2>2, <2>4 DEF Finish, TypeDatabase, TypeAttempts, attempts, history
<1>3. CASE Drop(p)
  <2>1. TypeStartup'
    BY <1>3 DEF Drop, Goto, startup, TypeStartup, Alive
  <2> QED
    BY <1>3, <2>1 DEF Drop, TypeDatabase, TypeAttempts, database, attempts, history
<1>4. CASE Die(p)
  <2>1. TypeStartup'
    BY <1>4 DEF Die, Goto, TypeStartup, Empty, Projections
  <2>2. TypeAttempts'
    BY <1>4 DEF Die, TypeAttempts
  <2> QED
    BY <1>4, <2>1, <2>2 DEF Die, TypeDatabase, database, history
<1> QED
  BY <1>1, <1>2, <1>3, <1>4

(* What a step of an attempt leaves of the processes and of the history     *)
LEMMA AttemptType ==
    ASSUME TypeOK, Asked, NEW k \in Attempts, Execute(k) \/ AttemptFails(k)
    PROVE  TypeOK'
<1> USE TypeParts
<1>1. ASSUME ReplayReceipt(k), apc[k] # "idle"
      PROVE  TypeOK'
  <2>1. command[k] \in Commands
    BY <1>1 DEF Asked
  <2>2. Receipt(k).verdict \in {"None", "Success", "Denied"} /\ Receipt(k).at \in Nat
    BY <2>1 DEF Receipt, TypeDatabase
  <2>3. TypeAttempts'
    BY <1>1, <2>2, AnswerType DEF ReplayReceipt
  <2> QED
    BY <1>1, <2>3 DEF ReplayReceipt, TypeDatabase, TypeStartup, database, startup, history
<1>2. CASE Lookup(k)
  <2>1. CASE Receipt(k) = NoReceipt
    <3>1. TypeAttempts'
      BY <1>2, <2>1 DEF Lookup, TypeAttempts
    <3> QED
      BY <1>2, <2>1, <3>1 DEF Lookup, TypeDatabase, TypeStartup, database, startup, history
  <2>2. CASE Receipt(k) # NoReceipt
    BY <1>1, <1>2, <2>2 DEF Lookup
  <2> QED
    BY <2>1, <2>2
<1>3. CASE MainReplays(k)
  BY <1>1, <1>3 DEF MainReplays
<1>4. CASE MainClosed(k)
  <2>1. TypeAttempts'
    BY <1>4, AnswerType DEF MainClosed
  <2> QED
    BY <1>4, <2>1 DEF MainClosed, TypeDatabase, TypeStartup, database, startup, history
<1>5. CASE AttemptFails(k)
  <2>1. TypeAttempts'
    BY <1>5, AnswerType DEF AttemptFails
  <2> QED
    BY <1>5, <2>1 DEF AttemptFails, TypeDatabase, TypeStartup, database, startup, history
<1>6. ASSUME NEW verdict \in {"Success", "Denied"}, NEW at \in Nat, Remember(k, verdict, at),
             apc[k] = "main"
      PROVE  receipts' \in [Commands -> [request : Requests \cup {None},
                                  verdict : {"None", "Success", "Denied"}, at : Nat]]
  BY <1>6 DEF Asked, Remember, TypeDatabase
<1>7. CASE MainDenied(k)
  <2>1. TypeAttempts'
    BY <1>7, AnswerType DEF MainDenied
  <2>2. TypeDatabase'
    BY <1>6, <1>7 DEF MainDenied, Admitted, TypeDatabase
  <2> QED
    BY <1>7, <2>1, <2>2 DEF MainDenied, TypeStartup, startup, history
<1>8. CASE MainSucceeds(k)
  <2> DEFINE e == CommandEvent(host[k], command[k], request[k])
  <2>1. host[k] \in Processes /\ command[k] \in Commands /\ request[k] \in Requests
    BY <1>8 DEF MainSucceeds, Admitted, Asked
  <2>2. e \in Events /\ e.session \in Processes
    BY <2>1, EventTypes DEF CommandEvent
  <2>3. stored \in Projections /\ log' = Append(log, e) /\ stored' = Reduce(stored, e)
    BY <1>8 DEF MainSucceeds, Record, TypeDatabase
  <2>4. log' \in Seq(Events) /\ stored' \in Projections /\ Len(log) \in Nat
    BY <2>2, <2>3, RecordType
  <2>5. TypeAttempts'
    BY <1>8, <2>4, AnswerType DEF MainSucceeds
  <2>6. TypeDatabase'
    BY <1>6, <1>8, <2>4 DEF MainSucceeds, Admitted, TypeDatabase
  <2>7. disturbed' \subseteq Processes /\ damages' = damages
    BY <1>8 DEF MainSucceeds
  <2> QED
    BY <1>8, <2>5, <2>6, <2>7 DEF MainSucceeds, TypeStartup, startup
<1> QED
  BY <1>2, <1>3, <1>4, <1>5, <1>7, <1>8 DEF Execute

(* Every step keeps to the types.                                           *)
LEMMA TypeStep ==
    ASSUME TypeOK, Asked, [Next]_vars
    PROVE  TypeOK'
<1>1. ASSUME NEW k \in Attempts, NEW p \in Processes, NEW c \in Commands, NEW r \in Requests,
             Begin(k, p, c, r)
      PROVE  TypeOK'
  <2>1. TypeAttempts'
    BY <1>1, TypeParts DEF Begin, TypeAttempts
  <2> QED
    BY <1>1, <2>1, TypeParts DEF Begin, TypeDatabase, TypeStartup, database, startup, history
<1>2. CASE Damage
  <2>1. damages' \in Nat /\ disturbed' \subseteq Processes
        /\ damage' \in {"none", "pointers", "rows"}
    BY <1>2 DEF Damage, TypeOK
  <2> QED
    BY <1>2, <2>1, TypeParts DEF Damage, TypeDatabase, TypeStartup, TypeAttempts, startup, attempts
<1>3. CASE UNCHANGED vars
  BY <1>3 DEF vars, database, startup, attempts, history, TypeOK
<1> QED
  BY <1>1, <1>2, <1>3, StartupType, EndType, AttemptType DEF Next

-----------------------------------------------------------------------------
(* Attempts and receipts *)

(* A process that starts, ends or is damaged leaves the attempts alone.     *)
LEMMA AttemptsKept ==
    ASSUME NEW p, Startup(p) \/ StartupFails(p) \/ Finish(p) \/ Drop(p) \/ Damage
    PROVE  UNCHANGED attempts /\ UNCHANGED receipts
<1>1. CASE StartupFails(p) \/ Finish(p) \/ Drop(p) \/ Damage
  BY <1>1 DEF StartupFails, Finish, Drop, Damage, database
<1>2. CASE ReadVersion(p) \/ Migrate(p) \/ AcquireGuard(p) \/ LoadEvents(p) \/ Reconcile(p)
             \/ Load(p) \/ Rebuild(p)
  BY <1>2 DEF ReadVersion, Migrate, AcquireGuard, LoadEvents, Reconcile, Load, Rebuild, database
<1>3. ASSUME NEW next, Skip(p, next)
      PROVE  UNCHANGED attempts /\ UNCHANGED receipts
  BY <1>3 DEF Skip, database
<1>4. ASSUME NEW e, NEW next, StartupRecords(p, e, next)
      PROVE  UNCHANGED attempts /\ UNCHANGED receipts
  BY <1>4 DEF StartupRecords
<1>5. CASE Install(p)
  BY <1>3, <1>4, <1>5 DEF Install
<1>6. CASE InterruptPrevious(p)
  BY <1>3, <1>4, <1>6 DEF InterruptPrevious
<1>7. CASE StartSession(p)
  BY <1>4, <1>7 DEF StartSession
<1> QED
  BY <1>1, <1>2, <1>5, <1>6, <1>7 DEF Startup

(* An answer ends the attempt that asked.                                   *)
LEMMA AnswerAsked ==
    ASSUME TypeOK, Asked, NEW k \in Attempts, apc[k] # "idle", NEW at,
           NEW kind \in {"Success", "Denied", "Conflict", "Failed", "LifecycleFinished"},
           Answer(k, kind, at)
    PROVE  Asked'
BY DEF TypeOK, Asked, Answer

LEMMA RememberReceipts ==
    ASSUME TypeOK, Asked, Receipts, NEW k \in Attempts, apc[k] = "main", NEW at,
           NEW verdict \in {"Success", "Denied"}, Remember(k, verdict, at)
    PROVE  Receipts'
BY DEF TypeOK, Asked, Receipts, Remember

(* What a receipt is replayed as                                            *)
LEMMA ReplayAsked ==
    ASSUME TypeOK, Asked, Receipts, NEW k \in Attempts, apc[k] # "idle", ReplayReceipt(k)
    PROVE  Asked' /\ Receipts'
<1>1. Receipt(k) # NoReceipt /\ command[k] \in Commands
  BY DEF ReplayReceipt, Asked
<1>2. Receipt(k).verdict \in {"Success", "Denied"}
  BY <1>1 DEF Receipt, Receipts
<1> QED
  BY <1>1, <1>2, AnswerAsked DEF ReplayReceipt, Receipts, database

LEMMA AskedStep ==
    ASSUME TypeOK, Asked, Receipts, [Next]_vars
    PROVE  Asked' /\ Receipts'
<1>1. ASSUME NEW p \in Processes, Startup(p) \/ StartupFails(p) \/ Finish(p) \/ Drop(p) \/ Damage
      PROVE  Asked' /\ Receipts'
  BY <1>1, AttemptsKept DEF Asked, Receipts, attempts
<1>2. ASSUME NEW p \in Processes, Die(p)
      PROVE  Asked' /\ Receipts'
  BY <1>2 DEF Die, Inside, Asked, Receipts, TypeOK, database
<1>3. ASSUME NEW k \in Attempts, NEW p \in Processes, NEW c \in Commands, NEW r \in Requests,
             Begin(k, p, c, r)
      PROVE  Asked' /\ Receipts'
  <2>1. Receipts'
    BY <1>3 DEF Begin, Receipts, database
  <2>2. /\ apc'[k] \in {"lookup", "main", "done"}
        /\ command'[k] = c /\ request'[k] = r /\ host'[k] = p
        /\ \A j \in Attempts \ {k} : /\ apc'[j] = apc[j] /\ command'[j] = command[j]
                                    /\ request'[j] = request[j] /\ host'[j] = host[j]
                                    /\ answer'[j] = answer[j]
    BY <1>3 DEF Begin, TypeOK
  <2>3. answer'[k].kind = "None" <=> apc'[k] # "done"
    BY <1>3 DEF Begin, TypeOK, Asked
  <2> QED
    BY <2>1, <2>2, <2>3 DEF Asked
<1>4. ASSUME NEW k \in Attempts, Execute(k) \/ AttemptFails(k)
      PROVE  Asked' /\ Receipts'
  <2>1. CASE Lookup(k)
    <3>1. CASE Receipt(k) = NoReceipt
      BY <2>1, <3>1 DEF Lookup, Asked, Receipts, TypeOK, database
    <3>2. CASE Receipt(k) # NoReceipt
      BY <2>1, <3>2, ReplayAsked DEF Lookup
    <3> QED
      BY <3>1, <3>2
  <2>2. CASE MainReplays(k)
    BY <2>2, ReplayAsked DEF MainReplays
  <2>3. CASE MainClosed(k)
    BY <2>3, AnswerAsked DEF MainClosed, Receipts, database
  <2>4. CASE MainDenied(k)
    BY <2>4, AnswerAsked, RememberReceipts DEF MainDenied, Admitted
  <2>5. CASE MainSucceeds(k)
    BY <2>5, AnswerAsked, RememberReceipts DEF MainSucceeds, Admitted
  <2>6. CASE AttemptFails(k)
    BY <2>6, AnswerAsked DEF AttemptFails, Receipts, database
  <2> QED
    BY <1>4, <2>1, <2>2, <2>3, <2>4, <2>5, <2>6 DEF Execute
<1>5. CASE Damage
  BY <1>5, AttemptsKept DEF Asked, Receipts, attempts
<1>6. CASE UNCHANGED vars
  BY <1>6 DEF vars, database, attempts, Asked, Receipts
<1> QED
  BY <1>1, <1>2, <1>3, <1>4, <1>5, <1>6 DEF Next

-----------------------------------------------------------------------------
(* Who may do what *)

OwnStep(p) == Startup(p) \/ StartupFails(p) \/ Finish(p) \/ Drop(p) \/ Die(p)

AttemptStep(k) ==
    \/ \E p \in Processes, c \in Commands, r \in Requests : Begin(k, p, c, r)
    \/ Execute(k) \/ AttemptFails(k)

(* Startup, as far as the process and the rows are concerned *)
LEMMA RecordsFrame ==
    ASSUME TypeOK, NEW p \in Processes, NEW e, NEW next, StartupRecords(p, e, next)
    PROVE  /\ \A q \in Processes \ {p} :
                pc'[q] = pc[q] /\ state'[q] = state[q] /\ known'[q] = known[q]
                  /\ failure'[q] = failure[q]
           /\ \/ /\ Fits(state[p], e) /\ Record(state[p], e) /\ pc'[p] = next
                 /\ state'[p] = stored' /\ guard' = guard /\ failure' = failure
              \/ /\ ~Fits(state[p], e) /\ UNCHANGED <<log, stored>> /\ pc'[p] = "failed"
                 /\ guard' = (IF guard = p THEN None ELSE guard) /\ state' = state
                 /\ failure'[p] = "Inconsistent"
           /\ damage' = damage /\ disturbed' = disturbed /\ known' = known /\ schema' = schema
<1>1. damage' = damage /\ disturbed' = disturbed /\ schema' = schema
  BY DEF StartupRecords, history
<1>2. CASE Fits(state[p], e)
  BY <1>1, <1>2 DEF StartupRecords, Goto, TypeOK
<1>3. CASE ~Fits(state[p], e)
  BY <1>1, <1>3 DEF StartupRecords, Fail, TypeOK
<1> QED
  BY <1>2, <1>3

LEMMA SkipFrame ==
    ASSUME TypeOK, NEW p \in Processes, NEW next, Skip(p, next)
    PROVE  /\ pc'[p] = next /\ \A q \in Processes \ {p} : pc'[q] = pc[q]
           /\ UNCHANGED <<guard, state, known, failure, log, stored, damage, disturbed, schema>>
BY DEF Skip, Goto, TypeOK, startup, database, history

(* A process changes what is its own and nobody's mark.                     *)
LEMMA OwnFrame ==
    ASSUME TypeOK, NEW p \in Processes, OwnStep(p), NEW q \in Processes, q # p
    PROVE  /\ pc'[q] = pc[q] /\ state'[q] = state[q] /\ known'[q] = known[q]
           /\ failure'[q] = failure[q]
<1>1. CASE StartupFails(p)
  BY <1>1 DEF StartupFails, Fail, TypeOK
<1>2. CASE Finish(p)
  BY <1>2 DEF Finish, TypeOK
<1>3. CASE Drop(p)
  BY <1>3 DEF Drop, Goto, startup, TypeOK
<1>4. CASE Die(p)
  BY <1>4 DEF Die, Goto, TypeOK
<1>5. CASE ReadVersion(p)
  BY <1>5 DEF ReadVersion, Goto, TypeOK
<1>6. CASE Migrate(p)
  BY <1>6 DEF Migrate, Goto, Fail, startup, TypeOK
<1>7. CASE AcquireGuard(p)
  BY <1>7 DEF AcquireGuard, Goto, Fail, startup, TypeOK
<1>8. CASE LoadEvents(p)
  BY <1>8 DEF LoadEvents, Goto, TypeOK
<1>9. CASE Reconcile(p)
  BY <1>9 DEF Reconcile, Goto, Fail, startup, TypeOK
<1>10. CASE Load(p)
  BY <1>10 DEF Load, Goto, TypeOK
<1>11. CASE Rebuild(p)
  BY <1>11 DEF Rebuild, Goto, Fail, TypeOK
<1>12. CASE Install(p)
  BY <1>12, RecordsFrame, SkipFrame DEF Install
<1>13. CASE InterruptPrevious(p)
  BY <1>13, RecordsFrame, SkipFrame DEF InterruptPrevious
<1>14. CASE StartSession(p)
  BY <1>14, RecordsFrame DEF StartSession
<1> QED
  BY <1>1, <1>2, <1>3, <1>4, <1>5, <1>6, <1>7, <1>8, <1>9, <1>10, <1>11, <1>12, <1>13, <1>14
  DEF OwnStep, Startup

LEMMA OwnMarks ==
    ASSUME TypeOK, NEW p \in Processes, OwnStep(p)
    PROVE  disturbed' = disturbed
<1>1. CASE StartupFails(p) \/ Finish(p) \/ Drop(p) \/ Die(p)
  BY <1>1 DEF StartupFails, Finish, Drop, Die, history
<1>2. CASE ReadVersion(p) \/ Migrate(p) \/ AcquireGuard(p) \/ LoadEvents(p) \/ Reconcile(p)
             \/ Load(p) \/ Rebuild(p)
  BY <1>2 DEF ReadVersion, Migrate, AcquireGuard, LoadEvents, Reconcile, Load, Rebuild, history
<1>3. CASE Install(p) \/ InterruptPrevious(p) \/ StartSession(p)
  BY <1>3, RecordsFrame, SkipFrame DEF Install, InterruptPrevious, StartSession
<1> QED
  BY <1>1, <1>2, <1>3 DEF OwnStep, Startup

(* Only who owns the directory changes the stream or the rows.              *)
LEMMA OnlyTheOwner ==
    ASSUME TypeOK, NEW p \in Processes, OwnStep(p), pc[p] \notin Owning \cup {"serving"}
    PROVE  UNCHANGED <<log, stored, damage>>
<1>1. CASE StartupFails(p) \/ Drop(p) \/ Die(p)
  BY <1>1 DEF StartupFails, Drop, Die, database
<1>2. CASE ReadVersion(p) \/ Migrate(p) \/ AcquireGuard(p)
  BY <1>2 DEF ReadVersion, Migrate, AcquireGuard, database
<1>3. pc[p] \notin {"serving", "guarded", "verified", "reconciled", "rebuild", "loaded",
                    "installed", "cleared"}
  BY DEF Owning
<1> QED
  BY <1>1, <1>2, <1>3 DEF OwnStep, Startup, Finish, LoadEvents, Reconcile, Load, Rebuild, Install,
                          InterruptPrevious, StartSession

(* An attempt is none of startup's business, except that a success adds to  *)
(* the stream and marks who owns the directory.                             *)
LEMMA AttemptFrame ==
    ASSUME NEW k \in Attempts, AttemptStep(k)
    PROVE  /\ UNCHANGED <<guard, pc, state, known, failure, damage>>
           /\ \/ UNCHANGED <<log, stored, disturbed>>
              \/ MainSucceeds(k) /\ disturbed' = disturbed \cup {p \in Processes : pc[p] \in Owning}
<1>1. CASE \E p \in Processes, c \in Commands, r \in Requests : Begin(k, p, c, r)
  BY <1>1 DEF Begin, database, startup, history
<1>2. ASSUME ReplayReceipt(k)
      PROVE  UNCHANGED <<guard, pc, state, known, failure, damage, log, stored, disturbed>>
  BY <1>2 DEF ReplayReceipt, database, startup, history
<1>3. CASE Lookup(k)
  BY <1>2, <1>3 DEF Lookup, database, startup, history
<1>4. CASE MainReplays(k)
  BY <1>2, <1>4 DEF MainReplays
<1>5. CASE MainClosed(k) \/ MainDenied(k) \/ AttemptFails(k)
  BY <1>5 DEF MainClosed, MainDenied, AttemptFails, database, startup, history
<1>6. CASE MainSucceeds(k)
  BY <1>6 DEF MainSucceeds, startup
<1> QED
  BY <1>1, <1>3, <1>4, <1>5, <1>6 DEF AttemptStep, Execute

LEMMA DamageFrame ==
    ASSUME Damage
    PROVE  /\ UNCHANGED <<guard, pc, state, known, failure, log, stored>>
           /\ disturbed' = disturbed \cup {p \in Processes : pc[p] \in Owning}
BY DEF Damage, startup

LEMMA StutterFrame ==
    ASSUME UNCHANGED vars
    PROVE  UNCHANGED <<guard, pc, state, known, failure, damage, log, stored, disturbed>>
BY DEF vars, database, startup, history

(* Whose step a step is *)
LEMMA Steps ==
    ASSUME [Next]_vars
    PROVE  \/ \E p \in Processes : OwnStep(p)
           \/ \E k \in Attempts : AttemptStep(k)
           \/ Damage \/ UNCHANGED vars
<1>1. (\E k \in Attempts, p \in Processes, c \in Commands, r \in Requests : Begin(k, p, c, r))
        => \E k \in Attempts : AttemptStep(k)
  BY DEF AttemptStep
<1>2. (\E k \in Attempts : Execute(k) \/ AttemptFails(k)) => \E k \in Attempts : AttemptStep(k)
  BY DEF AttemptStep
<1>3. (\E p \in Processes :
         Startup(p) \/ StartupFails(p) \/ Finish(p) \/ Drop(p) \/ Die(p))
        => \E p \in Processes : OwnStep(p)
  BY DEF OwnStep
<1> QED
  BY <1>1, <1>2, <1>3 DEF Next

-----------------------------------------------------------------------------
(* The owner of the directory *)

LEMMA OwnedStep ==
    ASSUME TypeOK, Owned, [Next]_vars
    PROVE  Owned'
<1> USE JournalAssumption DEF Owning
<1>1. ASSUME NEW p \in Processes, OwnStep(p)
      PROVE  Owned'
  <2> SUFFICES \/ guard' = guard /\ (pc'[p] \in Owning \cup {"serving"}
                                        <=> pc[p] \in Owning \cup {"serving"})
               \/ /\ guard' = (IF guard = p THEN None ELSE guard)
                  /\ pc'[p] \notin Owning \cup {"serving"}
               \/ guard = None /\ guard' = p /\ pc'[p] \in Owning
    BY <1>1, OwnFrame DEF Owned, TypeOK
  <2>1. CASE StartupFails(p)
    BY <2>1 DEF StartupFails, Fail, TypeOK
  <2>2. CASE Finish(p)
    BY <2>2 DEF Finish
  <2>3. CASE Drop(p)
    <3>1. guard = p
      BY <2>3 DEF Drop, Owned
    <3> QED
      BY <2>3, <3>1 DEF Drop, Goto, TypeOK
  <2>4. CASE Die(p)
    BY <2>4 DEF Die, Goto, TypeOK
  <2>5. CASE ReadVersion(p)
    BY <2>5 DEF ReadVersion, Goto, TypeOK
  <2>6. CASE Migrate(p)
    BY <2>6 DEF Migrate, Goto, Fail, TypeOK
  <2>7. CASE AcquireGuard(p)
    BY <2>7 DEF AcquireGuard, Goto, Fail, TypeOK
  <2>8. CASE LoadEvents(p)
    BY <2>8 DEF LoadEvents, Goto, TypeOK
  <2>9. CASE Reconcile(p)
    BY <2>9 DEF Reconcile, Goto, Fail, TypeOK
  <2>10. CASE Load(p)
    BY <2>10 DEF Load, Goto, TypeOK
  <2>11. CASE Rebuild(p)
    BY <2>11 DEF Rebuild, Goto, Fail, TypeOK
  <2>12. CASE Install(p)
    BY <2>12, RecordsFrame, SkipFrame DEF Install
  <2>13. CASE InterruptPrevious(p)
    BY <2>13, RecordsFrame, SkipFrame DEF InterruptPrevious
  <2>14. CASE StartSession(p)
    BY <2>14, RecordsFrame DEF StartSession
  <2> QED
    BY <1>1, <2>1, <2>2, <2>3, <2>4, <2>5, <2>6, <2>7, <2>8, <2>9, <2>10, <2>11, <2>12, <2>13,
       <2>14 DEF OwnStep, Startup
<1>2. CASE UNCHANGED <<guard, pc>>
  BY <1>2 DEF Owned
<1> QED
  BY <1>1, <1>2, Steps, AttemptFrame, DamageFrame, StutterFrame

-----------------------------------------------------------------------------
(* What enters the stream *)

Quiet == UNCHANGED <<log, stored>>

(* The session of an event that begins one is being started. *)
Enters(e) ==
    /\ Appends(e)
    /\ e.type = "ProcessSessionStarted" => pc[e.session] = "cleared" /\ pc'[e.session] = "serving"

LEMMA RecordsAppends ==
    ASSUME TypeOK, Remembered, NEW p \in Processes, pc[p] \in Projected, NEW e \in Events,
           NEW next, StartupRecords(p, e, next), e.type # "Command",
           e.type = "ProcessSessionStarted" \/ e.type \in EndTypes => e.session \in Processes
    PROVE  Quiet \/ (Appends(e) /\ pc'[p] = next)
<1>1. CASE Fits(state[p], e)
  <2>1. state[p] = Replay(log)
    BY <1>1 DEF Fits, Remembered
  <2>2. Follows(e)
    BY <1>1, <2>1 DEF Fits, Follows
  <2> QED
    BY <1>1, <2>1, <2>2, RecordsFrame DEF Appends, Record
<1>2. CASE ~Fits(state[p], e)
  BY <1>2, RecordsFrame DEF Quiet
<1> QED
  BY <1>1, <1>2

LEMMA OwnAppends ==
    ASSUME TypeOK, Stream, Remembered, NEW p \in Processes, OwnStep(p)
    PROVE  Quiet \/ \E e : Enters(e)
<1>1. CASE StartupFails(p) \/ Drop(p) \/ Die(p) \/ ReadVersion(p) \/ Migrate(p)
             \/ AcquireGuard(p) \/ LoadEvents(p) \/ Reconcile(p) \/ Load(p)
  BY <1>1 DEF StartupFails, Drop, Die, ReadVersion, Migrate, AcquireGuard, LoadEvents, Reconcile,
              Load, database, Quiet
<1>2. CASE Rebuild(p)
  <2> DEFINE e == SystemEvent("ProjectionRebuilt", None)
  <2>1. e \in Events /\ e.type = "ProjectionRebuilt"
    BY EventTypes DEF SystemEvent
  <2>2. Follows(e)
    BY <2>1 DEF Follows, Accepts, EndTypes
  <2>3. Quiet \/ Enters(e)
    BY <1>2, <2>1, <2>2 DEF Rebuild, Record, Quiet, Enters, Appends
  <2> QED
    BY <2>3
<1>3. CASE Install(p)
  <2> DEFINE e == SystemEvent("InstallationInitialized", None)
  <2>1. e \in Events /\ e.type = "InstallationInitialized"
    BY EventTypes DEF SystemEvent
  <2>2. Quiet \/ StartupRecords(p, e, "installed")
    BY <1>3, SkipFrame DEF Install, Quiet
  <2>3. Quiet \/ Appends(e)
    BY <1>3, <2>1, <2>2, RecordsAppends DEF Install, Projected, EndTypes
  <2>4. Quiet \/ Enters(e)
    BY <2>1, <2>3 DEF Enters
  <2> QED
    BY <2>4
<1>4. CASE InterruptPrevious(p)
  <2>1. CASE Skip(p, "cleared")
    BY <2>1, SkipFrame DEF Quiet
  <2>2. ASSUME NEW s \in OpenSessions(state[p]),
               StartupRecords(p, SystemEvent("PreviousSessionInterrupted", s), "cleared")
        PROVE  Quiet \/ \E e : Enters(e)
    <3> DEFINE e == SystemEvent("PreviousSessionInterrupted", s)
    <3>1. s \in Processes /\ "PreviousSessionInterrupted" \in EndTypes
      BY DEF OpenSessions, TypeOK, Projections, EndTypes
    <3>2. e \in Events /\ e.session \in Processes /\ e.type = "PreviousSessionInterrupted"
      BY <3>1, SessionEvents DEF SystemEvent
    <3>3. Quiet \/ Appends(e)
      BY <1>4, <2>2, <3>2, RecordsAppends DEF InterruptPrevious, Projected
    <3>4. Quiet \/ Enters(e)
      BY <3>2, <3>3 DEF Enters
    <3> QED
      BY <3>4
  <2> QED
    BY <1>4, <2>1, <2>2 DEF InterruptPrevious
<1>5. CASE StartSession(p)
  <2> DEFINE e == SystemEvent("ProcessSessionStarted", p)
  <2>1. e \in Events /\ e.session = p /\ e.type = "ProcessSessionStarted"
    BY SessionEvents DEF SystemEvent
  <2>2. pc[p] = "cleared" /\ StartupRecords(p, e, "serving")
    BY <1>5 DEF StartSession
  <2>3. Quiet \/ (Appends(e) /\ pc'[p] = "serving")
    BY <2>1, <2>2, RecordsAppends DEF Projected
  <2>4. Quiet \/ Enters(e)
    BY <2>1, <2>2, <2>3 DEF Enters
  <2> QED
    BY <2>4
<1>6. CASE Finish(p)
  <2> DEFINE e == SystemEvent("ProcessSessionEnded", p)
  <2>1. e \in Events /\ e.session = p /\ e.type = "ProcessSessionEnded" /\ e.type \in EndTypes
    BY SessionEvents DEF SystemEvent, EndTypes
  <2>2. stored = Replay(log)
    BY <1>6 DEF Finish, Readable
  <2>3. CASE p \in stored.ended
    BY <1>6, <2>3 DEF Finish, Quiet
  <2>4. CASE p \notin stored.ended
    <3>1. Fits(stored, e) /\ Record(stored, e)
      BY <1>6, <2>4 DEF Finish
    <3>2. Enters(e)
      BY <2>1, <2>2, <3>1 DEF Enters, Appends, Follows, Fits, Record
    <3> QED
      BY <3>2
  <2> QED
    BY <2>3, <2>4
<1> QED
  BY <1>1, <1>2, <1>3, <1>4, <1>5, <1>6 DEF OwnStep, Startup

LEMMA SuccessAppends ==
    ASSUME TypeOK, Stream, Asked, NEW k \in Attempts, MainSucceeds(k)
    PROVE  \E e : Enters(e)
<1> DEFINE e == CommandEvent(host[k], command[k], request[k])
<1>1. host[k] \in Processes /\ command[k] \in Commands /\ request[k] \in Requests
  BY DEF MainSucceeds, Admitted, Asked
<1>2. e \in Events /\ e.session = host[k] /\ e.type = "Command"
  BY <1>1, EventTypes DEF CommandEvent
<1>3. stored = Replay(log) /\ host[k] \in OpenSessions(stored)
  BY DEF MainSucceeds, Admitted, Readable, SessionOpen
<1>4. Fits(stored, e) /\ Record(stored, e)
  BY DEF MainSucceeds
<1>5. Enters(e)
  BY <1>1, <1>2, <1>3, <1>4 DEF Enters, Appends, Follows, Fits, Record
<1> QED
  BY <1>5

(* A step leaves the stream alone or appends one event that fits.           *)
LEMMA StreamStep ==
    ASSUME TypeOK, Stream, Remembered, Asked, [Next]_vars
    PROVE  Quiet \/ \E e : Enters(e)
<1>1. CASE UNCHANGED <<log, stored>>
  BY <1>1 DEF Quiet
<1> QED
  BY <1>1, Steps, OwnAppends, AttemptFrame, SuccessAppends, DamageFrame, StutterFrame

LEMMA StreamKept ==
    ASSUME TypeOK, Stream, Remembered, Asked, [Next]_vars
    PROVE  Stream'
<1>1. CASE Quiet
  BY <1>1 DEF Quiet, Stream, Replayed, OneOpen, Named, CommandsInsideTheirSession, Before,
              LifecycleIsWellFormed
<1>2. ASSUME NEW e, Enters(e)
      PROVE  Stream'
  BY <1>2, StreamGrows DEF Enters
<1> QED
  BY <1>1, <1>2, StreamStep

-----------------------------------------------------------------------------
(* What a startup knows *)

(* A process never goes back to before its session.                         *)
LEMMA Forward ==
    ASSUME TypeOK, NEW p \in Processes, OwnStep(p), pc'[p] \in {"off"} \cup Starting
    PROVE  pc[p] \in {"off"} \cup Starting
<1> USE DEF Starting, Opening, Owning
<1>1. CASE StartupFails(p) \/ Finish(p) \/ Drop(p) \/ Die(p)
  BY <1>1 DEF StartupFails, Fail, Finish, Drop, Die, Goto, TypeOK
<1>2. CASE Startup(p)
  BY <1>2 DEF Startup, ReadVersion, Migrate, AcquireGuard, LoadEvents, Reconcile, Load, Rebuild,
              Install, InterruptPrevious, StartSession
<1> QED
  BY <1>1, <1>2 DEF OwnStep

LEMMA UnstartedStep ==
    ASSUME TypeOK, Stream, Unstarted, Remembered, Asked, [Next]_vars
    PROVE  Unstarted'
<1>1. \A p \in Processes :
        pc'[p] \in {"off"} \cup Starting => pc[p] \in {"off"} \cup Starting
  BY Steps, OwnFrame, Forward, AttemptFrame, DamageFrame, StutterFrame
<1>2. CASE Quiet
  BY <1>1, <1>2 DEF Quiet, Unstarted
<1>3. ASSUME NEW e, Enters(e)
      PROVE  Unstarted'
  <2>1. Replay(log') = Reduce(Replay(log), e)
    BY <1>3, Appended DEF Enters, Appends
  <2>2. e.type = "ProcessSessionStarted" => pc'[e.session] \notin {"off"} \cup Starting
    BY <1>3 DEF Enters, Starting, Opening, Owning
  <2> QED
    BY <1>1, <2>1, <2>2 DEF Unstarted, Reduce
<1> QED
  BY <1>2, <1>3, StreamStep

(* Startup keeps its projection or takes over what was just written.        *)
LEMMA OwnState ==
    ASSUME TypeOK, NEW p \in Processes, OwnStep(p), pc'[p] \in Projected
    PROVE  \/ pc[p] \in Projected /\ state'[p] = state[p] /\ Quiet
           \/ state'[p] = stored'
<1> USE DEF Projected
<1>1. CASE StartupFails(p) \/ Finish(p) \/ Drop(p) \/ Die(p)
  BY <1>1 DEF StartupFails, Fail, Finish, Drop, Die, Goto, TypeOK
<1>2. CASE ReadVersion(p) \/ Migrate(p) \/ AcquireGuard(p) \/ LoadEvents(p) \/ Reconcile(p)
  BY <1>2 DEF ReadVersion, Migrate, AcquireGuard, LoadEvents, Reconcile, Goto, Fail, TypeOK
<1>3. CASE Load(p)
  BY <1>3 DEF Load, Goto, TypeOK, database
<1>4. CASE Rebuild(p)
  BY <1>4 DEF Rebuild, Goto, Fail, TypeOK
<1>5. CASE Install(p)
  BY <1>5, RecordsFrame, SkipFrame DEF Install, Quiet
<1>6. CASE InterruptPrevious(p)
  BY <1>6, RecordsFrame, SkipFrame DEF InterruptPrevious, Quiet
<1>7. CASE StartSession(p)
  BY <1>7, RecordsFrame DEF StartSession
<1> QED
  BY <1>1, <1>2, <1>3, <1>4, <1>5, <1>6, <1>7 DEF OwnStep, Startup

LEMMA RememberedStep ==
    ASSUME TypeOK, Stream, Remembered, Asked, [Next]_vars
    PROVE  Remembered'
<1> SUFFICES ASSUME NEW p \in Processes, pc'[p] \in Projected
             PROVE  /\ state'[p].last <= Len(log')
                    /\ state'[p].last = Len(log') => state'[p] = Replay(log')
  BY DEF Remembered
<1>1. state[p] \in Projections /\ Len(log) \in Nat
  BY DEF TypeOK
<1>2. stored' = Replay(log') /\ stored'.last = Len(log') /\ Len(log') \in Nat
  <2>1. stored' = Replay(log')
    BY StreamKept DEF Stream, Replayed
  <2>2. Len(log') \in Nat
    BY TypeStep DEF TypeOK
  <2> QED
    BY <2>1, <2>2 DEF Replay
<1>3. \/ pc[p] \in Projected /\ state'[p] = state[p]
      \/ state'[p] = stored'
  BY Steps, OwnState, OwnFrame, AttemptFrame, DamageFrame, StutterFrame
<1>4. CASE pc[p] \in Projected /\ state'[p] = state[p]
  <2>1. state[p].last \in Nat
    BY <1>1 DEF Projections
  <2>2. CASE Quiet
    BY <1>4, <2>2 DEF Quiet, Remembered
  <2>3. ASSUME NEW e, Enters(e)
        PROVE  Len(log') = Len(log) + 1
    BY <2>3, Appended DEF Enters
  <2> QED
    BY <1>1, <1>4, <2>1, <2>2, <2>3, StreamStep DEF Remembered
<1>5. CASE state'[p] = stored'
  BY <1>2, <1>5
<1> QED
  BY <1>3, <1>4, <1>5

(* What a startup that was not disturbed finds is what it expects.          *)
LEMMA FitsOnCourse ==
    ASSUME TypeOK, Stream, NEW p \in Processes, pc[p] \in Projected, OnCourse(p), NEW e, NEW next,
           Accepts(stored, e), StartupRecords(p, e, next)
    PROVE  /\ pc'[p] = next /\ failure' = failure /\ damage' = "none"
           /\ state'[p] = stored' /\ stored' = Reduce(stored, e) /\ state[p] = stored
<1>1. state[p] = stored /\ damage = "none" /\ stored.last = Len(log)
  BY DEF OnCourse, Stream, Replayed, Replay
<1>2. Fits(state[p], e)
  BY <1>1 DEF Fits
<1> QED
  BY <1>1, <1>2, RecordsFrame DEF Record

LEMMA ReduceInstalls ==
    ASSUME NEW projection \in Projections, NEW e, e.type = "InstallationInitialized"
    PROVE  Reduce(projection, e).installed
<1>1. Reduce(projection, e).installed = TRUE
  BY DEF Reduce
<1> QED
  BY <1>1

LEMMA ReduceInterrupts ==
    ASSUME NEW projection \in Projections, NEW e, e.type = "PreviousSessionInterrupted"
    PROVE  /\ Reduce(projection, e).started = projection.started
           /\ Reduce(projection, e).ended = projection.ended \cup {e.session}
           /\ Reduce(projection, e).installed = projection.installed
<1>1. projection.installed \in BOOLEAN
  BY DEF Projections
<1>2. Reduce(projection, e).installed = projection.installed
  BY <1>1, Zenon DEF Reduce
<1> QED
  BY <1>2 DEF Reduce, EndTypes

LEMMA OwnCourse ==
    ASSUME TypeOK, Stream, Unstarted, NEW p \in Processes, OwnStep(p),
           pc[p] \in Owning => OnCourse(p)
    PROVE  /\ pc'[p] \in Owning => OnCourse(p)'
           /\ failure'[p] = "Inconsistent" => failure[p] = "Inconsistent"
<1> USE DEF Owning, Projected
<1>1. CASE StartupFails(p) \/ Finish(p) \/ Drop(p) \/ Die(p)
  BY <1>1 DEF StartupFails, Fail, Finish, Drop, Die, Goto, startup, TypeOK
<1>2. CASE ReadVersion(p) \/ Migrate(p) \/ AcquireGuard(p)
  BY <1>2 DEF ReadVersion, Migrate, AcquireGuard, Goto, Fail, startup, OnCourse, TypeOK
<1>3. CASE LoadEvents(p)
  BY <1>3 DEF LoadEvents, Goto, OnCourse, TypeOK, database
<1>4. CASE Reconcile(p)
  <2>1. known[p] = Len(log)
    BY <1>4 DEF Reconcile, OnCourse
  <2> QED
    BY <1>4, <2>1 DEF Reconcile, Goto, startup, OnCourse, TypeOK
<1>5. CASE Load(p)
  BY <1>5 DEF Load, Readable, Goto, OnCourse, TypeOK, database
<1>6. CASE Rebuild(p)
  <2>1. known[p] = Len(log)
    BY <1>6 DEF Rebuild, OnCourse
  <2> QED
    BY <1>6, <2>1 DEF Rebuild, Goto, OnCourse, TypeOK
<1>7. ASSUME NEW next \in Projected, Skip(p, next)
      PROVE  pc'[p] = next /\ UNCHANGED <<state, failure, log, stored, damage>>
  BY <1>7, SkipFrame
<1>8. CASE Install(p)
  <2> DEFINE e == SystemEvent("InstallationInitialized", None)
  <2>0. pc[p] = "loaded" /\ OnCourse(p) /\ state[p] = stored
    BY <1>8 DEF Install, OnCourse
  <2>1. CASE state[p].installed
    <3>1. Skip(p, "installed")
      BY <1>8, <2>1 DEF Install
    <3> QED
      BY <1>7, <2>0, <2>1, <3>1 DEF OnCourse
  <2>2. CASE ~state[p].installed
    <3>1. StartupRecords(p, e, "installed")
      BY <1>8, <2>2 DEF Install
    <3>2. e.type = "InstallationInitialized" /\ Accepts(stored, e)
      BY <2>0, <2>2 DEF SystemEvent, Accepts, EndTypes
    <3>3. /\ pc'[p] = "installed" /\ failure' = failure /\ damage' = "none"
          /\ state'[p] = stored' /\ stored' = Reduce(stored, e)
      BY <2>0, <3>1, <3>2, FitsOnCourse
    <3>4. stored'.installed
      BY <3>2, <3>3, ReduceInstalls DEF TypeOK
    <3> QED
      BY <3>3, <3>4 DEF OnCourse
  <2> QED
    BY <2>1, <2>2
<1>9. CASE InterruptPrevious(p)
  <2>0. pc[p] = "installed" /\ OnCourse(p) /\ state[p] = stored /\ state[p].installed
    BY <1>9 DEF InterruptPrevious, OnCourse
  <2>1. CASE OpenSessions(state[p]) = {}
    <3>1. Skip(p, "cleared")
      BY <1>9, <2>1 DEF InterruptPrevious
    <3> QED
      BY <1>7, <2>0, <2>1, <3>1 DEF OnCourse
  <2>2. ASSUME NEW s \in OpenSessions(state[p]),
               StartupRecords(p, SystemEvent("PreviousSessionInterrupted", s), "cleared")
        PROVE  /\ pc'[p] \in Owning => OnCourse(p)'
               /\ failure'[p] = "Inconsistent" => failure[p] = "Inconsistent"
    <3> DEFINE e == SystemEvent("PreviousSessionInterrupted", s)
    <3>1. OpenSessions(stored) = {s}
      BY <2>0 DEF Stream, Replayed, OneOpen
    <3>2. e.type = "PreviousSessionInterrupted" /\ e.session = s /\ e.type \in EndTypes
      BY DEF SystemEvent, EndTypes
    <3>3. Accepts(stored, e)
      BY <3>1, <3>2 DEF Accepts
    <3>4. /\ pc'[p] = "cleared" /\ failure' = failure /\ damage' = "none"
          /\ state'[p] = stored' /\ stored' = Reduce(stored, e)
      BY <2>0, <2>2, <3>3, FitsOnCourse
    <3> HIDE DEF e
    <3>5. /\ stored'.started = stored.started /\ stored'.ended = stored.ended \cup {s}
          /\ stored'.installed
      BY <2>0, <3>2, <3>4, ReduceInterrupts DEF TypeOK
    <3>6. OpenSessions(stored') = {}
      BY <3>1, <3>5 DEF OpenSessions
    <3> QED
      BY <3>4, <3>5, <3>6 DEF OnCourse
  <2> QED
    BY <1>9, <2>1, <2>2 DEF InterruptPrevious
<1>10. CASE StartSession(p)
  <2> DEFINE e == SystemEvent("ProcessSessionStarted", p)
  <2>0. /\ pc[p] = "cleared" /\ OnCourse(p) /\ state[p] = stored /\ stored.installed
        /\ OpenSessions(stored) = {}
    BY <1>10 DEF StartSession, OnCourse
  <2>1. p \notin stored.started
    BY <2>0 DEF Unstarted, Starting, Stream, Replayed
  <2>2. Accepts(stored, e)
    BY <2>0, <2>1 DEF Accepts, SystemEvent, EndTypes
  <2>3. pc'[p] = "serving" /\ failure' = failure
    BY <1>10, <2>0, <2>2, FitsOnCourse DEF StartSession
  <2> QED
    BY <2>3
<1> QED
  BY <1>1, <1>2, <1>3, <1>4, <1>5, <1>6, <1>8, <1>9, <1>10 DEF OwnStep, Startup

LEMMA UndisturbedStep ==
    ASSUME TypeOK, Owned, Stream, Unstarted, Remembered, Undisturbed, UndisturbedStartupIsAccepted,
           Asked, [Next]_vars
    PROVE  Undisturbed' /\ UndisturbedStartupIsAccepted'
<1> SUFFICES ASSUME NEW p \in Processes, p \notin disturbed'
             PROVE  /\ pc'[p] \in Owning => OnCourse(p)'
                    /\ failure'[p] # "Inconsistent"
  BY DEF Undisturbed, UndisturbedStartupIsAccepted
<1>1. p \notin disturbed
  BY Steps, OwnMarks, AttemptFrame, DamageFrame, StutterFrame
<1>2. (pc[p] \in Owning => OnCourse(p)) /\ failure[p] # "Inconsistent"
  BY <1>1 DEF Undisturbed, UndisturbedStartupIsAccepted
<1>3. CASE OwnStep(p)
  BY <1>2, <1>3, OwnCourse
<1>4. CASE ~OwnStep(p)
  <2>1. pc'[p] = pc[p] /\ state'[p] = state[p] /\ known'[p] = known[p] /\ failure'[p] = failure[p]
    BY <1>4, Steps, OwnFrame, AttemptFrame, DamageFrame, StutterFrame
  <2>2. ASSUME pc[p] \in Owning
        PROVE  UNCHANGED <<log, stored, damage>>
    <3>1. \A q \in Processes \ {p} : pc[q] \notin Owning \cup {"serving"}
      BY <2>2 DEF Owned
    <3>2. ASSUME NEW q \in Processes, OwnStep(q)
          PROVE  UNCHANGED <<log, stored, damage>>
      BY <1>4, <3>1, <3>2, OnlyTheOwner
    <3>3. ASSUME NEW k \in Attempts, AttemptStep(k)
          PROVE  UNCHANGED <<log, stored, damage>>
      BY <2>2, <3>3, AttemptFrame
    <3>4. ~Damage
      BY <2>2, DamageFrame
    <3> QED
      BY <3>2, <3>3, <3>4, Steps, StutterFrame
  <2> QED
    BY <1>2, <2>1, <2>2 DEF OnCourse
<1> QED
  BY <1>3, <1>4

-----------------------------------------------------------------------------
(* The invariant holds.                                                     *)
LEMMA InvStep == IInv /\ [Next]_vars => IInv'
BY TypeStep, OwnedStep, StreamKept, UnstartedStep, RememberedStep, UndisturbedStep, AskedStep
DEF IInv

THEOREM Invariance == Spec => []IInv
BY InitInv, InvStep, PTL DEF Spec

(* Type correctness: every variable keeps to the values the code can give   *)
(* it, whatever dies and whatever is damaged.                               *)
THEOREM TypeCorrect == Spec => []TypeOK
<1>1. IInv => TypeOK
  BY DEF IInv
<1> QED
  BY <1>1, Invariance, PTL

(* The projection: undamaged rows are what the stream reduces to, after     *)
(* every commit of whatever transaction and every crash.                    *)
THEOREM ProjectionIsFaithful == Spec => []ProjectionFaithful
<1>1. IInv => ProjectionFaithful
  BY DEF IInv, Stream, Replayed, ProjectionFaithful
<1> QED
  BY <1>1, Invariance, PTL

(* Sessions: a command is recorded only in a session that has started and   *)
(* not ended, even by an executor that outlived its service.                *)
THEOREM CommandsStayInside == Spec => []CommandsInsideTheirSession
<1>1. IInv => CommandsInsideTheirSession
  BY DEF IInv, Stream
<1> QED
  BY <1>1, Invariance, PTL

(* The lifecycle: one installation, no two sessions at once, one end each,  *)
(* across any crashes between the transactions of startup.                  *)
THEOREM LifecycleAlwaysWellFormed == Spec => []LifecycleIsWellFormed
<1>1. IInv => LifecycleIsWellFormed
  BY DEF IInv, Stream
<1> QED
  BY <1>1, Invariance, PTL

(* Recovery: no crash leaves a directory that a startup refuses, unless a   *)
(* detached executor or damage came between that startup's transactions.    *)
THEOREM RecoveryIsAccepted == Spec => []UndisturbedStartupIsAccepted
<1>1. IInv => UndisturbedStartupIsAccepted
  BY DEF IInv
<1> QED
  BY <1>1, Invariance, PTL

(* Service starts on sound rows: the step that begins to serve leaves the   *)
(* rows undamaged and as the stream has them.                               *)
THEOREM ServingIsRepaired == Spec => ServingStartsRepaired
<1>1. ASSUME IInv, [Next]_vars, NEW p \in Processes, pc[p] # "serving", pc'[p] = "serving"
      PROVE  damage' = "none" /\ stored' = Replay(log')
  <2>1. TypeOK
    BY <1>1 DEF IInv
  <2>2. stored' = Replay(log')
    BY <1>1, InvStep DEF IInv, Stream, Replayed
  <2>3. OwnStep(p)
    BY <1>1, <2>1, Steps, OwnFrame, AttemptFrame, DamageFrame, StutterFrame
  <2>4. StartSession(p)
    <3>1. ~(StartupFails(p) \/ Finish(p) \/ Drop(p) \/ Die(p))
      BY <1>1, <2>1 DEF StartupFails, Fail, Finish, Drop, Die, Goto, TypeOK
    <3>2. ~(ReadVersion(p) \/ Migrate(p) \/ AcquireGuard(p) \/ LoadEvents(p) \/ Reconcile(p)
              \/ Load(p) \/ Rebuild(p))
      BY <1>1, <2>1 DEF ReadVersion, Migrate, AcquireGuard, LoadEvents, Reconcile, Load, Rebuild,
                        Goto, Fail, startup, TypeOK
    <3>3. ~(Install(p) \/ InterruptPrevious(p))
      BY <1>1, <2>1, RecordsFrame, SkipFrame DEF Install, InterruptPrevious
    <3> QED
      BY <2>3, <3>1, <3>2, <3>3 DEF OwnStep, Startup
  <2>5. damage' = "none"
    BY <1>1, <2>1, <2>4, RecordsFrame DEF StartSession, Fits
  <2> QED
    BY <2>2, <2>5
<1>2. IInv /\ [Next]_vars =>
        [\A p \in Processes : pc[p] # "serving" /\ pc'[p] = "serving" =>
           damage' = "none" /\ stored' = Replay(log')]_vars
  BY <1>1
<1> QED
  BY <1>2, Invariance, PTL DEF Spec, ServingStartsRepaired

-----------------------------------------------------------------------------
(* Receipts implement OnceOnly *)

Decided == [c \in Commands |-> [request |-> receipts[c].request, verdict |-> receipts[c].verdict]]

Carried == [k \in Attempts |-> [command |-> command[k], request |-> request[k]]]

Told(kind) == IF kind \in {"Failed", "LifecycleFinished", "Lost"} THEN "GivenUp" ELSE kind

Answered == [k \in Attempts |-> Told(answer[k].kind)]

OnceVars == <<Decided, Carried, Answered>>

LEMMA OnceInit == Init => Once!Init
BY DEF Init, Once!Init, Once!Undecided, Once!Unasked, NoReceipt, NoAnswer

(* An attempt that is inside execute waits for an answer.                   *)
LEMMA InsideWaits ==
    ASSUME TypeOK, Asked, NEW k \in Attempts, apc[k] \in {"lookup", "main"}
    PROVE  Once!Waiting(k) /\ Carried[k] = [command |-> command[k], request |-> request[k]]
<1>1. command[k] \in Commands /\ command[k] # None /\ answer[k].kind = "None"
  BY JournalAssumption DEF Asked
<1> QED
  BY <1>1 DEF Once!Waiting, Once!Unasked, Carried

LEMMA AnswerTold ==
    ASSUME TypeOK, NEW k \in Attempts, NEW at, NEW kind, Answer(k, kind, at)
    PROVE  Answered' = [Answered EXCEPT ![k] = Told(kind)] /\ Carried' = Carried
<1>1. \A j \in Attempts : answer'[j] = IF j = k THEN [kind |-> kind, at |-> at] ELSE answer[j]
  BY DEF Answer, TypeOK
<1>2. \A j \in Attempts : Told(answer'[j].kind) = IF j = k THEN Told(kind) ELSE Told(answer[j].kind)
  BY <1>1
<1>3. Answered' = [Answered EXCEPT ![k] = Told(kind)]
  BY <1>2 DEF Answered
<1> QED
  BY <1>3 DEF Carried, Answer

LEMMA OnceReplays ==
    ASSUME TypeOK, Asked, Receipts, NEW k \in Attempts, apc[k] \in {"lookup", "main"},
           ReplayReceipt(k)
    PROVE  Once!Next
<1> DEFINE d == Decided[command[k]]
<1>1. Once!Waiting(k) /\ Carried[k] = [command |-> command[k], request |-> request[k]]
  BY InsideWaits
<1>2. command[k] \in Commands /\ Receipt(k) # NoReceipt
  BY DEF Asked, ReplayReceipt
<1>3. /\ d = [request |-> Receipt(k).request, verdict |-> Receipt(k).verdict]
      /\ Receipt(k).verdict \in {"Success", "Denied"}
  BY <1>2 DEF Decided, Receipt, Receipts
<1>4. d # Once!Undecided /\ Told(d.verdict) = d.verdict
  BY <1>3 DEF Once!Undecided, Told
<1>5. Decided' = Decided
  BY DEF ReplayReceipt, Decided, database
<1>6. /\ Carried[k].command = command[k] /\ Carried[k].request = request[k]
      /\ d.request = Receipt(k).request
  BY <1>1, <1>3
<1>7. CASE Receipt(k).request = request[k]
  <2>1. Answer(k, Receipt(k).verdict, Receipt(k).at)
    BY <1>7 DEF ReplayReceipt
  <2>2. Answered' = [Answered EXCEPT ![k] = d.verdict] /\ Carried' = Carried
    BY <1>3, <1>4, <2>1, AnswerTold
  <2>3. LET decision == Decided[Carried[k].command] IN
        /\ Once!Waiting(k) /\ decision # Once!Undecided /\ decision.request = Carried[k].request
        /\ Answered' = [Answered EXCEPT ![k] = decision.verdict]
        /\ Decided' = Decided /\ Carried' = Carried
    BY <1>1, <1>4, <1>5, <1>7, <1>6, <2>2
  <2>4. Once!Repeat(k)
    BY <2>3 DEF Once!Repeat, Decided, Carried, Answered, Told
  <2> QED
    BY <2>4 DEF Once!Next
<1>8. CASE Receipt(k).request # request[k]
  <2>1. Answer(k, "Conflict", 0)
    BY <1>8 DEF ReplayReceipt
  <2>2. Answered' = [Answered EXCEPT ![k] = "Conflict"] /\ Carried' = Carried
    BY <2>1, AnswerTold DEF Told
  <2>3. LET decision == Decided[Carried[k].command] IN
        /\ Once!Waiting(k) /\ decision # Once!Undecided /\ decision.request # Carried[k].request
        /\ Answered' = [Answered EXCEPT ![k] = "Conflict"]
        /\ Decided' = Decided /\ Carried' = Carried
    BY <1>1, <1>4, <1>5, <1>8, <1>6, <2>2
  <2>4. Once!Conflict(k)
    BY <2>3 DEF Once!Conflict, Decided, Carried, Answered, Told
  <2> QED
    BY <2>4 DEF Once!Next
<1> QED
  BY <1>7, <1>8

(* Giving up without a decision                                             *)
LEMMA OnceGivesUp ==
    ASSUME TypeOK, Asked, NEW k \in Attempts, apc[k] \in {"lookup", "main"},
           NEW kind \in {"Failed", "LifecycleFinished"}, Answer(k, kind, 0), UNCHANGED receipts
    PROVE  Once!Next
<1>1. Once!Waiting(k)
  BY InsideWaits
<1>2. Answered' = [Answered EXCEPT ![k] = "GivenUp"] /\ Carried' = Carried
  BY AnswerTold DEF Told
<1>3. Answered' = [j \in Attempts |-> IF j \in {k} THEN "GivenUp" ELSE Answered[j]]
  BY <1>2 DEF Answered
<1>4. Decided' = Decided
  BY DEF Decided
<1>5. Once!GiveUp({k})
  BY <1>1, <1>2, <1>3, <1>4 DEF Once!GiveUp, Decided, Carried, Answered, Told
<1> QED
  BY <1>5 DEF Once!Next

(* A decision: the receipt was empty when the main transaction looked.      *)
LEMMA OnceDecides ==
    ASSUME TypeOK, Asked, NEW k \in Attempts, Admitted(k), NEW at,
           NEW verdict \in {"Success", "Denied"}, Remember(k, verdict, at), Answer(k, verdict, at)
    PROVE  Once!Next
<1>1. Once!Waiting(k) /\ Carried[k] = [command |-> command[k], request |-> request[k]]
  BY InsideWaits DEF Admitted
<1>2. command[k] \in Commands /\ receipts[command[k]] = NoReceipt
  BY DEF Asked, Admitted, Receipt
<1>3. Decided[command[k]] = Once!Undecided
  BY <1>2 DEF Decided, Once!Undecided, NoReceipt
<1>4. Decided' = [Decided EXCEPT ![command[k]] = [request |-> request[k], verdict |-> verdict]]
  <2>1. \A c \in Commands : receipts'[c] =
          IF c = command[k] THEN [request |-> request[k], verdict |-> verdict, at |-> at]
          ELSE receipts[c]
    BY <1>2 DEF Remember, TypeOK
  <2>2. \A c \in Commands :
          [request |-> receipts'[c].request, verdict |-> receipts'[c].verdict]
          = IF c = command[k] THEN [request |-> request[k], verdict |-> verdict]
            ELSE [request |-> receipts[c].request, verdict |-> receipts[c].verdict]
    BY <2>1
  <2> QED
    BY <2>2 DEF Decided
<1>5. Answered' = [Answered EXCEPT ![k] = verdict] /\ Carried' = Carried
  BY AnswerTold DEF Told
<1>6. Once!Decide(k, verdict)
  BY <1>1, <1>3, <1>4, <1>5 DEF Once!Decide, Decided, Carried, Answered, Told
<1> QED
  BY <1>6 DEF Once!Next

LEMMA OnceAttempts ==
    ASSUME TypeOK, Asked, Receipts, NEW k \in Attempts, Execute(k) \/ AttemptFails(k)
    PROVE  Once!Next \/ UNCHANGED OnceVars
<1>1. CASE Lookup(k)
  <2>1. CASE Receipt(k) = NoReceipt
    BY <1>1, <2>1 DEF Lookup, OnceVars, Decided, Carried, Answered, database
  <2>2. CASE Receipt(k) # NoReceipt
    BY <1>1, <2>2, OnceReplays DEF Lookup
  <2> QED
    BY <2>1, <2>2
<1>2. CASE MainReplays(k)
  BY <1>2, OnceReplays DEF MainReplays
<1>3. CASE MainClosed(k)
  BY <1>3, OnceGivesUp DEF MainClosed, database
<1>4. CASE MainDenied(k)
  BY <1>4, OnceDecides DEF MainDenied
<1>5. CASE MainSucceeds(k)
  BY <1>5, OnceDecides DEF MainSucceeds
<1>6. CASE AttemptFails(k)
  BY <1>6, OnceGivesUp DEF AttemptFails, database
<1> QED
  BY <1>1, <1>2, <1>3, <1>4, <1>5, <1>6 DEF Execute

LEMMA OnceBegins ==
    ASSUME TypeOK, Asked, NEW k \in Attempts, NEW p \in Processes, NEW c \in Commands,
           NEW r \in Requests, Begin(k, p, c, r)
    PROVE  Once!Next
<1>1. Carried[k] = Once!Unasked
  BY DEF Begin, Asked, Carried, Once!Unasked
<1>2. Carried' = [Carried EXCEPT ![k] = [command |-> c, request |-> r]]
  <2>1. \A j \in Attempts : /\ command'[j] = IF j = k THEN c ELSE command[j]
                            /\ request'[j] = IF j = k THEN r ELSE request[j]
    BY DEF Begin, TypeOK
  <2>2. \A j \in Attempts : [command |-> command'[j], request |-> request'[j]]
          = IF j = k THEN [command |-> c, request |-> r]
            ELSE [command |-> command[j], request |-> request[j]]
    BY <2>1
  <2> QED
    BY <2>2 DEF Carried
<1>3. Decided' = Decided
  BY DEF Begin, database, Decided
<1>4. CASE phase[p] = "Closed"
  <2>1. \A j \in Attempts : Told(answer'[j].kind) = IF j = k THEN "GivenUp" ELSE Told(answer[j].kind)
    BY <1>4 DEF Begin, TypeOK, Told
  <2>2. Answered' = [Answered EXCEPT ![k] = "GivenUp"]
    BY <2>1 DEF Answered
  <2>3. Once!Refuse(k, c, r)
    BY <1>1, <1>2, <1>3, <2>2 DEF Once!Refuse, Decided, Carried, Answered, Told
  <2> QED
    BY <2>3 DEF Once!Next
<1>5. CASE phase[p] # "Closed"
  <2>1. Answered' = Answered
    BY <1>5 DEF Begin, Answered
  <2>2. Once!Ask(k, c, r)
    BY <1>1, <1>2, <1>3, <2>1 DEF Once!Ask, Decided, Carried, Answered, Told
  <2> QED
    BY <2>2 DEF Once!Next
<1> QED
  BY <1>4, <1>5

(* A process that dies takes the attempts inside it along.                  *)
LEMMA OnceDies ==
    ASSUME TypeOK, Asked, NEW p \in Processes, Die(p)
    PROVE  Once!Next
<1>1. \A k \in Inside(p) : Once!Waiting(k)
  BY InsideWaits DEF Inside
<1>2. Carried' = Carried /\ Decided' = Decided
  BY DEF Die, database, Carried, Decided
<1>3. \A k \in Attempts : Told(answer'[k].kind) =
        IF k \in Inside(p) THEN "GivenUp" ELSE Told(answer[k].kind)
  BY DEF Die, Told
<1>4. Answered' = [k \in Attempts |-> IF k \in Inside(p) THEN "GivenUp" ELSE Answered[k]]
  BY <1>3 DEF Answered
<1>5. PICK lost \in SUBSET Attempts : lost = Inside(p)
  BY DEF Inside
<1>6. Once!GiveUp(lost)
  BY <1>1, <1>2, <1>4, <1>5 DEF Once!GiveUp, Decided, Carried, Answered, Told
<1> QED
  BY <1>6 DEF Once!Next

(* Every step of the journal is a step of OnceOnly or changes nothing there. *)
LEMMA OnceStep ==
    ASSUME IInv, [Next]_vars
    PROVE  Once!Next \/ UNCHANGED OnceVars
<1>0. TypeOK /\ Asked /\ Receipts
  BY DEF IInv
<1>1. ASSUME UNCHANGED attempts /\ UNCHANGED receipts
      PROVE  UNCHANGED OnceVars
  BY <1>1 DEF attempts, OnceVars, Decided, Carried, Answered
<1>2. CASE Damage \/ UNCHANGED vars
  BY <1>1, <1>2 DEF Damage, vars, database
<1>3. ASSUME NEW p \in Processes, OwnStep(p)
      PROVE  Once!Next \/ UNCHANGED OnceVars
  BY <1>0, <1>1, <1>3, AttemptsKept, OnceDies DEF OwnStep
<1>4. ASSUME NEW k \in Attempts, AttemptStep(k)
      PROVE  Once!Next \/ UNCHANGED OnceVars
  BY <1>0, <1>4, OnceBegins, OnceAttempts DEF AttemptStep
<1> QED
  BY <1>2, <1>3, <1>4, Steps

(* Receipts: across crashes, retries and two processes at once, a command   *)
(* id is decided at most once, and every later asker hears that decision    *)
(* or of the conflict.                                                      *)
THEOREM ReceiptsImplementOnceOnly == Spec => ImplementsOnceOnly
<1>1. IInv /\ [Next]_vars => [Once!Next]_OnceVars
  BY OnceStep
<1> QED
  BY <1>1, OnceInit, Invariance, PTL
  DEF Spec, ImplementsOnceOnly, Once!Spec, OnceVars, Decided, Carried, Answered, Told

=============================================================================
