------------------------------ MODULE Journal -------------------------------
(***************************************************************************)
(* The durable core: the event stream, the stored projection and the       *)
(* command receipts of one state directory, and the processes that start   *)
(* on it, execute commands, finish, are dropped or die.                    *)
(*                                                                         *)
(* Startup is a row of separate transactions, so a process can die between *)
(* any two of them.  A command is one immediate transaction (after a       *)
(* separate receipt lookup when it needs a review).  SQLite runs immediate *)
(* transactions one after another and rolls back what did not commit: each *)
(* is one step here, and a step that fails changes nothing.                *)
(*                                                                         *)
(* A process starts at most once and starts at most one session: its name  *)
(* stands for the fresh session id.  An attempt is one call of execute; a  *)
(* retry is another attempt with the same command id, in any process.      *)
(***************************************************************************)
EXTENDS Naturals, Sequences, FiniteSets

CONSTANTS
    Processes,      \* runs of the program, and the sessions they start
    Attempts,       \* calls of execute
    Commands,       \* CommandId
    Requests,       \* CommandRequest: what a command id is used for
    Reviewed,       \* the requests that look for a receipt first, on their own
    Permissive,     \* processes whose policy grants the capability
    MaxDamage,      \* bound: how often the projection rows are damaged from outside
    None

ASSUME JournalAssumption ==
    /\ IsFiniteSet(Processes) /\ IsFiniteSet(Attempts)
    /\ Reviewed \subseteq Requests /\ Permissive \subseteq Processes
    /\ MaxDamage \in Nat
    /\ None \notin Processes \cup Commands \cup Requests

VARIABLES
    (* the database file *)
    schema,         \* user_version: 0, or 1 for the latest
    log,            \* event_stream
    stored,         \* the projection rows
    damage,         \* what no longer matches in them
    receipts,       \* command_receipts and command_event_refs
    (* the lock file *)
    guard,
    (* the processes *)
    pc,             \* where startup or the service is
    seen,           \* the user_version Database::open read
    known,          \* how many events startup loaded
    state,          \* startup's projection in memory
    failure,        \* why startup failed
    phase,          \* LifecyclePhase
    (* the attempts *)
    apc, host, command, request, answer,
    (* bookkeeping of the model *)
    damages,        \* how often damage was done
    disturbed       \* startups during which someone else changed the database

database == <<schema, log, stored, damage, receipts>>
startup  == <<seen, known, state, failure>>
attempts == <<apc, host, command, request, answer>>
history  == <<damages, disturbed>>
vars     == <<database, guard, pc, startup, phase, attempts, history>>

Opening == {"opened", "migrated"}
Owning  == {"guarded", "verified", "reconciled", "rebuild", "loaded", "installed", "cleared"}
Starting == Opening \cup Owning
Alive   == Starting \cup {"serving", "detached"}

(* ApplicationEvent; session is the one a command event was executed in,    *)
(* which the stored event does not say.                                     *)
SystemEvent(type, session) ==
    [type |-> type, session |-> session, command |-> None, request |-> None]

CommandEvent(p, c, r) ==
    [type |-> "Command", session |-> p, command |-> c, request |-> r]

EndTypes == {"PreviousSessionInterrupted", "ProcessSessionEnded"}

Events ==
    [type : {"InstallationInitialized", "ProcessSessionStarted", "ProjectionRebuilt", "Command"}
              \cup EndTypes,
     session : Processes \cup {None}, command : Commands \cup {None},
     request : Requests \cup {None}]

(* ProjectionState *)
Empty == [installed |-> FALSE, started |-> {}, ended |-> {}, last |-> 0]

Projections ==
    [installed : BOOLEAN, started : SUBSET Processes, ended : SUBSET Processes, last : Nat]

OpenSessions(projection) == projection.started \ projection.ended

NoReceipt == [request |-> None, verdict |-> "None", at |-> 0]

NoAnswer == [kind |-> "None", at |-> 0]

Init ==
    /\ schema = 0 /\ log = <<>> /\ stored = Empty /\ damage = "none"
    /\ receipts = [c \in Commands |-> NoReceipt]
    /\ guard = None
    /\ pc = [p \in Processes |-> "off"]
    /\ seen = [p \in Processes |-> 0]
    /\ known = [p \in Processes |-> 0]
    /\ state = [p \in Processes |-> Empty]
    /\ failure = [p \in Processes |-> "None"]
    /\ phase = [p \in Processes |-> "Open"]
    /\ apc = [k \in Attempts |-> "idle"]
    /\ host = [k \in Attempts |-> None]
    /\ command = [k \in Attempts |-> None]
    /\ request = [k \in Attempts |-> None]
    /\ answer = [k \in Attempts |-> NoAnswer]
    /\ damages = 0 /\ disturbed = {}

-----------------------------------------------------------------------------
(* The reducer *)

(* reduce: what the next event must fit ... *)
Accepts(projection, event) ==
    /\ event.type = "InstallationInitialized" => ~projection.installed
    /\ event.type = "ProcessSessionStarted" =>
         /\ projection.installed
         /\ event.session \notin projection.started
         /\ OpenSessions(projection) = {}
    /\ event.type \in EndTypes => OpenSessions(projection) = {event.session}

(* ... and what it makes of the projection *)
Reduce(projection, event) ==
    [installed |-> projection.installed \/ event.type = "InstallationInitialized",
     started |-> projection.started \cup
                   (IF event.type = "ProcessSessionStarted" THEN {event.session} ELSE {}),
     ended |-> projection.ended \cup
                   (IF event.type \in EndTypes THEN {event.session} ELSE {}),
     last |-> projection.last + 1]

(* reduce_events over the whole stream, by what the fold amounts to *)
Replay(events) ==
    [installed |-> \E i \in 1..Len(events) : events[i].type = "InstallationInitialized",
     started |-> {p \in Processes : \E i \in 1..Len(events) :
                    events[i].type = "ProcessSessionStarted" /\ events[i].session = p},
     ended |-> {p \in Processes : \E i \in 1..Len(events) :
                    events[i].type \in EndTypes /\ events[i].session = p},
     last |-> Len(events)]

(* ProjectionRepository::load and load_in: the rows must be what the       *)
(* stream reduces to.                                                      *)
Readable == damage = "none" /\ stored = Replay(log)

(* EventRepository::append takes the next place in the stream; reduce and  *)
(* ProjectionRepository::store refuse a projection that is not one event   *)
(* behind it, an event that does not fit and rows that do not match.       *)
FaultyFits(projection, event) ==      \* the rows are not compared
    projection.last = Len(log) /\ Accepts(projection, event)

Fits(projection, event) ==
    projection.last = Len(log) /\ Accepts(projection, event) /\ damage = "none"

Record(projection, event) ==
    /\ log' = Append(log, event)
    /\ stored' = Reduce(projection, event)

-----------------------------------------------------------------------------
(* Startup of process p *)

Fail(p, why) ==
    /\ pc' = [pc EXCEPT ![p] = "failed"]
    /\ failure' = [failure EXCEPT ![p] = why]
    /\ guard' = IF guard = p THEN None ELSE guard
    /\ UNCHANGED <<seen, known, state>>

Goto(p, place) == pc' = [pc EXCEPT ![p] = place]

(* Database::open reads user_version before it opens a transaction. *)
ReadVersion(p) ==
    /\ pc[p] = "off"
    /\ Goto(p, "opened")
    /\ seen' = [seen EXCEPT ![p] = schema]
    /\ UNCHANGED <<database, guard, known, state, failure, phase, attempts, history>>

(* run_migrations_with_hook: the migrations recorded by now must be those  *)
(* of the version that was read.                                           *)
FaultyMigrate(p) ==              \* every open counts as a migration
    /\ pc[p] = "opened"
    /\ IF seen[p] = schema
         THEN /\ schema' = schema + 1
              /\ Goto(p, "migrated")
              /\ UNCHANGED <<guard, startup>>
         ELSE Fail(p, "MigrationState") /\ UNCHANGED schema
    /\ UNCHANGED <<log, stored, damage, receipts, phase, attempts, history>>

Migrate(p) ==
    /\ pc[p] = "opened"
    /\ IF seen[p] = schema
         THEN /\ schema' = 1
              /\ Goto(p, "migrated")
              /\ UNCHANGED <<guard, startup>>
         ELSE Fail(p, "MigrationState") /\ UNCHANGED schema
    /\ UNCHANGED <<log, stored, damage, receipts, phase, attempts, history>>

AcquireGuard(p) ==
    /\ pc[p] = "migrated"
    /\ IF guard = None
         THEN guard' = p /\ Goto(p, "guarded") /\ UNCHANGED startup
         ELSE Fail(p, "AlreadyRunning")
    /\ UNCHANGED <<database, phase, attempts, history>>

(* EventRepository::verify and load_all *)
LoadEvents(p) ==
    /\ pc[p] = "guarded"
    /\ known' = [known EXCEPT ![p] = Len(log)]
    /\ Goto(p, "verified")
    /\ UNCHANGED <<database, guard, seen, state, failure, phase, attempts, history>>

(* ProjectionRepository::reconcile_startup rewrites the pointer rows.      *)
Reconcile(p) ==
    /\ pc[p] = "verified"
    /\ IF known[p] = Len(log)
         THEN /\ damage' = IF damage = "pointers" THEN "none" ELSE damage
              /\ Goto(p, "reconciled")
              /\ UNCHANGED <<guard, startup>>
         ELSE Fail(p, "Inconsistent") /\ UNCHANGED damage
    /\ UNCHANGED <<schema, log, stored, receipts, phase, attempts, history>>

(* ProjectionRepository::load *)
Load(p) ==
    /\ pc[p] = "reconciled"
    /\ IF Readable
         THEN state' = [state EXCEPT ![p] = stored] /\ Goto(p, "loaded")
         ELSE UNCHANGED state /\ Goto(p, "rebuild")
    /\ UNCHANGED <<database, guard, seen, known, failure, phase, attempts, history>>

(* rebuild_and_record *)
Rebuild(p) ==
    /\ pc[p] = "rebuild"
    /\ IF known[p] = Len(log)
         THEN LET marker == SystemEvent("ProjectionRebuilt", None) IN
              /\ Record(Replay(log), marker)
              /\ damage' = "none"
              /\ state' = [state EXCEPT ![p] = stored']
              /\ Goto(p, "loaded")
              /\ UNCHANGED <<guard, seen, known, failure>>
         ELSE Fail(p, "Inconsistent") /\ UNCHANGED <<log, stored, damage>>
    /\ UNCHANGED <<schema, receipts, phase, attempts, history>>

(* append_and_commit and append_and_project *)
StartupRecords(p, event, next) ==
    /\ IF Fits(state[p], event)
         THEN /\ Record(state[p], event)
              /\ state' = [state EXCEPT ![p] = stored']
              /\ Goto(p, next)
              /\ UNCHANGED <<guard, seen, known, failure>>
         ELSE Fail(p, "Inconsistent") /\ UNCHANGED <<log, stored>>
    /\ UNCHANGED <<schema, damage, receipts, phase, attempts, history>>

Skip(p, next) ==
    /\ Goto(p, next)
    /\ UNCHANGED <<database, guard, startup, phase, attempts, history>>

Install(p) ==
    /\ pc[p] = "loaded"
    /\ IF state[p].installed
         THEN Skip(p, "installed")
         ELSE StartupRecords(p, SystemEvent("InstallationInitialized", None), "installed")

FaultyInterruptPrevious(p) ==    \* an unfinished session is left alone
    pc[p] = "installed" /\ Skip(p, "cleared")

InterruptPrevious(p) ==
    /\ pc[p] = "installed"
    /\ IF OpenSessions(state[p]) = {}
         THEN Skip(p, "cleared")
         ELSE \E s \in OpenSessions(state[p]) :
                StartupRecords(p, SystemEvent("PreviousSessionInterrupted", s), "cleared")

StartSession(p) ==
    /\ pc[p] = "cleared"
    /\ StartupRecords(p, SystemEvent("ProcessSessionStarted", p), "serving")

(* Storage or a recovery hook fails in any of these transactions. *)
StartupFails(p) ==
    /\ pc[p] \in Starting
    /\ Fail(p, "Storage")
    /\ UNCHANGED <<database, phase, attempts, history>>

-----------------------------------------------------------------------------
(* The end of process p *)

(* The attempts of p that are inside execute, and hold the lifecycle lock   *)
Inside(p) == {k \in Attempts : host[k] = p /\ apc[k] \in {"lookup", "main"}}

FaultyFinishStore(p) ==          \* the event without its projection
    /\ pc[p] = "serving" /\ phase[p] = "Open" /\ Inside(p) = {}
    /\ Readable
    /\ log' = Append(log, SystemEvent("ProcessSessionEnded", p))
    /\ phase' = [phase EXCEPT ![p] = "Closed"]
    /\ UNCHANGED <<stored, state>>
    /\ UNCHANGED <<schema, damage, receipts, guard, pc, seen, known, failure, attempts, history>>

FaultyFinishBlindly(p) ==        \* the end is recorded on every call
    /\ pc[p] = "serving" /\ Inside(p) = {}
    /\ damage = "none"
    /\ log' = Append(log, SystemEvent("ProcessSessionEnded", p))
    /\ stored' = Replay(log')
    /\ state' = [state EXCEPT ![p] = stored']
    /\ phase' = [phase EXCEPT ![p] = "Closed"]
    /\ UNCHANGED <<schema, damage, receipts, guard, pc, seen, known, failure, attempts, history>>

Finish(p) ==
    /\ pc[p] = "serving" /\ phase[p] = "Open" /\ Inside(p) = {}
    /\ Readable
    /\ IF p \in stored.ended
         THEN UNCHANGED <<log, stored>> /\ state' = [state EXCEPT ![p] = stored]
         ELSE /\ Fits(stored, SystemEvent("ProcessSessionEnded", p))
              /\ Record(stored, SystemEvent("ProcessSessionEnded", p))
              /\ state' = [state EXCEPT ![p] = stored']
    /\ phase' = [phase EXCEPT ![p] = "Closed"]
    /\ UNCHANGED <<schema, damage, receipts, guard, pc, seen, known, failure, attempts, history>>

(* The service is dropped, finished or not, and the guard with it; other    *)
(* executors of the process live on.                                        *)
Drop(p) ==
    /\ pc[p] = "serving"
    /\ guard' = None
    /\ Goto(p, "detached")
    /\ UNCHANGED <<database, startup, phase, attempts, history>>

(* The process dies or exits, with the attempts it was executing. *)
Die(p) ==
    /\ pc[p] \in Alive
    /\ Goto(p, "dead")
    /\ guard' = IF guard = p THEN None ELSE guard
    /\ state' = [state EXCEPT ![p] = Empty]
    /\ apc' = [k \in Attempts |-> IF k \in Inside(p) THEN "done" ELSE apc[k]]
    /\ answer' = [k \in Attempts |-> IF k \in Inside(p)
                    THEN [kind |-> "Lost", at |-> 0] ELSE answer[k]]
    /\ UNCHANGED <<database, seen, known, failure, phase, host, command, request, history>>

-----------------------------------------------------------------------------
(* Attempt k *)

Answer(k, kind, at) ==
    /\ apc' = [apc EXCEPT ![k] = "done"]
    /\ answer' = [answer EXCEPT ![k] = [kind |-> kind, at |-> at]]
    /\ UNCHANGED <<host, command, request>>

(* execute: the lifecycle read lock and the phase *)
Begin(k, p, c, r) ==
    /\ apc[k] = "idle" /\ pc[p] \in {"serving", "detached"}
    /\ host' = [host EXCEPT ![k] = p]
    /\ command' = [command EXCEPT ![k] = c]
    /\ request' = [request EXCEPT ![k] = r]
    /\ IF phase[p] = "Closed"
         THEN /\ apc' = [apc EXCEPT ![k] = "done"]
              /\ answer' = [answer EXCEPT ![k] = [kind |-> "LifecycleFinished", at |-> 0]]
         ELSE /\ apc' = [apc EXCEPT ![k] = IF r \in Reviewed THEN "lookup" ELSE "main"]
              /\ UNCHANGED answer
    /\ UNCHANGED <<database, guard, pc, startup, phase, history>>

Receipt(k) == receipts[command[k]]

ReplayReceipt(k) ==
    /\ Receipt(k) # NoReceipt
    /\ IF Receipt(k).request = request[k]
         THEN Answer(k, Receipt(k).verdict, Receipt(k).at)
         ELSE Answer(k, "Conflict", 0)
    /\ UNCHANGED <<database, guard, pc, startup, phase, history>>

(* The receipt lookup of a reviewed command, a transaction of its own *)
Lookup(k) ==
    /\ apc[k] = "lookup"
    /\ IF Receipt(k) = NoReceipt
         THEN /\ apc' = [apc EXCEPT ![k] = "main"]
              /\ UNCHANGED <<database, guard, pc, startup, phase, host, command, request,
                             answer, history>>
         ELSE ReplayReceipt(k)

(* The main transaction: the receipt again ... *)
MainReplays(k) == apc[k] = "main" /\ ReplayReceipt(k)

(* ... then ensure_authoritative_session_open, whose row may be damaged ... *)
FaultySessionOpen(k) == TRUE

SessionOpen(k) == host[k] \in OpenSessions(stored)

MainClosed(k) ==
    /\ apc[k] = "main" /\ Receipt(k) = NoReceipt
    /\ ~SessionOpen(k) \/ damage = "rows"
    /\ Answer(k, "LifecycleFinished", 0)
    /\ UNCHANGED <<database, guard, pc, startup, phase, history>>

(* ... then load_in, the policy, and what the command itself does. A refused *)
(* capability is remembered without an event ...                            *)
Admitted(k) ==
    /\ apc[k] = "main" /\ Receipt(k) = NoReceipt
    /\ SessionOpen(k) /\ Readable

Remember(k, verdict, at) ==
    receipts' = [receipts EXCEPT ![command[k]] =
                   [request |-> request[k], verdict |-> verdict, at |-> at]]

MainDenied(k) ==
    /\ Admitted(k) /\ host[k] \notin Permissive
    /\ Remember(k, "Denied", 0)
    /\ Answer(k, "Denied", 0)
    /\ UNCHANGED <<schema, log, stored, damage, guard, pc, startup, phase, history>>

(* ... and a success with its one event, projection and receipt.            *)
FaultyMainSucceeds(k) ==         \* the lookup before is trusted
    /\ apc[k] = "main" /\ SessionOpen(k) /\ Readable /\ host[k] \in Permissive
    /\ LET event == CommandEvent(host[k], command[k], request[k]) IN
         Fits(stored, event) /\ Record(stored, event)
    /\ Remember(k, "Success", Len(log) + 1)
    /\ Answer(k, "Success", Len(log) + 1)
    /\ disturbed' = disturbed \cup {p \in Processes : pc[p] \in Owning}
    /\ UNCHANGED <<schema, damage, guard, pc, startup, phase, damages>>

MainSucceeds(k) ==
    /\ Admitted(k) /\ host[k] \in Permissive
    /\ LET event == CommandEvent(host[k], command[k], request[k]) IN
         Fits(stored, event) /\ Record(stored, event)
    /\ Remember(k, "Success", Len(log) + 1)
    /\ Answer(k, "Success", Len(log) + 1)
    /\ disturbed' = disturbed \cup {p \in Processes : pc[p] \in Owning}
    /\ UNCHANGED <<schema, damage, guard, pc, startup, phase, damages>>

(* Contention, unreadable rows, a refused command, a failing write or       *)
(* commit: the transaction is rolled back.                                  *)
AttemptFails(k) ==
    /\ apc[k] \in {"lookup", "main"}
    /\ Answer(k, "Failed", 0)
    /\ UNCHANGED <<database, guard, pc, startup, phase, history>>

-----------------------------------------------------------------------------
(* External: projection rows change behind the application's back, the      *)
(* pointer rows (active profiles) or the session and metadata rows.         *)
Damage ==
    /\ damages < MaxDamage /\ damage = "none" /\ schema = 1
    /\ damage' \in {"pointers", "rows"}
    /\ damages' = damages + 1
    /\ disturbed' = disturbed \cup {p \in Processes : pc[p] \in Owning}
    /\ UNCHANGED <<schema, log, stored, receipts, guard, pc, startup, phase, attempts>>

Startup(p) ==
    \/ ReadVersion(p) \/ Migrate(p) \/ AcquireGuard(p) \/ LoadEvents(p) \/ Reconcile(p)
    \/ Load(p) \/ Rebuild(p) \/ Install(p) \/ InterruptPrevious(p) \/ StartSession(p)

Execute(k) ==
    \/ Lookup(k) \/ MainReplays(k) \/ MainClosed(k) \/ MainDenied(k) \/ MainSucceeds(k)

Next ==
    \/ \E p \in Processes :
         Startup(p) \/ StartupFails(p) \/ Finish(p) \/ Drop(p) \/ Die(p)
    \/ \E k \in Attempts, p \in Processes, c \in Commands, r \in Requests : Begin(k, p, c, r)
    \/ \E k \in Attempts : Execute(k) \/ AttemptFails(k)
    \/ Damage

Spec == Init /\ [][Next]_vars

-----------------------------------------------------------------------------
(* Properties *)

(* Every variable keeps to the values the code can give it. *)
TypeOK ==
    /\ schema \in 0..1 /\ log \in Seq(Events) /\ stored \in Projections
    /\ damage \in {"none", "pointers", "rows"}
    /\ receipts \in [Commands -> [request : Requests \cup {None},
                                  verdict : {"None", "Success", "Denied"}, at : Nat]]
    /\ guard \in Processes \cup {None}
    /\ pc \in [Processes -> Alive \cup {"off", "failed", "dead"}]
    /\ seen \in [Processes -> 0..1] /\ known \in [Processes -> Nat]
    /\ state \in [Processes -> Projections]
    /\ failure \in [Processes ->
         {"None", "MigrationState", "AlreadyRunning", "Inconsistent", "Storage"}]
    /\ phase \in [Processes -> {"Open", "Closed"}]
    /\ apc \in [Attempts -> {"idle", "lookup", "main", "done"}]
    /\ host \in [Attempts -> Processes \cup {None}]
    /\ command \in [Attempts -> Commands \cup {None}]
    /\ request \in [Attempts -> Requests \cup {None}]
    /\ answer \in [Attempts -> [kind : {"None", "Success", "Denied", "Conflict", "Failed",
                                        "LifecycleFinished", "Lost"}, at : Nat]]
    /\ damages \in Nat /\ disturbed \subseteq Processes

(* Undamaged rows are what the event stream reduces to, after every commit  *)
(* and every crash.                                                         *)
ProjectionFaithful == damage = "none" => stored = Replay(log)

(* A command is recorded only in a session that has started and not ended,  *)
(* even by an executor that outlived its service.                           *)
Before(i, type, p) == \E j \in 1..(i - 1) : log[j].type = type /\ log[j].session = p

CommandsInsideTheirSession ==
    \A i \in 1..Len(log) : log[i].type = "Command" =>
      /\ Before(i, "ProcessSessionStarted", log[i].session)
      /\ \A end \in EndTypes : ~Before(i, end, log[i].session)

(* The lifecycle in the stream: one installation; when a session starts,    *)
(* every earlier one has ended; a session ends once, either way.            *)
LifecycleIsWellFormed ==
    \A i, j \in 1..Len(log) :
      /\ log[i].type = "InstallationInitialized" /\ log[j].type = "InstallationInitialized"
           => i = j
      /\ i < j /\ log[i].type = "ProcessSessionStarted" /\ log[j].type = "ProcessSessionStarted"
           => \E end \in EndTypes : Before(j, end, log[i].session)
      /\ log[i].type \in EndTypes /\ log[j].type \in EndTypes
           /\ log[i].session = log[j].session => i = j

(* Whatever crashes came before, a startup that nobody disturbs while it    *)
(* owns the directory is not refused by what it finds.                      *)
UndisturbedStartupIsAccepted ==
    \A p \in Processes : failure[p] = "Inconsistent" => p \in disturbed

(* A process that begins to serve has repaired the projection. *)
ServingStartsRepaired ==
    [][\A p \in Processes : pc[p] # "serving" /\ pc'[p] = "serving" =>
         damage' = "none" /\ stored' = Replay(log')]_vars

(* The receipts implement OnceOnly. *)
Once == INSTANCE OnceOnly WITH
    decided <- [c \in Commands |->
                  [request |-> receipts[c].request, verdict |-> receipts[c].verdict]],
    asked <- [k \in Attempts |-> [command |-> command[k], request |-> request[k]]],
    answer <- [k \in Attempts |->
                 IF answer[k].kind \in {"Failed", "LifecycleFinished", "Lost"}
                   THEN "GivenUp" ELSE answer[k].kind]

ImplementsOnceOnly == Once!Spec
=============================================================================
