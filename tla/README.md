# AI Stock Forum: a TLA+ model of the application core

The program in `src/` is a single-user terminal application that keeps its
state in one SQLite database: an append-only event stream, projections of it,
command receipts and an audit view.  This directory specifies the parts whose
correctness depends on order, concurrency and failure, checks them with TLC on
small instances and proves the most important invariants with TLAPS.

Paths below are relative to `src/`; `src/runtime/mod.rs` is the file
`src/src/runtime/mod.rs` of the checkout.

## 1. The system

| Part | State it keeps | Operations | What makes it correct |
|---|---|---|---|
| runtime (`src/runtime`) | one mutex-protected `State` (admission, reservations, worker, join bookkeeping), a bounded request channel, an unbounded control channel, the worker thread | `submit`, `try_submit`, previews, `finish_and_join`, `Drop` | every admitted call is answered once; refused calls never execute; shutdown drains, finishes once, and every joiner hears the same ending |
| application service (`src/app`) | lifecycle lock, three review registries, a database connection | `execute`, `execute_user`, previews, cancels, `finish`, `worker` | a command id decides once; nothing is recorded outside an open session; a change is exactly the one a human reviewed |
| recovery (`src/recovery`) | the projection in memory | startup in six transactions, end of session, `reduce` | a crash at any point leaves a directory the next start accepts; sessions do not overlap |
| persistence (`src/persistence`) | the database file | append, load, store, rebuild, reconcile, receipts, migrations | projection rows equal the reduced stream; event, projection and receipt appear together |
| process guard (`src/config/process_guard.rs`) | a lock file | acquire, release with the process | one live service per directory |
| review registries (`src/{agents,skills,memory}/review.rs`) | one pending review each, an operation lock | register, reserve, release, consume, cancel | a review confirms one change, the one that was shown, on the version it was shown for |
| agent profiles, skills (`src/agents`, `src/skills`, their repositories) | immutable versions and a table of active pointers each; the built-in skills | create, activate, assign, upgrade, unassign, eight reads | versions are consecutive, active names unique, pinned versions resolve exactly, a retry is answered as before |
| memory (`src/memory`, `memory_repository.rs`) | entries, tombstones, proposals, approvals | set, delete, propose, approve, reject | a proposal resolves once with its approval; stale ones expire; limits hold |
| memory reads and snapshots (`memory_repository.rs`, `src/memory/retrieval.rs`) | the event of each read | eight reads, the building of a snapshot | a read shows what the stream says; the answer can be given again |
| policy (`src/policy`) | approval records | authorize, resolve, expire | default deny; an approval resolves once |
| terminal interface (`src/ui/tui`) | the model of every screen, one slot for a command in flight, what waits for it | event loop, controller, forms, answers, teardown | a late answer never lands on another screen; no review is left registered; begun work is kept |
| line interface (`src/ui/command`, editors) | reader thread, line channel, interrupt bus, one workflow | read, dispatch, confirm, interrupt, teardown | the host always comes down with its reader; what is confirmed is what was shown |
| audit, setup, domain, entry point | none or constant | pages, tables, ids | pure functions |

### How they interact

The interface calls `RuntimeClient`; the runtime's one worker thread owns a
`CommandExecutor` and calls the service.  `ApplicationService::worker()` hands
out further executors that share the lifecycle and the registries but have a
connection of their own, so several threads may execute at once.  Each
execution takes the lifecycle read lock, maybe an operation lock of a
registry, then an immediate SQLite transaction; memory takes its operation
lock inside the transaction.  `finish` takes the lifecycle write lock.  The
process guard lives in the service, not in the executors.

### What is hard

Steps outside the lock between admission and send; two channels polled one
after the other; several shutdowns racing one join handle; panics; startup as
a row of transactions; executors that outlive the guard; retries of a command
id; previews that read before they register; cancels that race confirmations;
event, projection and receipt written by three repositories; answers made again
from an old event; answers that come when the screen has moved on; workflows that
are refused, retried, interrupted and taken up again.  Each is listed
with its line under `hazards` in `PROJECT.json`.

## 2. Modules

| Module | Models | Checked by | Proved in |
|---|---|---|---|
| `Runtime` | `src/runtime/mod.rs` | `MCRuntime` | `RuntimeProofs` |
| `CommandTransport` | the contract of the runtime, without threads or locks | refined by `Runtime` | `RuntimeProofs` |
| `Journal` | startup, end of session, crash, execution and receipts over one database | `MCJournal` | `JournalProofs` |
| `OnceOnly` | the contract of command receipts | refined by `Journal` | `JournalProofs` |
| `Reviews` | the three review registries and the locks around them | `MCReviews` | `ReviewsProofs` |
| `Memory` | memory entries, proposals and approvals, their tables, the reducer and the repair at startup | `MCMemory` | `MemoryProofs` |
| `MemoryPromise` | what the memory promises its owner | refined by `Memory` | `MemoryProofs` |
| `Recall` | the reads of the memory and the building of snapshots, over `Memory` | `MCRecall` | `MemoryProofs` |
| `Library` | profiles and skills, their tables, the reducer, startup, reads and receipts | `MCLibrary` | `LibraryProofs` |
| `LineInput` | the reader thread of the line interface, on Unix and on Windows, and its cancellation | `MCLine` | |
| `Line` | the host of the line interface and its three workflows, over `LineInput` | `MCLine` | `LineProofs` |
| `ProfileEditor` | the form of an agent, which both front ends use | `MCLine`, `MCTerminal` | `LineProofs`, `TerminalProofs` |
| `Host` | the event loop of the full-screen terminal, its one slot and its teardown | `MCTerminal` | `TerminalProofs` |
| `MemoryView`, `MemoryDesk` | the memory screens: the view's state, then its keys, requests and answers | `MCTerminal` | `TerminalProofs`, `AssignmentProofs` |
| `Roster` | the list of agents and what is loaded of the selected one | `MCTerminal` | `TerminalProofs`, `AssignmentProofs` |
| `ProfileDesk` | creating and editing agents on the screen | `MCTerminal` | `TerminalProofs`, `AssignmentProofs` |
| `SkillEditor`, `SkillsDesk` | the form of a skill; the library and the assignment of skills | `MCTerminal` | `TerminalProofs`, `AssignmentProofs` |
| `Cockpit` | the tabs, the refreshes they need and the command line | `MCTerminal` | `TerminalProofs`, `AssignmentProofs` |
| `Terminal` | all of the terminal put together, for an operator on a tour | `MCTerminal` | `TerminalProofs`, `AssignmentProofs` |

Who extends whom: `Recall` extends `Memory`; `Line` extends `LineInput`; `Host` <-
`MemoryView` <- `Roster` <- `MemoryDesk` <- `ProfileDesk` <- `SkillsDesk` <-
`Cockpit` <- `Terminal`; `AssignmentProofs` extends `TerminalProofs`.  The two editors are operators on a form and are
instantiated where they are used.

An operator called `Faulty...` or `Forgetful...` is a plausible wrong version of
the definition that follows it.  No behaviour uses it; put in the place of that
definition it shows that a property notices the mistake.

### Runtime

State: the variables in the first group are `SharedRuntime::state` and its
condition variable (`sleeping` holds the threads inside `wait`), the second the
two channels, the third the worker's program counter, the fourth what the
application was asked to do.  A call is one element of `Submitters` (blocking:
`submit`, `request_reply` and all previews) or `Tryers` (`try_submit`); a thread
that calls again is another element.  Each action is one critical section, one
channel operation or one call into the application:

- `Reserve`, `Send` / `SendFails`, `ResolveReservation`, `Receive`: a blocking call.
- `TryAccepted`, `TryRefused`: `try_submit`, which sends under the lock.
- `SelectControl`, `SelectNoControl`, `PollEmpty`, `PollDisconnected`,
  `TakeRequest`: the worker's `select_biased!`.  The select polls control and
  then requests; the two polls are two steps.
- `ExecuteReplies`, `ExecutePanics`, `AnswerPanicked`: the application answers,
  with an outcome or an error, or panics.
- `DrainEmpty`, `DrainCheck`, `DrainWakes`, `DrainDone`: `drain_reservations`.
- `Finish`, `PublishExited`, `DropReceiver`, `DropExecutor`: the ends of the
  worker; the executor's `Drop` finishes again if nothing succeeded before.
- `CloseAdmission`, `TakeHandle`, `AnnounceOwner`, `JoinWorker`,
  `WaitForJoined`: `finish_and_join`; `DropRuntime` and `Reap`: `Drop`.
- `SpuriousWake`: a condition variable may wake without a notification.

`joinOwner` and `joinWaiters`, which only the timeout waits used by tests read,
are folded into the finishers' program counters; their notifications are kept.
The drop of a sender is part of the send it follows.

### Journal

State: the database file (`schema`, `log`, `stored`, `damage`, `receipts`), the
lock file (`guard`), the processes and the attempts (calls of `execute`).  An
immediate transaction is one step, because SQLite runs them one after another
and a transaction that does not commit changes nothing.  A process starts at most once and names its
session.  `Startup(p)` is the coordinator's transactions in order; `Die` may
come between any two; `Drop` drops the service and the guard with it while
other executors live on; `Damage` changes projection rows from outside
(`pointers` are the active-profile rows `reconcile_startup` rewrites, `rows`
the session and metadata rows only a rebuild repairs).  `Replay` says what
folding `reduce` over the stream amounts to.  A command is one abstract event;
what the command itself changes belongs to the components it changes.  Domain
errors leave no receipt (`AttemptFails`), a refused capability leaves one
(`MainDenied`).  The reason of a session end is left to `Runtime`.

### Reviews

State: the lifecycle lock (`phase`, and `closing` while its writer waits), the
immediate transaction (`db`), one version per object, the receipts, and for each
registry its operation lock (`op`) and its place (`slot`).  A preview is an
element of `Previews`, used once, and its name is the token it hands out; an
execution is an element of `Attempts`.  What a command repeats of a review is
two things: the version it was shown for (`base`), which only the commit
compares with the active one, and the rest (`asShown`), which the reservation
compares.  `BeginPreview` .. `Register` is a preview, `Lookup` .. `Settle` an
execution, `ReservedFails`, `InsideFails`, `Contention`, `Panic` its ways out,
`ClearAfterFailure` what `execute` does after a failed memory command,
`CommitShutdown` .. `CancelMemory` the end of `RequestShutdown`, `Finish` the
service's `finish`, which may fail at the journal and leave the lifecycle open.
Merged into one step each, because nobody can look in between: a slot's
release with the rollback and the return of the operation lock that follow it;
the whole of `finish` under the write lock.  The lifecycle lock lets no new
reader in while a writer waits, as the platform's futex implementation does.
What the changed objects contain is left to the components that own them.
The services the tests make with registries of their own are left out.

### Memory

State: the memory events of the stream (`log`), their reduction (`memory`), the
immutable tables (`rows`), the two current tables (`pointer`, `status`), and
whether the service runs.  Keys are in namespaces; an id is the position of the
event that made the thing.  `SetEntry`, `Propose`, `ApproveProposal` and
`RejectProposal` are the four commands (a deletion is the operation
`Tombstone`), each one immediate transaction and so one step: first what it
reads and authenticates (`Readable`, `EntryRowsSound`, `ProposalRowsSound`,
`Coherent`), then its own conditions, then `Commit`, which appends, writes the
rows (`RowsAfter`), lets the reducer judge (`Fits`, `Reduce`) and writes the
projection rows (`ReplaceCurrent`).  A command that would be refused changes
nothing and is simply not a step.  `expected` is what its author saw; it may be
any state of the past, and the review that carries it is `Reviews`' affair.
`OtherCommand` stands for every other command that commits, because all of them
write the projection rows.  `Start` is `reconcile_startup`.

`Damage` changes the tables from outside: a row is lost, or altered so that its
columns, its record and its digests disagree, or appears from nowhere (only
while the service is down); a pointer or a status is set to another legal value
or lost.  The stream itself is not damaged: its digests are verified at every
start.  An altered row that `replace_current_projection` would notice only
because of the column that changed is let through, which allows more than the
code does.

The values of entries, purpose tags, rationales and sizes are one model value;
clocks, actors and the digest chain are left out.

### Recall

State: what `Memory` keeps, and in `others` the reads that were recorded, each with the
number of memory events before it, its request, its event and the view that
was answered.  Each namespace belongs to one profile, whose editions change
(`Upgrade`).  A read takes its answer from the tables, in the order the code
checks them, and is a step only if the reducer accepts its event (`ReadFits`).
`AnsweredAgain` and `Stands` are a retry: what the service would
build anew from the recorded event, the immutable tables and the projection as
of the event.  A snapshot is built greedily under its four budgets (`Built`), and
checked again as a whole (`SnapshotSound`).  Summaries are given once and
for all (`Episodes`): nothing in the program records one yet.  `doubtful` marks a
read made after damage since the start.  Three things rest on the
current tables alone, which the reducer does not recount, and are excepted then: which
entries a page that cannot hold them all holds, a snapshot, and what a shown proposal
says its key holds.

### Library

State: the stream of the profile and skill commands, what each was answered
with, the two tables of versions, the two tables of active pointers and the
service.  A command is one transaction: a change appends an event, inserts the
row, moves the pointer and rewrites the tables; a read appends its event; both keep
the view for the receipt.  `View(i)` and `Stands(i)` are a retry of the i-th
command, made from the event, the rows and the projection up to the event
(`ProjectedFor`).  `Startup` seeds the built-in skills, checks every row against the
stream and puts back what is missing.  A built-in skill has its compiled-in
version without an event until it is first edited.  Of the content of a profile
only the name and the pinned skills are told apart, of a skill the name and one
text.  The review that a change needs is in `Reviews`, what a denied or repeated
command leaves behind in `Journal`.

### Line and LineInput

`LineInput` has the reader thread step by step: the poll of two descriptors on
Unix, the announced and begun read on Windows, the channel of one place, and the
canceller, which breaks a read off only if it has begun.  `Line` has the host:
one line after the other, answered before the next.  The three workflows (memory,
skill, agent) exclude each other and are one variable, `flow`; the flag of a
registered memory review is apart from it, as in the code.  Every request may be
refused and every write may fail; what a line says is chosen where it is served.
When the loop has ended, whatever way, the host cancels workflows, cancels and
joins the reader and finishes the runtime (`host.at`).

### The terminal

`Host` has the slot (`pending`), what waits for it (`deferred`), and how the loop
ended and was cleaned up.  A key is a step of its own, enabled where the loop reaches its
read (`AtTheKeyboard`); an answer is a step that may come at any time, with success,
a refusal or an error.  Requests that the code waits for at once (agents' forms,
skills) are one step with the answer chosen in it.  Counters of
generations only grow, so a request carries a flag that every bump clears, whatever
moves the selection: a key, a typed command, a refresh of the list or a form.
The desks follow the code's split: `MemoryView` is the state and methods of the
model, `MemoryDesk` the keys, the requests and what is done with the answers.
A review is compared with its request as the host does it (`SetReviewMatches`,
`DeleteReviewMatches`, `ResolutionReviewMatches`): the agent's version, and what the
note held.
`store` is what the runtime has recorded, which changes through this terminal
only: the process guard keeps every other process away.
What is abstracted: scrolling, the highlight inside a list of actions, help,
audit and setup pages, the wording of messages.  A draft's field says "old",
"new" or is not valid.

An operator takes a tour (`tour`): the groups of keys that are used.  All answers and all
steps of the loop are there on every tour.  The tours cross the desks that share state:
a form beside a memory draft, a form beside assignments, typed commands beside
the library and beside the reads of two agents.

## 3. What the runs check

| Run | Instance | What it shows |
|---|---|---|
| `runtime_safety` | 1 submitter, 1 try-submitter, 2 finishers, queue of 2, 2 reasons, fair | the safety properties of the runtime, its refinement of `CommandTransport`, and that admitted calls return, shutdown completes and a dropped runtime is reaped |
| `runtime_lost_wakeup` | 2 submitters, 1 finisher, queue of 1, fair | violated: see findings |
| `journal_safety` | 2 processes, 2 attempts under one command id with 2 requests, 1 damage | stream, projection, sessions and recovery; `Journal` implements `OnceOnly` |
| `reviews_safety` | 2 previews, 2 executions, 2 command ids, all three registries | what a confirmation may record; nothing waits for ever on the locks |
| `memory_safety` | 2 keys, 2 values, 1 active key and 2 pending proposals at most, 4 events, 2 damages | one line of versions per key, tables that tell the stream, repair; `Memory` implements `MemoryPromise` |
| `recall_safety` | 2 keys, 2 values with and without a tag, 2 summaries, 3 snapshot budgets, 2 memory events, 1 read, 1 damage, pages of 1, 2 editions | reads show what the stream says; retries are answered as before |
| `library_safety` | 2 profiles, 1 built-in and 1 own skill, 2 names, 3 changes, 1 read, 1 damage | tables that tell the stream, names, pins, retries, accepted startups |
| `library_history` | 1 profile, 2 skills, 2 texts, 2 changes | violated: see findings |
| `line_safety` | three sessions: a memory workflow with 1 line typed ahead, an agent's with 2, both on Unix, a skill's with 2 on Windows; fair | reviews and phrases agree with the runtime and the form; the host comes down |
| `terminal_desk` | ten tours without text, 2 agents, 2 skills at up to 2 versions, 1 note, 1 suggestion, 1 summary; fair | screens, registered reviews, assignments, quits and refreshes |
| `terminal_forms` | eight tours through the forms, 1 agent, 1 skill, 1 note, 1 suggestion | reviews belong to drafts; begun work is kept |
| `terminal_session` | one tour through the notes | violated: see findings |

The bounds are the smallest at which the interesting cases happen.

- Runtime: a blocking and a non-blocking caller and two queue places; two finishers race
  for the join handle.  That many callers may block is proved for (section 4).
- Journal: a crashed or dropped process and one that starts beside it; two
  attempts are a first try and a retry or a conflicting use.
- Memory: four events hold two proposals for one key and the approval of one with
  the expiry of the other, or a key written, deleted and written again; two
  damages are a lost row and a pointer that forgets it, the least that gets past
  the tables' own checks.
- Recall: two events are two keys, a key rewritten, or a proposal and its
  resolution; a page of one leaves something out; budgets stop by count, by size
  and by sources.
- Library: three changes are a skill, a profile that pins it and the edit or the renaming of
  either; one name too few for everybody makes conflicts.
- Line and terminal: one note, two versions and two agents are enough for a
  screen, an answer and the runtime to disagree in each of the ways the code compares.

Symmetry is used only for runs without liveness properties.  Deadlock is
not checked as such (`CHECK_DEADLOCK FALSE`) in the modules of the service: the system is
meant to stop when every call has returned.  That nobody waits for ever is what
the liveness properties and `SomeoneCanMove` say.

### Fairness

Runtime: weak fairness for the worker's steps, for a call once it has begun, for a
finisher once it has closed admission and for the reaper: the operating system
schedules every runnable thread and crossbeam's channels wake a blocked sender
when there is room.  Nothing is assumed of who calls what, or of spurious
wakeups, and an execution is assumed to return or panic.  The fair run keeps
blocking submitters at or below the queue's capacity; `runtime_lost_wakeup` shows
why it has to.

Line: weak fairness for the host's own steps, for the reader's and for the system
call that breaks a read off.  That somebody types is not assumed.

Terminal: weak fairness for answers (the runtime answers each request, which is
what `Runtime` shows), for what the loop does by itself when the slot is free, and
for the teardown.  Keys are not forced and may come at any rate.

Reviews states no fairness: that there is always somebody who can move is an invariant.

### Findings

1. **Shutdown can hang** (`runtime_lost_wakeup`). `drain_reservations` polls the
   queue empty, takes the lock and sleeps while reservations remain.  A sender
   that sends and resolves between the poll and the lock notifies nobody; with
   the queue full again, the other reserved senders stay blocked in `send` and
   nobody is left to wake the worker.
2. **An answer can end the session** (`terminal_session`).  Creating a note under
   a name that exists is answered with a preview of an edit; the
   comparison with the form's empty expectation fails and returns
   `UnexpectedControllerEffect` (`src/ui/tui/host.rs:190`), which leaves the event
   loop with the draft on the screen.  The design promises that recoverable errors
   "stay beside the affected field or action and preserve editable input"
   (`docs/superpowers/specs/2026-09-12-two-pane-tui-design.md:274`).
3. **The history of an edited built-in skill cannot be shown**
   (`library_history`).  `ShowSkillHistory` counts the compiled-in version as a row, but
   its answer is made from the projection of the stream, which has no event for
   it; the counts differ and the command fails (`src/app/service.rs:5028`).

### Observations

Met while modelling, not stated as runs:

- A shutdown reason can be lost.  Admission closes between the worker's poll of the
  control channel and its poll of the closed request channel: the loop takes the
  disconnected branch, and the executor's `Drop` records `ApplicationError`
  (`src/runtime/mod.rs:1240`).
- `user_version` is read before the migration transaction that relies on it: of two
  first starts the loser fails with a migration error instead of `AlreadyRunning`.
- The draft of a note outlives an edit of its agent and stays bound to the version it
  was opened with.  Its next preview is of the new version: the review is cancelled and
  the loop ends, as in finding 2 (`src/ui/tui/host.rs:337`).
- After any terminal failure `execute` calls `memory_reviews.finish()`
  (`src/app/service.rs:1333`), whatever is registered by then; a command with a
  replaced token costs the user the review that is on the screen.
- A namespace whose authentication reaches more than 4,096 versions and proposals is
  refused with `MemoryRowMismatch` (`src/persistence/memory_repository.rs:2135`);
  nothing prunes.
- 1,024 active keys are counted by the commands only; the reducer repeats only the
  count of pending proposals.
- A list of summaries is refused by the reducer once the profile has a newer
  version than one of the summaries.
- A snapshot leaves out an entry whose pointer row somebody removed, and a proposal that
  was shown while its key's pointer was behind has a receipt that can never be
  answered again.  The reducer counts the entries of a namespace and checks each
  that is listed (`src/recovery/reducer.rs:899`): with one pointer lost and that of a deleted key
  set back the counts agree, and a page that does not hold all entries shows a later one in the
  place of the lost one.  `ReadsTellTheStream` and `RetriesAnswerTheSame` name the
  exceptions (`doubtful`).
- A page of an assignment can be headed by another assignment.  What it would do is
  decided when the agent is loaded (`src/ui/tui/controller.rs:310`); moving
  the selection in the library, which stays on the screen beside the page, changes its
  target and not its heading, so that it can offer an upgrade to the version that the
  agent uses, where the design says "an already-assigned version is a no-op"
  (`docs/superpowers/specs/2026-09-12-two-pane-tui-design.md:228`).  The change itself
  is safe: the preview holds the selected target against what is pinned, and the
  confirmation names both versions (`AssignmentIsWhatItSays`).
- A draft of a note that says what the note says can be lost without a discard:
  its submission changes nothing and leaves the form on its review page, the
  focus can be moved back to the list, and a suggestion that is resolved from there
  clears the form (`src/ui/tui/host.rs:2261`).  `WorkIsKept` names the exception; no other draft goes
  that way.

## 4. What is proved

`RuntimeProofs` proves, for any finite set of submitters, any try-submitters and finishers, any capacity
and any reasons, from `RuntimeAssumption` only: `TypeOK`, `ReservationsCounted`,
`GracefulEndLosesNothing`, `OpenMeansServed`, `JoinersAgree`, `FinishedOnce` and
`NothingAfterFinish`.  The argument is one inductive invariant, `IInv`, a
conjunction of named parts:

- `Places`, `InHand`: where a call can be (queue, worker's hand, answered) and
  that it is in one place only;
- `Closed`, `Sealed`: once admission closes, who may still send; once the
  receiver is dropped, nobody;
- `Accounted`: with reservations at zero and the queue empty, every sent call is
  answered, which is what makes the drain's second poll sufficient;
- `JoinedIsGone`, `FinishCalls`: what the published ending says of the worker and
  of the finishes so far.

None of the listed safety properties is inductive alone: losing nothing in a
graceful end, for example, needs that the counter is exact (`ReservationsCounted`), that
no sender appears after the last poll (`Closed`) and that a taken request is
answered before the next (`InHand`).  Preservation is proved action by action.

`ReviewsProofs` proves, for any finite sets of previews and executions and any command
ids, from `ReviewsAssumption` only: `NothingUnseenIsOverwritten`,
`DroppedIsNeverRecorded` and `NoStrandedReservation`.  Again one inductive invariant,
`IInv`, carries all three; TLC found it true on the instance of `reviews_safety`:

- `Held`: an execution between its reservation and the end of its consumption
  holds the operation lock of its registry, and its place, unless it is a
  skill's and was cancelled (a skill cancel takes no lock);
- `Placed`: a review in a place was shown, is of that registry and was never
  dropped;
- `RecordedOnce`: a recorded profile or memory review was not dropped, and is in its
  place only until the execution that recorded it empties it; a cancel that got
  the lock therefore never finds a recorded review to drop;
- `Counted`: the version of an object is the number of its recorded changes, so the
  version check at the commit says that nothing came between.

Most actions do not concern the executions at work: `KeptStep` and `ClearedStep` say
so once (`Undisturbed`), and the lemma of an action has only to show that it is such a
step.  Without the version check in `Commit`, or without the lock in `Cancel`, the
proof does not go through.

`RuntimeProofs` also proves that the runtime implements
`CommandTransport` (`ImplementsTransport`): every step of the threads, of the lock, of
the channels or of the drain is one step of the contract or none.  One more invariant
is needed, `OnePlace`: a call is in one place at a time, so what has not been sent is in no
queue, what is queued is queued once, and what is queued or in hand has no reply yet.
`Sealed` then says that nobody sends once the contract has stopped.

`JournalProofs` proves, for any processes, attempts, commands and requests, from
`JournalAssumption` only: `TypeOK`, `ProjectionFaithful`, `CommandsInsideTheirSession`,
`LifecycleIsWellFormed`, `UndisturbedStartupIsAccepted`, the action property
`ServingStartsRepaired`, and that receipts implement `OnceOnly`.  `IInv` adds:

- `Owned`: the lock file names exactly the process that starts up or serves;
- `Stream`: the rows are what the stream replays to, and at most one session is
  open in it, so a session that is begun or ended fits what the stream says;
- `Unstarted`, `Remembered`: a process that has not begun its session is not in the
  stream, and what startup holds in memory is the stream of some moment, so that the
  comparison of sequence numbers before a write is enough;
- `Undisturbed`: a startup that neither a detached executor nor damage came in
  between of knows how things are, at each of its transactions;
- `Asked`, `Receipts`: what an attempt asks, and that an answer is given with the
  receipt of its command, which maps each step to the contract's.

`MemoryProofs` proves, for any namespaces, keys, values, any number of events and any
damage, from `MemoryAssumption` only: `TablesTellTheStream`, `HistoryIsOneLine` and
`KeepsPromise`, the refinement of `MemoryPromise`.  A command may read what it likes
from damaged tables: the reducer judges its event by the stream, and a pointer with the
right id is the right one.  `IInv` says so:

- `LogTyped`, `Reduced`, `OnlyProposedIsSettled`: the projection in memory is what
  startup would derive from the stream;
- `PointersAreKnown`: a pointer, wherever it was moved, stays in its key's history;
- `PendingIsCurrent`: an undecided proposal is for the key as it is;
- `Chained`: every version goes on from the one before it in its line.

Without the reducer's comparison with the stream, `Chained` is lost by a command that
read a moved pointer.

The same module proves `RetriesAnswerTheSame` of `Recall`, with `AlteredIsNoRow` (no row that
somebody wrote counts as altered) and `RecallAssumption` besides.  It takes three more
invariants:

- `SInv`, of the stream and the immutable rows: a proposal is settled once
  (`SettledOnce`), an accepted version says what its proposal says (`Sourced`), and nobody
  can make up a row, so one that can be read is the one that was written
  (`VersionsHonest`, `ProposalsHonest`, `ApprovalsHonest`);
- `IsReplay`: the projection is the replay of the stream, so that the replay up to an event is
  what the projection was then, whatever was appended since (`PastStays`);
- `ReadsAreFaithful`: what a read recorded names rows of the stream, with the editions as of it.

From these, tables that tell the stream bear out every recorded event again
(`ReadAnsweredAgain`, `EventStands`), since every version and proposal in them can be loaded
(`AllLoadable`, `AllProposalsLoadable`).  Pages are sorted and projections are folds over
the stream; what the proof needs of them (`LineIsSorted`, `Recursion`, `TrailExists`) goes by the
least counterexample (`Least`, from the library's `NatLessThanWellFounded`), as its induction
theorems cannot be used.

The last theorem of the module is `ReadsTellTheStream`, from the same assumptions.  That a read
invents nothing is in `ReadsAreFaithful`; that it leaves nothing out, and has things in their
places, takes the comparison of each read with the projection when it is recorded (`EntriesReport`
to `SnapshotReport`, put together in `ReadReports`):

- A page is the line of its set.  The program reads it from a table that may be damaged, and the
  reducer compares only a count: rows that are intact, all of the set and as many as it, are the
  set, and the place of each in the line is a count as well (`LineIsSorted`, `CountUp`).
- A snapshot joins two lines, what was meant for its purpose and what is for any.  That is the one
  line by rank (`LinesJoin`, `EntryStreamIsRanked`, `SummaryStreamIsRanked`).  Each item is taken
  exactly if it fits beside those taken before it (`GreedyRuns`), where the bytes that the entries
  take are what the summaries begin with (`SnapshotGreedy`).

`TInv` adds to `RInv` that every recorded read still is what the stream told up to its event
(`ReadsAreTold`).  It keeps, besides, that what the replay up to there names is in the stream
(`Rooted`), since events outside it would be anything.  As the stream only grows, no later step
disturbs it (`ToldStays`).

`LibraryProofs` proves, for any skills, profiles and names, any number of changes, reads and
restarts and any damage while the service is down, from `LibraryAssumption` only:
`RowsTellTheStream`, `NamesAreNotShared`, `PinsResolve`, `RetriesAnswerTheSame` and
`UndamagedStartupIsAccepted`.  These speak of the tables, which may be damaged while
nothing serves; so the parts of `IInv` speak of the stream (`SkillsAreChained`, `NamesAreOwned`,
`PinsAreKnown`), of the tables only as long as nobody damaged them (`Untouched`), and of
retries as they would be answered from tables that say what the stream says
(`Repeatable`, which reads the module a second time through `Truth`).  That a later
change does not disturb an earlier outcome rests on rows that only grow, and on
a history that is cut at the version its event names.

`LineProofs` proves, for any keys, fields, versions and sessions, from the assumptions of
`Line` (that nothing that may be there is `None`, `NoneIsNothing`): `ReviewsAgree` and
`PhraseNamesTheForm`.  A line leaves behind a workflow that is `Sound` and reviews that
fit it, or it ends the loop.  `Agree` says more than `ReviewsAgree`: that a form for
a new agent has no review, because its confirmation cancels none; without that
`ConfirmAgent` would leave one behind that nobody names.  The methods of
`ProfileEditor` are shown, one by one, to keep a form `Faithful`: its review is of what it says.

`TerminalProofs` proves, for any agents, notes, skills, versions and tours, whatever answers come and in
whatever order, from the assumptions of the modules it puts together (an Option is `None`
or something else, there is a first agent, a session edits fields that the forms
have): `NothingHeldIsForgotten`, `OfferedIsRegistered`, `ShownIsSelected` and
`ReviewIsOfTheDraft`.  `IInv` has four parts, and each of the hundred steps keeps each:

- `Screens`: what is loaded is of the agent that is selected.  An answer is installed if
  its generation is the present one; so a read that is still `Timely`, in the slot or
  waiting for it, has to be for the present target and to go on from something that is still
  there.  That needs the versions in order (the list's, the detail's, the runtime's), or a
  refresh could bring a target back under an old read.  `Reach` is all that a step
  may do to the list and what is loaded;
- `Reviews`: the runtime's reviews and the screens' flags agree exactly (`Agree`),
  not only in the direction that each property states;
- `DeskForm`, `ShelfForm`: a form is `Faithful`, and a command waits for a yes only on the
  confirmation's own pane, where no key changes the form behind it.

An attempt at `Screens` found the model wrong: a generation that a typed command, a refresh or
a form moves was not cleared in a read under way.  `Retargeted` in `Roster` is the correction.

`AssignmentProofs` proves `AssignmentIsWhatItSays`, with the same assumptions. It needs a second
invariant, `AInv`, which rests on the first. What waits for a yes is a promise about the library
and about one version of an agent (`Promises`). It outlives every other step because what is
recorded only grows, and what an agent uses changes only with its version (`Grows`). That it was
true when it was made needs what it was made from to be there: the rows, the details, the
history, the result of a command and the previews that wait or are under way name versions that
exist (`Shows`, `Slot`, `Waits`), although the tab may show any earlier state of the library.

The same module proves the action property `WorkIsKept`: no answer, refresh, error, change of
tab or typed command takes begun work away.  It takes a third invariant, `WInv`, over the
other two, with one part for each desk:

- `DeskWork`: the command of an agent's form that waits for a yes is of the version its draft
  began with.  Without it, a command refused as stale could clear a draft of the present version;
- `ShelfWork`: the starting points of a new skill, which begin a form afresh, are on
  the screen only while there is no draft;
- `Penned`: a draft of a note stays in its pane until it has come to its review, there is one
  review at a time, and only a draft that repeats its note (`Repeats`) stands at its last step
  without one (`Listed`, `Drafted`); what was sent to the runtime is a review that was
  confirmed (`Ordered`).  So an answer that clears the editor is of the draft in it and has
  changed the notes, or the draft had nothing to say that its note does not.

Most steps touch no draft: `ElsewhereWork` covers them, and leaves to each only that
the views give way (`Parks`) where no work was begun.  The proof assumes, besides, that no
form, draft or review is `None` (`NoneIsNoForm`, `NoneIsNoNote`: an `Option` is `None` or
holds a value, and the model says the latter by membership in a type), and that where there
is a suggestion there is a note for it to be about (`SuggestionAssumption`).

Only model-checked:

- every liveness property, under the fairness of section 3: out of the prover's reach;
- `SomeoneCanMove` of `Reviews`, which speaks of ENABLED.

## 5. Not modelled, and why

- Drawing and layout: no state of their own.
- Parsing of lines and rendering of views: functions from bytes to commands and
  from views to text.
- Digests, canonical JSON, SQL and row encoding: data.  That altered rows are
  noticed is modelled (`Altered`), how is not.
- The contents of the migrations; path resolution; the model-role table; clocks and ids.
- Episodic summaries as tables: nothing in the program records one.
- Profile templates, bindings and the retrieval of skills for a prompt: pure
  functions over one profile, behind no command that changes state.
- Audit pages: read-only views of the stream.
- Policy: capability defaults are a table; what a denial leaves behind is in `Journal`.
- The timeout waits of the runtime that only tests use (they change no state);
  thread spawn failures (they return before there is state); placeholder modules.

## 6. Plan

Done: the runtime and its proofs, the journal, the reviews, the memory, its reads, the
library, the line interface and the terminal.  What would add most from here:

1. Pure algorithms against references: audit pages, the retrieval of skills,
   normalisation of names and tags, the parser.
2. The composition of a front end with `Reviews`, so that a phrase confirmed on
   the screen is followed to the recorded event.
