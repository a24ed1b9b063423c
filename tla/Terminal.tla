------------------------------ MODULE Terminal ------------------------------
(***************************************************************************)
(* The full-screen terminal, src/ui/tui: the host's loop, the agents with   *)
(* their memory and their form, the skills, the tabs and the command line,  *)
(* against a runtime that answers late, refuses, or is busy.                *)
(*                                                                         *)
(* An operator takes a tour: the parts of the terminal whose keys are used.  *)
(* Every step of the loop, and every answer, is there on every tour.         *)
(***************************************************************************)
EXTENDS Cockpit

CONSTANTS
    Tours           \* bound: what an operator uses, and what there is to begin with

Stops == {"agents", "profiles", "notes", "drafts", "deletion", "history", "suggestions", "episodes",
          "editing", "typing", "shelf", "versions", "skills", "references", "assignments", "commands", "workflows"}
ASSUME TourAssumption ==
    Tours \subseteq [stops : SUBSET Stops, agents : SUBSET Profiles, skills : [Skills -> 0 .. MaxSkillVersion]]

\* A suggestion is of a note.
ASSUME SuggestionAssumption == Suggestions = {} \/ Notes # {}

VARIABLES tour

vars == <<hostVars, rosterVars, deskVars, shelfVars, tour>>
On(stop) == stop \in tour.stops

\* The first agent has every note, suggestion and summary, and uses every skill
\* there is at its first version.
InitStore ==
    [version |-> [p \in Profiles |-> IF p \in tour.agents THEN 1 ELSE 0],
     notes |-> [p \in Profiles |-> [n \in Notes |->
                   IF p = FirstAgent THEN [v |-> 1, live |-> TRUE] ELSE [v |-> 0, live |-> FALSE]]],
     sugs |-> [s \in Suggestions |->
                  [p |-> FirstAgent, n |-> CHOOSE n \in Notes : TRUE, status |-> "pending"]],
     summaries |-> [e \in Summaries |-> FirstAgent],
     skills |-> tour.skills,
     uses |-> [p \in Profiles |-> [s \in Skills |->
                  IF p = FirstAgent /\ tour.skills[s] > 0 THEN 1 ELSE 0]]]

Init ==
    /\ tour \in Tours
    /\ HostInit
    /\ store = InitStore
    /\ mem = BlankMemory
    /\ RosterInit(InitStore.version)
    /\ DeskInit
    /\ \E s \in Skills : /\ \A t \in Skills : tour.skills[t] <= tour.skills[s]
                         /\ shelf = BlankShelf(s)

-----------------------------------------------------------------------------
\* A slip: only a review that has come as far as its confirmation is cancelled.
FaultyOwned ==
    {kind \in ReviewKinds :
        CASE kind = "memory" -> mem.confirmation # None
          [] kind = "profile" -> desk.confirmation # None
          [] kind = "skill" -> shelf.registered}

\* What the teardown cancels: the reviews the model says there may be.
Owned ==
    {kind \in ReviewKinds :
        CASE kind = "memory" -> mem.registered
          [] kind = "profile" -> desk.editor # None \/ desk.confirmation # None
          [] kind = "skill" -> shelf.registered}

\* Nothing else of the screens matters once the loop has returned.
Dropped ==
    /\ mem' = [BlankMemory EXCEPT !.registered = mem.registered]
    /\ roster' = [roster EXCEPT !.tab = "overview", !.focus = "List", !.pane = "List", !.sel = FirstAgent,
                    !.detail = None, !.history = None, !.version = None, !.past = 0,
                    !.skillPanel = FALSE]
    /\ desk' = [desk EXCEPT !.page = "home", !.field = "role"]
    /\ shelf' = [BlankShelf(shelf.sel) EXCEPT !.registered = shelf.registered]
    /\ UNCHANGED store

\* While the form shows its templates it takes the keys of both panes.
OnTemplates == roster.pane = "Editor" /\ desk.editor # None /\ desk.page = "templates"

AgentKeys ==
    /\ ~TextEntry /\ ~OnTemplates
    /\ \/ On("agents") /\ (OpenAgent \/ AwaitDetail \/ Back \/ Tab \/ \E q \in Profiles : SelectAgent(q))
       \/ On("profiles") /\ (OpenHistory \/ ShowPast \/ \E v \in 0 .. 2 : PickPast(v))
       \/ (On("profiles") \/ On("assignments")) /\ OpenSkillPanel

NoteKeys ==
    \/ On("notes") /\ (OpenMemory \/ OpenNote \/ LeaveLayer \/ \E n \in Notes : PickNote(n))
    \/ On("drafts") /\
        (\/ OpenCreate \/ OpenEdit \/ BackInEditor \/ SubmitTags
         \/ \E n \in Notes : NameDraft(n)
         \/ \E same \in BOOLEAN : WriteDraft(same))
    \/ On("deletion") /\ RequestDelete
    \/ ConfirmReview \/ LeaveConfirmation \/ Execute \/ CancelReview
    \/ On("history") /\ (OpenNoteHistory \/ OpenVersion \/ \E v \in 1 .. MaxVersion : PickVersion(v))
    \/ On("suggestions") /\
        (\/ OpenProposals \/ OpenSuggestion \/ RequestResolution
         \/ \E s \in Suggestions : PickSuggestion(s)
         \/ \E x \in {"approve", "reject"} : ChooseResolution(x))
    \/ On("episodes") /\ (OpenEpisodes \/ OpenEpisode \/ \E e \in Summaries : PickEpisode(e))

SkillKeys ==
    \/ On("shelf") /\ ShelfBrowsing
    \/ On("versions") /\ ShelfVersions
    \/ On("skills") /\ ShelfForms
    \/ On("references") /\ NoteForms
    \/ On("assignments") /\ ShelfAssignments
    \/ ShelfConfirmations

TabKeys ==
    \/ (\E stop \in {"shelf", "skills", "assignments", "commands"} : On(stop)) /\ CockpitKeys
    \/ On("commands") /\ CockpitLine
    \/ On("workflows") /\ CockpitWorkflows

Keys ==
    \/ (AgentKeys \/ NoteKeys) /\ UNCHANGED <<desk, shelf>>
    \/ On("editing") /\ DeskForms /\ UNCHANGED shelf
    \/ On("typing") /\ DeskTyping /\ UNCHANGED shelf
    \/ SkillKeys
    \/ TabKeys
    \/ ~TextEntry /\ Quit /\ UNCHANGED <<rosterVars, deskVars, shelf>>

-----------------------------------------------------------------------------
\* What the loop does by itself.
Answers ==
    \/ (MemoryAnswers \/ ProfileAnswered) /\ UNCHANGED <<desk, shelf>>
    \/ PreviewAnswered \/ CommandAnswered
    \/ ShutdownAnswered /\ Dropped

Catching ==
    \/ (RunDeferredMemory \/ RunDeferredProfile) /\ UNCHANGED <<desk, shelf>>
    \/ RunDeferredRefresh \/ StartPreview
    \/ SubmitQueuedShutdown /\ UNCHANGED <<rosterVars, deskVars, shelf>>

Exits == (Interrupt \/ LoopFails) /\ Dropped
Teardown == TearDown(Owned) /\ Dropped
Done == left # None /\ UNCHANGED <<hostVars, rosterVars, deskVars, shelfVars>>

Next == (Keys \/ Answers \/ Catching \/ Exits \/ Teardown \/ Done) /\ UNCHANGED tour

\* The loop polls for an answer, and looks for what waits, every time around:
\* no key keeps either away.  What the runtime was asked it answers (Runtime), and
\* the loop, once left, is cleaned up after.
Fairness ==
    /\ WF_vars(Answers /\ UNCHANGED tour)
    /\ WF_vars(Catching /\ UNCHANGED tour)
    /\ WF_vars(Teardown /\ UNCHANGED tour)

Spec == Init /\ [][Next]_vars /\ Fairness

-----------------------------------------------------------------------------
(* Properties. *)

\* A review that the runtime has registered for this terminal is known to the
\* screens that will cancel it, or the operator has been told that its cleanup is
\* not sure; and whatever the loop ends with, the teardown leaves none behind but
\* those it tried to cancel and could not.
NothingHeldIsForgotten ==
    LET unsure == IF desk.unsure THEN {"profile"} ELSE {}
    IN /\ Running => held \subseteq Owned \cup unsure
       /\ left # None /\ ended # "uncancelled" => held \subseteq left.failed \cup unsure

\* What the memory and skill screens take for a registered review is registered,
\* after refusals, retries and cancellations too: no confirmation is offered that
\* the runtime has already given up.
OfferedIsRegistered ==
    Running =>
        /\ mem.registered => "memory" \in held
        /\ shelf.registered => "skill" \in held
        /\ ConfirmedCommand(mem) # None => mem.registered

\* Whatever order answers, selections and refreshes come in, the details, the
\* history and the memory on the screen are those of the selected agent, and an
\* old version is shown only of the agent whose history it is picked from.
ShownIsSelected ==
    Running =>
        /\ roster.detail # None => roster.detail.p = roster.sel
        /\ roster.history # None => roster.history.p = roster.sel
        /\ roster.version # None =>
              roster.history # None /\ roster.version.p = roster.history.p
        /\ Protected(mem) /\ mem.bound # None => mem.bound.p = roster.sel

\* An assignment that waits for a yes is what its confirmation says, unless the
\* agent has changed since: what is added the agent does not use, what is replaced
\* or taken away is the version that it uses, what is put there is another version
\* and one that there is; however the selection moved in between.
AssignmentIsWhatItSays ==
    Running /\ shelf.confirmation # None /\ shelf.confirmation.by = "assignment" =>
        LET r == shelf.confirmation.command.request
            replaces == r.target.s = r.pinned.s /\ r.target # r.pinned
        IN store.version[r.p] = r.expected =>
               /\ IF r.kind = "add" THEN Pinned(r.p, r.target.s) = 0
                  ELSE Pinned(r.p, r.pinned.s) = r.pinned.v /\ r.pinned.v > 0
               /\ r.kind # "unassign" => r.target.v \in 1 .. store.skills[r.target.s]
               /\ r.kind \in {"upgrade", "reassign"} => replaces

\* What the operator confirms is what was reviewed: no key changes the draft of an
\* agent or of a skill and leaves its review in force.
ReviewIsOfTheDraft ==
    Running =>
        /\ desk.editor # None /\ desk.editor.review # None =>
               desk.editor.review.draft = desk.editor.draft
        /\ desk.confirmation # None /\ desk.confirmation.mode = "edit" =>
               desk.confirmation.review.draft = desk.editor.draft
        /\ shelf.editor # None /\ shelf.editor.review # None =>
               shelf.editor.review.draft = shelf.editor.draft
        /\ shelf.confirmation # None /\ shelf.confirmation.by = "editor" =>
               shelf.confirmation.command.review.draft = shelf.editor.draft

\* Begun work outlives everything but the operator's own discard, its success, for
\* the draft of an agent a newer version of that agent, and for the draft of a note
\* that it says what the note says: no answer, refresh, error, change of tab or
\* typed command takes a draft away or puts another in its place.
Same(e, f) == f # None /\ e.mode = f.mode /\ e.of = f.of
WorkIsKept ==
    [][Running' =>
        /\ desk.editor # None /\ ~Same(desk.editor, desk'.editor) =>
               \/ desk.page = "discard"
               \/ store' # store
               \/ desk.editor.mode = "edit" /\ store.version[desk.editor.of] # desk.editor.expected
        /\ shelf.editor # None /\ ~Same(shelf.editor, shelf'.editor) =>
               shelf.page = "discard" \/ store' # store
        /\ mem.editor # None /\ mem'.editor = None =>
               \/ LeavesEditor(mem.editor)
               \/ store'.notes # store.notes
               \/ mem.editor.seed # None /\ mem.editor.same]_vars

\* What had to wait for the slot is done, whatever keys are pressed: a quit, also
\* one behind a command in flight, ends in the teardown, and a refresh is started.
DeferredIsDone ==
    /\ stopping ~> left # None
    /\ deferred.nav # "none" ~> deferred.nav = "none"

\* No answer and no refusal ends the session by itself.
SessionOutlivesAnswers == ended # "unexpected"
=============================================================================
