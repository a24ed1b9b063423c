----------------------------- MODULE SkillsDesk -----------------------------
(***************************************************************************)
(* The library of skills in the terminal, and the assignment of skills to   *)
(* agents: SkillsViewState in src/ui/tui/model.rs, the keys in              *)
(* src/ui/tui/controller.rs and src/ui/tui/controller/skills_home.rs, and    *)
(* what src/ui/tui/host.rs and src/ui/tui/host/skill_preview.rs ask of the   *)
(* runtime.  All but the previews of what is selected is asked for at once,  *)
(* while the slot is free.                                                 *)
(*                                                                         *)
(* What the library and the runtime say of a skill is its version.  An      *)
(* agent uses a skill at a version, or not at all (0).                      *)
(***************************************************************************)
EXTENDS ProfileDesk

CONSTANTS Skills, EditedSkillFields, MaxSkillVersion    \* the last two are bounds

VARIABLES shelf     \* the skills tab

shelfVars == <<shelf>>

K == INSTANCE SkillEditor WITH Nothing <- None, EditedFields <- EditedSkillFields
ASSUME EditedSkillFieldsAssumption == EditedSkillFields \subseteq K!DraftFields

SkillDrafts == [EditedSkillFields -> {"old", "new", "bad"}]
SkillReviews ==
    [op : {"create", "version"}, s : Skills \cup {None}, expected : Nat, draft : SkillDrafts]
SkillForms ==
    [mode : {"create", "version"}, of : Skills \cup {None}, expected : Nat,
     field : K!DraftFields \cup {"reference name", "review"}, draft : SkillDrafts,
     note : {"none", "empty", "edited", "added"}, review : SkillReviews \cup {None},
     awaited : BOOLEAN]

\* An Option: no form is None.
ASSUME NoneIsNoForm == None \notin SkillForms

Cockpit == "cockpit"

BlankShelf(first) ==
    [loaded |-> FALSE, rows |-> [s \in Skills |-> 0], sel |-> first,
     pane |-> "List", focus |-> "Workspace", origin |-> None,
     detail |-> None, exact |-> FALSE, history |-> None, past |-> 0,
     source |-> None, sample |-> None,
     agent |-> None, assignment |-> None,
     editor |-> None, page |-> "home",
     confirmation |-> None, registered |-> FALSE, from |-> "skills", made |-> None]

\* has_protected_skills_workflow
ProtectedSkills == shelf.editor # None \/ shelf.confirmation # None \/ shelf.registered

-----------------------------------------------------------------------------
(* Views: SkillsViewState. *)

Ref(s, v) == [s |-> s, v |-> v]

\* selected_skill_ref
SelectedRef(k) ==
    IF k.pane = "History" THEN IF k.history = None THEN None ELSE Ref(k.history.s, k.history.v - k.past)
    ELSE IF k.detail # None THEN k.detail
    ELSE IF k.rows[k.sel] > 0 THEN Ref(k.sel, k.rows[k.sel]) ELSE None

InLibrary(k, s) == k.rows[s] > 0

\* replace_skills, replace_detail, replace_version_detail and replace_history
WithSkills(k, versions) ==
    [k EXCEPT !.rows = versions, !.loaded = TRUE]
Found(k, ref) ==
    [k EXCEPT !.sel = IF InLibrary(k, ref.s) THEN ref.s ELSE @,
              !.history = IF @ # None /\ @.s = ref.s THEN @ ELSE None,
              !.detail = ref]
WithSkill(k, ref) == [Found(k, ref) EXCEPT !.exact = FALSE, !.pane = "Detail"]
WithSkillVersion(k, ref) == [Found(k, ref) EXCEPT !.exact = TRUE]
WithSkillHistory(k, ref) == [k EXCEPT !.history = ref, !.past = 0, !.exact = FALSE]

\* clear_skill_context
NoContext(k) ==
    [k EXCEPT !.detail = None, !.exact = FALSE, !.history = None, !.past = 0, !.made = None]

\* start_create and start_version
WithForm(k, e) ==
    [k EXCEPT !.editor = e, !.pane = "Editor", !.page = "home", !.confirmation = None]

-----------------------------------------------------------------------------
(* Previews of what is selected: the newest waits for the slot. *)

PreviewTarget(k, s, starter) == [s |-> s, v |-> k.rows[s], starter |-> starter]

\* SkillPreviewTarget::is_current
PreviewCurrent(t, k, tab, stops) ==
    /\ tab = "skills" /\ ~stops
    /\ k.confirmation = None
    /\ k.rows[t.s] = t.v
    /\ IF t.starter THEN k.pane = "CreateSource" /\ k.source = t.s
       ELSE k.pane \in {"List", "Detail"} /\ ~k.exact /\ k.sel = t.s

\* queue_skill_preview
QueuePreview(queue, k, s, starter, tab) ==
    LET t == PreviewTarget(k, s, starter)
        underWay == InFlight /\ pending.kind = "preview" /\ pending.target = t
    IN [queue EXCEPT !.preview =
            IF InLibrary(k, s) /\ PreviewCurrent(t, k, tab, stopping) /\ ~underWay THEN t ELSE None]

\* queue_missing_skill_preview
QueueMissing(queue, k, tab) ==
    IF ~k.loaded THEN queue
    ELSE IF k.pane = "CreateSource"
    THEN IF k.sample = None /\ k.source # None THEN QueuePreview(queue, k, k.source, TRUE, tab) ELSE queue
    ELSE IF k.detail = None THEN QueuePreview(queue, k, k.sel, FALSE, tab) ELSE queue

\* The loop looks for what is missing after an event that came to the tab or to
\* another pane of it.
Looked(queue, k, tab) ==
    IF tab = "skills" /\ (roster.tab # "skills" \/ k.pane # shelf.pane)
    THEN QueueMissing(queue, k, tab) ELSE queue

StartPreview ==
    /\ AtTheKeyboard /\ Free
    /\ deferred.preview # None
    /\ deferred' = [deferred EXCEPT !.preview = None]
    /\ \/ /\ PreviewCurrent(deferred.preview, shelf, roster.tab, stopping)
          /\ pending' = [kind |-> "preview", target |-> deferred.preview]
       \/ UNCHANGED pending             \* gone, or the runtime is busy
    /\ KeepRunning
    /\ UNCHANGED <<held, rosterVars, deskVars, shelf>>

\* complete_skill_preview: only for what is still selected, and never more than
\* its details.
PreviewAnswered ==
    /\ Pending("preview")
    /\ pending' = None
    /\ LET t == pending.target
       IN \/ /\ PreviewCurrent(t, shelf, roster.tab, stopping)
             /\ shelf' = IF t.starter THEN [shelf EXCEPT !.sample = Ref(t.s, t.v)]
                         ELSE [shelf EXCEPT !.detail = Ref(t.s, t.v)]
          \/ UNCHANGED shelf            \* refused, or its target is gone
    /\ KeepRunning
    /\ UNCHANGED <<deferred, held, rosterVars, deskVars>>

-----------------------------------------------------------------------------
(* The keys. *)

OnShelf == AtTheKeyboard /\ roster.tab = "skills"
Asking == shelf.pane = "Confirmation" /\ shelf.confirmation # None
InSkillForm == shelf.pane = "Editor" /\ shelf.editor # None /\ shelf.focus = "Workspace"

\* The keys of a pane go to the list while it has the focus; its own n, e, i
\* and Esc take the starting points for a pane of their own.
ShelfInteraction ==
    IF shelf.focus = "List" /\ shelf.pane # "CreateSource" THEN "List" ELSE shelf.pane
ShelfKey(pane) ==
    /\ OnShelf /\ ~Asking /\ ~InSkillForm
    /\ ShelfInteraction = pane

\* A key that changes the tab and nothing else.
Shelve(k) ==
    /\ shelf' = k
    /\ deferred' = Looked(deferred, k, roster.tab)
    /\ KeepRunning /\ UNCHANGED <<pending, held, rosterVars, deskVars>>

\* A read that is asked for at once.  When it fails the loop ends (LoopFails).
Fetched(k) == Free /\ Shelve(k)

PickSkill(s) ==
    /\ ShelfKey("List") /\ InLibrary(shelf, s) /\ s # shelf.sel
    /\ LET k == NoContext([shelf EXCEPT !.sel = s])
       IN shelf' = k /\ deferred' = QueuePreview(deferred, k, s, FALSE, "skills")
    /\ KeepRunning /\ UNCHANGED <<pending, held, rosterVars, deskVars>>

\* An outcome of a read leaves the pane alone while work is protected.
Presented(k, pane) == [k EXCEPT !.pane = IF ProtectedSkills THEN shelf.pane ELSE pane]

OpenSkill ==
    /\ ShelfKey("List") /\ InLibrary(shelf, shelf.sel)
    /\ LET k == WithSkill([shelf EXCEPT !.focus = "Workspace"], Ref(shelf.sel, store.skills[shelf.sel]))
       IN Fetched(Presented([k EXCEPT !.made = IF @ = shelf.sel THEN None ELSE @], "Detail"))

\* A draft that is there is taken up again.
ResumeSkillDraft ==
    /\ ShelfKey("List") \/ ShelfKey("Detail")
    /\ shelf.editor # None
    /\ Shelve([shelf EXCEPT !.pane = "Editor", !.page = "home", !.focus = "Workspace"])

OpenSources ==
    /\ ShelfKey("List") \/ ShelfKey("Detail")
    /\ shelf.editor = None
    /\ Shelve([shelf EXCEPT !.pane = "CreateSource", !.source = None, !.sample = None, !.focus = "List"])

PickSource(s) ==
    /\ ShelfKey("CreateSource") /\ s # shelf.source
    /\ s # None => InLibrary(shelf, s)
    /\ LET k == [shelf EXCEPT !.source = s, !.sample = None]
       IN /\ shelf' = k
          /\ deferred' = IF s = None THEN deferred ELSE QueuePreview(deferred, k, s, TRUE, "skills")
    /\ KeepRunning /\ UNCHANGED <<pending, held, rosterVars, deskVars>>

\* A new skill starts from nothing, or from the version the library showed.
StartSkill ==
    /\ ShelfKey("CreateSource")
    /\ IF shelf.source = None
       THEN Shelve(WithForm([shelf EXCEPT !.focus = "Workspace"], K!ForCreate(FALSE)))
       ELSE LET seed == Ref(shelf.source, shelf.rows[shelf.source])
            IN Fetched(WithForm(WithSkillVersion([shelf EXCEPT !.focus = "Workspace"], seed),
                                K!ForCreate(TRUE)))

\* A slip: the key does not look for a draft that is there.
FaultyStartVersion ==
    /\ ShelfKey("List") \/ ShelfKey("Detail")
    /\ shelf.detail = Ref(shelf.sel, shelf.rows[shelf.sel]) /\ ~shelf.exact
    /\ Shelve(WithForm([shelf EXCEPT !.focus = "Workspace"],
                       K!ForVersion(shelf.detail.s, shelf.detail.v)))

\* start_version, from the details of the version the library calls active
StartVersion ==
    /\ ShelfKey("List") \/ ShelfKey("Detail")
    /\ shelf.editor = None
    /\ shelf.detail = Ref(shelf.sel, shelf.rows[shelf.sel]) /\ ~shelf.exact
    /\ Shelve(WithForm([shelf EXCEPT !.focus = "Workspace"],
                       K!ForVersion(shelf.detail.s, shelf.detail.v)))

\* Enter on the details of a skill; which of its actions is highlighted is left
\* out.
OnSkill ==
    /\ ShelfKey("Detail")
    /\ shelf.editor = None
    /\ shelf.detail # None /\ shelf.detail.s = shelf.sel

OpenSkillHistory ==
    /\ OnSkill
    /\ Fetched(Presented(WithSkillHistory(shelf, Ref(shelf.detail.s, store.skills[shelf.detail.s])), "History"))

PickSkillVersion(i) ==
    /\ ShelfKey("History") /\ shelf.history # None
    /\ i \in 0 .. shelf.history.v - 1 /\ i # shelf.past
    /\ Shelve([shelf EXCEPT !.past = i])

OpenSkillVersion ==
    /\ ShelfKey("History") /\ shelf.history # None
    /\ Fetched(Presented(WithSkillVersion(shelf, SelectedRef(shelf)), "Detail"))

\* An outcome that is under way is shown only if nobody has changed tabs since
\* it was asked for (pending_outcome_navigation).
Moved(request) ==
    IF request # None /\ request.kind = "command" THEN [request EXCEPT !.presents = FALSE] ELSE request

\* unwind_skills
UnwindShelf ==
    /\ OnShelf /\ ~Asking /\ ~InSkillForm
    /\ LET to == CASE ShelfInteraction \in {"CreateSource", "Detail"} -> "List"
                   [] ShelfInteraction = "AssignmentReview" -> "AgentPicker"
                   [] OTHER -> "Detail"
           leaves == ShelfInteraction = "List" \/ (ShelfInteraction = "Detail" /\ shelf.origin \in Profiles)
           back == shelf.origin
       IN /\ ShelfInteraction = "Result" => shelf.made = None
          /\ shelf' = IF leaves THEN [shelf EXCEPT !.origin = None]
                      ELSE [shelf EXCEPT !.pane = to,
                                         !.focus = IF ShelfInteraction = "CreateSource" THEN "List" ELSE @]
          /\ IF leaves /\ back \in Profiles
             THEN roster' = [Selected(roster, IF MaySelect(back) THEN back ELSE roster.sel)
                               EXCEPT !.tab = "agents", !.skillPanel = TRUE]
                  /\ mem' = IF MaySelect(back) /\ back # roster.sel THEN BlankMemory ELSE mem
             ELSE roster' = [roster EXCEPT !.tab = IF leaves THEN "overview" ELSE @] /\ UNCHANGED mem
          /\ pending' = Retargeted(roster', IF leaves THEN Moved(pending) ELSE pending)
          /\ deferred' = Looked(Retarget(roster', deferred), shelf', roster'.tab)
    /\ KeepRunning /\ UNCHANGED <<held, store, deskVars>>

\* cycle_focus, between the two panes
TabOnShelf ==
    /\ OnShelf
    /\ Shelve([shelf EXCEPT !.focus = IF @ = "List" THEN "Workspace" ELSE "List",
                            !.pane = IF @ = "List" /\ shelf.focus = "List" THEN "Detail" ELSE @])

-----------------------------------------------------------------------------
(* The form. *)

SkillPage(page) == OnShelf /\ InSkillForm /\ shelf.page = page
ShelveForm(e, page) == Shelve([shelf EXCEPT !.editor = e, !.page = page])

OpenSkillField(f) ==
    /\ SkillPage("home") \/ SkillPage("section")
    /\ ShelveForm(K!SelectField(shelf.editor, f), "section")

TypeSkill(says) ==
    /\ SkillPage("section")
    /\ shelf.editor.field \in K!TextFields \cap EditedSkillFields
    /\ ShelveForm(K!SetField(shelf.editor, shelf.editor.field, says), "section")

\* The notes have a page of their own.
OnNotes == SkillPage("section") /\ shelf.editor.field = "references" /\ "references" \in EditedSkillFields
OpenSkillNote(what) == OnNotes /\ ShelveForm(K!OpenNote(shelf.editor, what), "note")
WriteSkillNote == SkillPage("note") /\ ShelveForm(K!WriteNote(shelf.editor), "note")
PutSkillNote(taken) ==
    /\ SkillPage("note")
    /\ ShelveForm(IF taken THEN K!SelectField(K!PutNote(shelf.editor, TRUE), "references")
                  ELSE K!PutNote(shelf.editor, FALSE),
                  IF taken THEN "section" ELSE "note")
RemoveSkillNote ==
    /\ OnNotes /\ ~K!NotePending(shelf.editor)
    /\ ShelveForm(K!RemoveNote(shelf.editor), "section")

OpenSkillDiscard == SkillPage("home") /\ ShelveForm(shelf.editor, "discard")

-----------------------------------------------------------------------------
(* Reviews.  One is registered for the client at a time, whatever it is of. *)

\* cancel_skill_review_once, for a tab as the key left it
Cancelled(k) ==
    \/ /\ shelf' = [k EXCEPT !.registered = FALSE]
       /\ held' = IF shelf.registered THEN held \ {"skill"} ELSE held
       /\ UNCHANGED ended
    \/ /\ shelf.registered
       /\ shelf' = [k EXCEPT !.registered = FALSE]
       /\ ended' = "uncancelled" /\ UNCHANGED held

\* recover_skill_error: the review goes, the draft stays.
BackAtAgent(k) == k.from \in Profiles
Recovered(k) ==
    LET bare == [k EXCEPT !.confirmation = None]
        shown == IF k.editor # None
                 THEN [bare EXCEPT !.editor = K!NoReview(@), !.pane = "Editor"]
                 ELSE [bare EXCEPT !.pane = "Detail"]
    IN IF BackAtAgent(k) THEN [shown EXCEPT !.origin = None] ELSE shown

\* From an agent's own list of skills the operator goes back to it.
AgentTab(p) ==
    /\ roster' = [Selected(roster, IF MaySelect(p) THEN p ELSE roster.sel)
                    EXCEPT !.tab = "agents", !.skillPanel = TRUE]
    /\ mem' = IF MaySelect(p) /\ p # roster.sel THEN BlankMemory ELSE mem
Return(k) == IF BackAtAgent(k) THEN AgentTab(k.from) ELSE UNCHANGED <<roster, mem>>

Recover(k) == Cancelled(Recovered(k)) /\ Return(k) /\ UNCHANGED store

\* Esc on a page: from the review its cancellation, from the form's home the
\* details of the skill, with the draft kept.
LeaveSkillPage ==
    /\ OnShelf /\ InSkillForm
    /\ IF shelf.page = "review"
       THEN /\ Free
            /\ Cancelled([shelf EXCEPT !.page = "home", !.editor = K!NoReview(@)])
            /\ UNCHANGED <<pending, deferred, stopping, left, rosterVars, deskVars>>
       ELSE Shelve(IF shelf.page = "home" THEN [shelf EXCEPT !.pane = "Detail"]
                   ELSE IF shelf.page = "note" THEN
                       [shelf EXCEPT !.page = "section", !.editor = K!SelectField(@, "references")]
                   ELSE [shelf EXCEPT !.page = "home"])

DiscardSkill ==
    /\ SkillPage("discard")
    /\ Free
    /\ Cancelled([shelf EXCEPT !.editor = None, !.confirmation = None, !.pane = "Detail"])
    /\ deferred' = Looked(deferred, shelf', roster.tab)
    /\ UNCHANGED <<pending, stopping, left, rosterVars, deskVars>>

\* request_review: the command that was reviewed waits for a yes; without a
\* review one is asked for (execute_skill_preview).  The runtime registers what
\* it returns.
ReviewSkill ==
    /\ SkillPage("home") \/ SkillPage("review")
    /\ LET e == K!AtReview(shelf.editor)
           asked == [shelf EXCEPT !.editor = K!PreviewAsked(e), !.page = "review"]
           review == [op |-> e.mode, s |-> e.of, expected |-> e.expected, draft |-> e.draft]
           current == e.mode = "version" => store.skills[e.of] = e.expected
       IN IF ~K!MayReview(shelf.editor) THEN Shelve([shelf EXCEPT !.page = "review"])
          ELSE IF K!MayExecute(e) THEN
              Shelve([shelf EXCEPT !.editor = e, !.page = "review", !.from = "skills",
                        !.confirmation = [command |-> K!CommandOf(e), by |-> "editor"],
                        !.pane = "Confirmation"])
          ELSE /\ Free
               /\ \/ /\ current
                     /\ shelf' = [asked EXCEPT !.editor = K!Previewed(@, review), !.registered = TRUE]
                     /\ held' = held \cup {"skill"}
                     /\ UNCHANGED <<ended, roster, mem, store>>
                  \/ Recover(asked)
               /\ deferred' = Looked(Retarget(roster', deferred), shelf', roster'.tab)
               /\ UNCHANGED <<pending, stopping, left, deskVars>>

-----------------------------------------------------------------------------
(* Assignments. *)

\* AssignmentKind::classify
Classify(target, pinned) ==
    IF pinned = 0 THEN "add" ELSE IF pinned = target.v THEN "same"
    ELSE IF target.v > pinned THEN "upgrade" ELSE "reassign"

Pinned(p, s) == store.uses[p][s]

\* Load the agent, with what it uses of the skill that is selected: it is shown,
\* and what an assignment would do.
AssignTo(p) ==
    /\ \/ OnSkill
       \/ ShelfKey("AgentPicker")
    /\ shelf.origin \in Profiles => p = shelf.origin
    /\ store.version[p] > 0
    /\ SelectedRef(shelf) # None
    /\ LET target == SelectedRef(shelf)
       IN Fetched(Presented(
             [shelf EXCEPT !.agent = ServedAs(p),
                           !.assignment = [kind |-> Classify(target, Pinned(p, target.s)),
                                           pinned |-> Ref(target.s, Pinned(p, target.s)),
                                           target |-> target]],
             "AssignmentReview"))

\* The request names what is selected now and what was classified before.
Requested(k) ==
    [p |-> k.agent.p, expected |-> k.agent.v, kind |-> k.assignment.kind,
     target |-> SelectedRef(k), pinned |-> k.assignment.pinned]

\* A slip: an upgrade is not held against the version that is pinned.
FaultyMayAssign(r) ==
    /\ store.version[r.p] = r.expected
    /\ store.version[r.p] < MaxAgentVersion
    /\ r.kind = "unassign" => Pinned(r.p, r.pinned.s) = r.pinned.v

\* preview_agent_skill_assignment, ..._upgrade and ..._unassignment
MayAssign(r) ==
    /\ store.version[r.p] = r.expected
    /\ store.version[r.p] < MaxAgentVersion
    /\ CASE r.kind = "add" -> Pinned(r.p, r.target.s) = 0
         [] r.kind = "unassign" -> Pinned(r.p, r.pinned.s) = r.pinned.v
         [] OTHER -> /\ r.target.s = r.pinned.s /\ r.target.v # r.pinned.v
                     /\ Pinned(r.p, r.pinned.s) = r.pinned.v

\* install_assignment_preview
Installed(k, r) ==
    [k EXCEPT !.registered = TRUE, !.pane = "Confirmation",
              !.origin = IF BackAtAgent(k) THEN k.from ELSE @,
              !.confirmation = [command |-> [op |-> "assign", request |-> r], by |-> "assignment"]]

RequestAssignment(k, r) ==
    /\ Free
    /\ \/ /\ MayAssign(r)
          /\ shelf' = Installed(k, r)
          /\ held' = held \cup {"skill"}
          /\ roster' = [roster EXCEPT !.tab = "skills"]
          /\ UNCHANGED <<ended, mem, store>>
       \/ Recover(k)
    /\ deferred' = Looked(Retarget(roster', deferred), shelf', roster'.tab)
    /\ UNCHANGED <<pending, stopping, left, deskVars>>

ReviewAssignment ==
    /\ ShelfKey("AssignmentReview")
    /\ shelf.agent # None /\ shelf.assignment # None /\ SelectedRef(shelf) # None
    /\ shelf.assignment.kind # "same"
    /\ RequestAssignment([shelf EXCEPT !.from = IF shelf.origin \in Profiles THEN shelf.origin ELSE "skills"],
                         Requested(shelf))

\* handle_agent_skills_key, in the list of skills of the agent that is shown.
\* Its rows are those of the version that was read: of an earlier one than the
\* runtime's they may say anything.
OnAgentSkills(row) ==
    /\ AgentsKey("Detail") /\ roster.skillPanel
    /\ roster.detail # None
    /\ row.v \in 1 .. store.skills[row.s]
    /\ roster.detail = ServedAs(roster.detail.p) => row.v = Pinned(roster.detail.p, row.s)

CloseSkillPanel ==
    /\ AgentsKey("Detail") /\ roster.skillPanel
    /\ roster' = [roster EXCEPT !.skillPanel = FALSE]
    /\ UNCHANGED <<hostVars, mem, store, deskVars, shelf>>

ChangeAssigned(row, kind) ==
    /\ OnAgentSkills(row)
    /\ ~ProtectedSkills
    /\ kind = "upgrade" => shelf.rows[row.s] > row.v
    /\ RequestAssignment([shelf EXCEPT !.from = roster.detail.p],
            [p |-> roster.detail.p, expected |-> roster.detail.v, kind |-> kind, pinned |-> row,
             target |-> IF kind = "upgrade" THEN Ref(row.s, shelf.rows[row.s]) ELSE row])

ViewAssigned(row) ==
    /\ OnAgentSkills(row)
    /\ ~ProtectedSkills
    /\ Free
    /\ shelf' = [WithSkillVersion(NoContext([shelf EXCEPT !.origin = roster.detail.p]), row)
                    EXCEPT !.pane = "Detail"]
    /\ roster' = [roster EXCEPT !.tab = "skills"]
    /\ deferred' = Looked(deferred, shelf', "skills")
    /\ KeepRunning /\ UNCHANGED <<pending, held, mem, store, deskVars>>

-----------------------------------------------------------------------------
(* Confirmations. *)

SkillAsked == OnShelf /\ Asking

\* Esc: back to where the review was asked for, which is cancelled.
DeclineSkill ==
    /\ SkillAsked
    /\ Free
    /\ LET by == shelf.confirmation.by
           bare == [shelf EXCEPT !.confirmation = None]
       IN /\ Cancelled(IF by = "editor"
                       THEN [bare EXCEPT !.pane = "Editor", !.page = "review",
                                         !.editor = IF @ = None THEN None ELSE K!NoReview(@)]
                       ELSE IF BackAtAgent(shelf) THEN [bare EXCEPT !.pane = "Detail", !.origin = None]
                       ELSE [bare EXCEPT !.pane = "AssignmentReview"])
          /\ IF by = "assignment" THEN Return(shelf) ELSE UNCHANGED <<roster, mem>>
    /\ deferred' = Looked(Retarget(roster', deferred), shelf', roster'.tab)
    /\ UNCHANGED <<pending, stopping, left, store, deskVars>>

\* What the runtime checks of the command: that the review it names is the one
\* it has registered, and that what was reviewed still holds.
SkillStillHolds(c) ==
    /\ "skill" \in held
    /\ IF c.op = "assign" THEN MayAssign(c.request)
       ELSE c.review.draft = c.draft /\ (c.op = "version" => store.skills[c.s] = c.expected)

\* The skill that a command makes, or a new version of.
Makes(c, s) == IF c.op = "create" THEN store.skills[s] = 0
               ELSE s = c.s /\ store.skills[s] < MaxSkillVersion

Spent(k) ==
    [k EXCEPT !.registered = FALSE, !.confirmation = None, !.editor = None, !.assignment = None,
              !.pane = "Result"]

\* refresh_agent_skill_assignment_state: the agent has a new version.
AssignmentDone(c) ==
    LET r == c.request
        versions == [store.version EXCEPT ![r.p] = @ + 1]
        \* an assignment that is taken back and a new one both name the skill
        s == IF r.kind = "unassign" THEN r.pinned.s ELSE r.target.s
        known == Known(Relisted(roster, versions), r.p, versions)
    IN /\ store' = [store EXCEPT !.version = versions,
                                 !.uses[r.p][s] = IF r.kind = "unassign" THEN 0 ELSE r.target.v]
       /\ roster' = [known EXCEPT !.tab = "skills"]
       /\ mem' = MemoryAfter(known)
       /\ shelf' = [Spent(shelf) EXCEPT !.agent = [p |-> r.p, v |-> versions[r.p]]]

ConfirmSkill ==
    /\ SkillAsked /\ shelf.focus = "Workspace"
    /\ Free
    /\ LET c == shelf.confirmation.command
       IN \/ /\ SkillStillHolds(c)
             /\ held' = held \ {"skill"}
             /\ \/ c.op = "assign" /\ AssignmentDone(c)
                \/ /\ c.op # "assign"
                   /\ \E s \in Skills :
                         /\ Makes(c, s)
                         /\ store' = [store EXCEPT !.skills[s] = @ + 1]
                         /\ shelf' = [Spent(shelf) EXCEPT !.made = s]
                   /\ UNCHANGED <<roster, mem>>
             /\ UNCHANGED ended
          \/ UNCHANGED <<shelf, held, ended, roster, mem, store>>      \* busy: to be tried again
          \/ Recover(shelf)
    /\ deferred' = Looked(Retarget(roster', deferred), shelf', roster'.tab)
    /\ UNCHANGED <<pending, stopping, left, deskVars>>

-----------------------------------------------------------------------------
ShelfBrowsing ==
    \/ OpenSkill \/ UnwindShelf \/ TabOnShelf
    \/ \E s \in Skills : PickSkill(s)
ShelfVersions ==
    \/ OpenSkillHistory \/ OpenSkillVersion
    \/ \E i \in 0 .. MaxSkillVersion : PickSkillVersion(i)
ShelfForms ==
    \/ ResumeSkillDraft \/ OpenSources \/ StartSkill \/ StartVersion
    \/ OpenSkillDiscard \/ LeaveSkillPage \/ DiscardSkill \/ ReviewSkill
    \/ \E s \in Skills \cup {None} : PickSource(s)
    \/ \E f \in EditedSkillFields : OpenSkillField(f)
    \/ \E says \in {"old", "new", "bad"} : TypeSkill(says)
NoteForms ==
    \/ WriteSkillNote \/ RemoveSkillNote
    \/ \E what \in {"add", "edit"} : OpenSkillNote(what)
    \/ \E taken \in BOOLEAN : PutSkillNote(taken)
ShelfAssignments ==
    \/ ReviewAssignment \/ CloseSkillPanel
    \/ \E p \in Profiles : AssignTo(p)
    \/ \E s \in Skills, v \in 1 .. MaxSkillVersion :
          ViewAssigned(Ref(s, v)) \/ \E kind \in {"upgrade", "unassign"} : ChangeAssigned(Ref(s, v), kind)
ShelfConfirmations == DeclineSkill \/ ConfirmSkill
=============================================================================
