-------------------------------- MODULE Line --------------------------------
(***************************************************************************)
(* The line interface, src/ui/command/runner.rs: FallbackHost serves one    *)
(* line after the other on one thread and waits for the runtime's answer to *)
(* each, while another thread reads (LineInput).  A line is a command, or,  *)
(* inside a workflow, an entry, a control such as :back, or a confirmation. *)
(*                                                                         *)
(* At most one of the three workflows is under way: another can be begun    *)
(* only by a command, and while one is under way no line is a command.  So   *)
(* their three places are one variable, `flow'.  The flag of a registered    *)
(* memory review is apart from it, as in the code.                          *)
(*                                                                         *)
(* Writing may fail at any line.  A workflow is taken out of its place while *)
(* its line is served, so what a failure leaves behind may be a workflow or  *)
(* nothing.                                                                *)
(***************************************************************************)
EXTENDS LineInput
LOCAL INSTANCE FiniteSetsExt

CONSTANTS
    Keys,           \* the keys of the agent's memory
    EditedFields,   \* bound: the fields of an agent that are changed
    MaxVersion,     \* bound: the versions that are written of anything
    Suggested,      \* whether there is a suggestion to begin with
    Sessions        \* bound: what the sessions are, each on its platform

E == INSTANCE ProfileEditor WITH Nothing <- None

ASSUME LineAssumption ==
    /\ EditedFields \subseteq E!Fields /\ MaxVersion \in Nat \ {0} /\ Suggested \in BOOLEAN
    /\ Sessions \subseteq [flows : SUBSET {"memory", "skill", "profile"}, ahead : 1 .. MaxWaiting,
                        on : {"unix", "windows"}]

\* What is under way: of MemoryWorkflow, SkillWorkflow and ProfileWorkflow.
Notes == [v : Nat, live : BOOLEAN]
MemoryDrafts ==
    [key : Keys, step : {"Key", "Value", "PurposeTags"}, same : BOOLEAN, seed : Nat]
MemoryReviews ==
    [op : {"set", "delete", "approve", "reject"}, key : Keys, expect : Notes, same : BOOLEAN]
MemoryFlows ==
    [kind : {"memory"}, editor : MemoryDrafts \cup {None}, review : MemoryReviews \cup {None},
     asked : BOOLEAN]

Says == {"this", "that"}
SkillCommands ==
    [op : {"create"}, draft : Says] \cup [op : {"unassign"}, expect : Nat]
      \cup [op : {"assign"}, target : Nat] \cup [op : {"upgrade"}, expect : Nat, target : Nat]
SkillFlows ==
    [kind : {"skill"}, draft : Says \cup {"empty", "none"}, command : SkillCommands \cup {None}]

Drafts == [EditedFields -> {"old", "new", "blank"}]
AgentReviews == [of : {"agent", None}, expected : Nat, draft : Drafts]
Forms ==
    [mode : {"create", "edit"}, of : {"agent", None}, expected : Nat,
     step : {E!Steps[i] : i \in 1 .. 7}, second : BOOLEAN, draft : Drafts, bad : SUBSET EditedFields,
     review : AgentReviews \cup {None}, awaited : BOOLEAN]
AgentCommands ==
    [mode : {"create", "edit"}, of : {"agent", None}, expected : Nat, draft : Drafts,
     review : AgentReviews \cup {None}]
ProfileFlows ==
    [kind : {"profile"}, at : {"templates", "editing", "confirming"}, editor : Forms \cup {None},
     command : AgentCommands \cup {None}]

\* An Option: nothing that may be there is None.
ASSUME NoneIsNothing ==
    None \notin MemoryFlows \cup MemoryDrafts \cup MemoryReviews \cup SkillFlows \cup SkillCommands
              \cup ProfileFlows \cup Forms \cup AgentReviews \cup AgentCommands

VARIABLES
    session,        \* bound: the workflows that are begun, and the lines typed ahead
    flow,           \* profile_workflow, skill_workflow or memory_workflow, or None
    registered,     \* memory_review_registered
    held,           \* the kinds of review that the runtime has registered for this client
    store,          \* what the runtime has stored
    host            \* how the loop ended, and what came after it

lineVars == <<session, flow, registered, held, store, host>>
vars == <<inputVars, lineVars>>

Init ==
    /\ InputInit
    /\ session \in Sessions /\ platform = session.on
    /\ flow = None
    /\ registered = FALSE
    /\ held = {}
    /\ store = [notes |-> [k \in Keys |-> [v |-> 0, live |-> FALSE]],
                sug |-> IF Suggested THEN "pending" ELSE "none",
                agent |-> 1, skill |-> 1, pinned |-> 0]
    /\ host = [at |-> "loop", body |-> "serving", unsure |-> FALSE, sloppy |-> FALSE, returned |-> None]

-----------------------------------------------------------------------------
(* A line is served. *)

Serving == host.at = "loop"
\* select_biased: an interrupt goes before a line.
ALine == Serving /\ interrupts = 0 /\ channel = <<"line">>

KeepThreads == UNCHANGED <<session, platform, input, reader, interrupts, cancelled, canceller, joined>>

Leave(why) ==
    /\ host' = [host EXCEPT !.at = "left", !.body = why]
    /\ listening' = FALSE
    /\ channel' = <<>>

\* What a line leaves behind, when it can be told to the operator.
Goes(f, reg, reviews) ==
    /\ registered' = reg
    /\ held' = reviews
    /\ \/ flow' = f /\ channel' = <<>> /\ UNCHANGED <<listening, host>>
       \/ flow' \in {f, None} /\ Leave("failed")
    /\ KeepThreads

\* The loop returns an error, with the workflow taken out.
Breaks(why, reg, reviews) ==
    /\ flow' = None /\ registered' = reg /\ held' = reviews
    /\ Leave(why)
    /\ KeepThreads

Begins(kind) == flow = None /\ kind \in session.flows

\* A command that says nothing of a workflow, an entry that is no good, another
\* phrase than the one to confirm with: whatever comes of it, all stays.
Ineffective ==
    /\ ALine
    /\ Goes(flow, registered, held) \/ Breaks("failed", registered, held)
    /\ UNCHANGED store

\* execute_command of RequestShutdown, with nothing under way: the runtime may be
\* busy, and then the loop goes on.
Shutdown(reviews) ==
    /\ registered' = FALSE /\ held' = reviews /\ flow' = None
    /\ \/ Leave("quit") \/ Leave("failed")
       \/ channel' = <<>> /\ UNCHANGED <<listening, host>>
    /\ KeepThreads

-----------------------------------------------------------------------------
(* Memory. *)

InMemory == flow # None /\ flow.kind = "memory"
Editing == InMemory /\ flow.review = None

Note(k) == store.notes[k]
MemoryEditor(k, step, seed) == [key |-> k, step |-> step, same |-> FALSE, seed |-> seed]
MemoryFlow(editor, review, asked) ==
    [kind |-> "memory", editor |-> editor, review |-> review, asked |-> asked]

\* start_memory_set: with the note that is there, or with its key alone.
StartSet(k) ==
    /\ ALine /\ Begins("memory")
    /\ LET e == IF Note(k).live THEN [MemoryEditor(k, "Value", Note(k).v) EXCEPT !.same = TRUE]
                ELSE MemoryEditor(k, "Value", 0)
       IN \/ Goes(MemoryFlow(e, None, FALSE), registered, held)
          \/ Goes(None, registered, held)                           \* refused
    /\ UNCHANGED store

\* submit_line of the memory editor, up to the tags
NameDraft(k) ==
    /\ ALine /\ Editing /\ flow.editor.step = "Key"
    /\ Goes([flow EXCEPT !.editor.key = k, !.editor.step = "Value"], registered, held)
    /\ UNCHANGED store
WriteDraft(same) ==
    /\ ALine /\ Editing /\ flow.editor.step = "Value"
    /\ Goes([flow EXCEPT !.editor.same = same, !.editor.step = "PurposeTags"], registered, held)
    /\ UNCHANGED store

\* :back while editing; the first step of a draft leaves it.
BackInDraft ==
    /\ ALine /\ Editing
    /\ LET e == flow.editor
       IN Goes(IF e.step = "Key" \/ (e.step = "Value" /\ e.seed # 0) THEN None
               ELSE [flow EXCEPT !.editor.step = IF e.step = "Value" THEN "Key" ELSE "Value"],
               registered, held)
    /\ UNCHANGED store

\* :cancel while editing: there is no review to cancel.
CancelDraft == ALine /\ Editing /\ Goes(None, registered, held) /\ UNCHANGED store

Review(op, k) == [op |-> op, key |-> k, expect |-> Note(k), same |-> FALSE]

\* memory_set_review_matches_request, in what the store can answer: a draft that
\* began with a note is for that note, and one that did not is for a key
\* without one.
Matches(e) == IF e.seed # 0 THEN Note(e.key) = [v |-> e.seed, live |-> TRUE] ELSE ~Note(e.key).live

\* The tags end the draft: the runtime compares it with what is there, and
\* registers a review of it.  An answer that does not fit the draft ends the
\* session; what was registered for it is cancelled, if it can be.
SubmitTags ==
    /\ ALine /\ Editing /\ flow.editor.step = "PurposeTags"
    /\ LET e == flow.editor
           identical == Note(e.key).live /\ e.same
       IN \/ identical /\ Matches(e) /\ Goes(flow, registered, held)
          \/ identical /\ ~Matches(e) /\ Breaks("misfit", registered, held)
          \/ ~identical /\ Matches(e) /\ ~registered
             /\ Goes(MemoryFlow(e, [Review("set", e.key) EXCEPT !.same = e.same], FALSE), TRUE,
                     held \cup {"memory"})
          \/ ~identical /\ ~Matches(e)
             /\ \E reviews \in {held, held \cup {"memory"}} : Breaks("misfit", registered, reviews)
          \/ Goes(flow, registered, held)                           \* refused
    /\ UNCHANGED store

\* start_memory_delete
StartDelete(k) ==
    /\ ALine /\ Begins("memory")
    /\ \/ /\ Note(k).live /\ ~registered
          /\ Goes(MemoryFlow(None, Review("delete", k), FALSE), TRUE, held \cup {"memory"})
       \/ Goes(None, registered, held)                              \* nothing there, or refused
    /\ UNCHANGED store

\* start_memory_resolution.  A suggestion that is settled already ends the
\* session, which tests/memory_fallback_contract.rs asks for.
StartResolution(op) ==
    /\ ALine /\ Begins("memory") /\ store.sug # "none"
    /\ \E k \in Keys :
          \/ /\ store.sug = "pending" /\ ~registered
             /\ Goes(MemoryFlow(None, Review(op, k), FALSE), TRUE, held \cup {"memory"})
          \/ store.sug # "pending" /\ Breaks("failed", registered, held)
          \/ Goes(None, registered, held)                           \* refused
    /\ UNCHANGED store

\* A slip: the flag outlives the review.
FaultyDropReview(f) ==
    /\ registered
    /\ \/ Goes(f, TRUE, held \ {"memory"})
       \/ Breaks("failed", FALSE, held)

\* cancel_registered_memory_review: the flag is taken before the runtime is told;
\* when it cannot be told the session ends.
DropReview(f) ==
    \/ Goes(f, FALSE, IF registered THEN held \ {"memory"} ELSE held)
    \/ registered /\ Breaks("failed", FALSE, held)

InReview == InMemory /\ flow.review # None

CancelReview == ALine /\ InReview /\ DropReview(None) /\ UNCHANGED store

\* :back is for the review of a draft, until it was confirmed once.
BackToDraft ==
    /\ ALine /\ InReview /\ flow.review.op = "set" /\ ~flow.asked
    /\ DropReview(MemoryFlow([flow.editor EXCEPT !.step = "PurposeTags"], None, FALSE))
    /\ UNCHANGED store

\* What the runtime does with a confirmed review.
StillHolds(r) ==
    /\ "memory" \in held
    /\ IF r.op \in {"set", "delete"} THEN Note(r.key) = r.expect ELSE store.sug = "pending"
    /\ r.op # "reject" => MapThenSumSet(LAMBDA k : Note(k).v, Keys) < MaxVersion
CarriedOut(r) ==
    LET written == [store.notes EXCEPT ![r.key] = [v |-> @.v + 1, live |-> r.op # "delete"]]
    IN CASE r.op = "approve" -> [store EXCEPT !.notes = written, !.sug = "accepted"]
         [] r.op = "reject" -> [store EXCEPT !.sug = "rejected"]
         [] OTHER -> [store EXCEPT !.notes = written]

\* process_memory_confirmation: the exact phrase sends the command.  A failure
\* that may pass keeps the command and its review; any other gives both up.
ConfirmReview ==
    /\ ALine /\ InReview
    /\ \/ /\ StillHolds(flow.review)
          /\ store' = CarriedOut(flow.review)
          /\ Goes(None, FALSE, held \ {"memory"})
       \/ Goes([flow EXCEPT !.asked = TRUE], registered, held) /\ UNCHANGED store
       \/ DropReview(None) /\ UNCHANGED store

\* /quit, before anything else is made of the line
QuitMemory ==
    /\ ALine /\ InMemory
    /\ \/ Shutdown(IF registered THEN held \ {"memory"} ELSE held)
       \/ registered /\ Breaks("failed", FALSE, held)
    /\ UNCHANGED store

MemoryLines ==
    \/ \E k \in Keys : StartSet(k) \/ NameDraft(k) \/ StartDelete(k)
    \/ \E same \in BOOLEAN : WriteDraft(same)
    \/ \E op \in {"approve", "reject"} : StartResolution(op)
    \/ BackInDraft \/ CancelDraft \/ SubmitTags
    \/ CancelReview \/ BackToDraft \/ ConfirmReview \/ QuitMemory

-----------------------------------------------------------------------------
(* Skills. *)

InSkill == flow # None /\ flow.kind = "skill"
DraftingSkill == InSkill /\ flow.command = None
AskingSkill == InSkill /\ flow.command # None

\* A draft says nothing yet, or one thing or another that a skill may say.
SkillFlow(draft, command) == [kind |-> "skill", draft |-> draft, command |-> command]

StartSkill ==
    ALine /\ Begins("skill") /\ Goes(SkillFlow("empty", None), registered, held) /\ UNCHANGED store
WriteSkill(says) ==
    /\ ALine /\ DraftingSkill
    /\ Goes([flow EXCEPT !.draft = says], registered, held)
    /\ UNCHANGED store

\* :review
ReviewSkill ==
    /\ ALine /\ DraftingSkill
    /\ \/ /\ flow.draft # "empty"
          /\ Goes([flow EXCEPT !.command = [op |-> "create", draft |-> flow.draft]],
                  registered, held \cup {"skill"})
       \/ Goes(flow, registered, held)                              \* no good, or refused
    /\ UNCHANGED store

\* start_skill_assignment and start_skill_unassignment: what is asked for depends
\* on what the agent uses as it is read.
Request(target) ==
    IF target = 0 THEN [op |-> "unassign", expect |-> store.pinned]
    ELSE IF store.pinned = 0 THEN [op |-> "assign", target |-> target]
    ELSE [op |-> "upgrade", expect |-> store.pinned, target |-> target]
StartAssignment(target) ==
    /\ ALine /\ Begins("skill")
    /\ \/ /\ target # store.pinned /\ target <= store.skill
          /\ Goes(SkillFlow("none", Request(target)), registered, held \cup {"skill"})
       \/ Goes(None, registered, held)                              \* nothing to do, or refused
    /\ UNCHANGED store

\* :cancel; the workflow is gone, also when the runtime cannot be told.
CancelSkill ==
    /\ ALine /\ InSkill
    /\ Goes(None, registered, held \ {"skill"}) \/ Breaks("failed", registered, held)
    /\ UNCHANGED store

SkillDone(c) ==
    CASE c.op = "create" -> [store EXCEPT !.skill = @ + 1]
      [] c.op = "unassign" -> [store EXCEPT !.pinned = 0]
      [] OTHER -> [store EXCEPT !.pinned = c.target]

\* execute_skill_confirmation: a busy runtime keeps the command; a refusal goes
\* back to the draft, or gives an assignment up, and tries to have the review
\* cancelled.
ConfirmSkill ==
    /\ ALine /\ AskingSkill
    /\ LET c == flow.command
           back == IF c.op = "create" THEN SkillFlow(flow.draft, None) ELSE None
       IN \/ /\ "skill" \in held
             /\ c.op = "create" => store.skill < MaxVersion
             /\ store' = SkillDone(c)
             /\ Goes(None, registered, held \ {"skill"})
          \/ Goes(flow, registered, held) /\ UNCHANGED store
          \/ Goes(back, registered, held \ {"skill"}) /\ UNCHANGED store
          \/ c.op = "create" /\ Goes(back, registered, held) /\ UNCHANGED store
          \/ \* the cancellation failed too, and the operator is told
             /\ c.op # "create"
             /\ flow' = None /\ host' = [host EXCEPT !.unsure = TRUE] /\ channel' = <<>>
             /\ UNCHANGED <<registered, held, store, listening>> /\ KeepThreads
          \/ Breaks("failed", registered, held) /\ UNCHANGED store

QuitSkill ==
    /\ ALine /\ InSkill
    /\ Shutdown(held \ {"skill"}) \/ Breaks("failed", registered, held)
    /\ UNCHANGED store

SkillLines ==
    \/ StartSkill \/ ReviewSkill \/ CancelSkill \/ ConfirmSkill \/ QuitSkill
    \/ \E says \in {"this", "that"} : WriteSkill(says)
    \/ \E target \in 0 .. MaxVersion : StartAssignment(target)

-----------------------------------------------------------------------------
(* Agents.  Here /quit is an entry like any other. *)

InProfile == flow # None /\ flow.kind = "profile"
At(step) == InProfile /\ flow.at = step

ProfileFlow(at, editor, command) == [kind |-> "profile", at |-> at, editor |-> editor, command |-> command]
Form(e) == ProfileFlow("editing", e, None)

StartProfile ==
    /\ ALine /\ Begins("profile")
    /\ \/ Goes(ProfileFlow("templates", None, None), registered, held)
       \/ Goes(Form(E!ForCreate), registered, held)
       \/ Goes(Form(E!ForEdit("agent", store.agent)), registered, held)
       \/ Goes(None, registered, held)                              \* refused
    /\ UNCHANGED store
ChooseTemplate ==
    ALine /\ At("templates") /\ Goes(Form(E!ForCreate), registered, held) /\ UNCHANGED store

Edited(e) == ALine /\ At("editing") /\ Goes(Form(e), registered, held) /\ UNCHANGED store
TypeInForm ==
    \/ \E says \in {"old", "new"} :
          Edited(E!SubmitText(flow.editor, says)) \/ Edited(E!ChangeTags(flow.editor, says))
          \/ Edited(E!SetRole(flow.editor, says))
    \/ Edited(E!ClearCurrent(flow.editor))
WalkForm == Edited(E!Forward(flow.editor)) \/ Edited(E!Backward(flow.editor))

\* :review of an edit
ReviewAgent ==
    /\ ALine /\ At("editing") /\ E!AsksForPreview(flow.editor)
    /\ LET asked == E!PreviewAsked(flow.editor)
           review == [of |-> asked.of, expected |-> asked.expected, draft |-> asked.draft]
       IN \/ /\ asked.expected = store.agent
             /\ Goes(Form(E!ApplyPreview(asked, review)), registered, held \cup {"profile"})
          \/ Goes(Form(asked), registered, held)                    \* refused
    /\ UNCHANGED store

\* :create and :activate
ProposeAgent ==
    /\ ALine /\ At("editing") /\ (E!MayCreate(flow.editor) \/ E!MayActivate(flow.editor))
    /\ Goes(ProfileFlow("confirming", flow.editor, E!CommandOf(flow.editor)), registered, held)
    /\ UNCHANGED store
DeclineAgent == ALine /\ At("confirming") /\ Goes(Form(flow.editor), registered, held) /\ UNCHANGED store

\* :cancel, at any place of the workflow
CancelAgent ==
    /\ ALine /\ InProfile
    /\ Goes(None, registered, held \ {"profile"}) \/ Breaks("failed", registered, held)
    /\ UNCHANGED store

\* execute_profile_confirmation: a busy runtime and a refusal keep the form and
\* its command, whether or not the runtime still has the review; with any other
\* failure an edit is given up.
ConfirmAgent ==
    /\ ALine /\ At("confirming")
    /\ LET c == flow.command
           edit == c.mode = "edit"
           spent == IF edit THEN held \ {"profile"} ELSE held
       IN \/ /\ edit => "profile" \in held /\ c.expected = store.agent /\ store.agent < MaxVersion
             /\ store' = IF edit THEN [store EXCEPT !.agent = @ + 1] ELSE store
             /\ Goes(None, registered, spent)
          \/ \E reviews \in {held, spent} : Goes(flow, registered, reviews) /\ UNCHANGED store
          \/ \E reviews \in {held, spent} : Breaks("failed", registered, reviews) /\ UNCHANGED store

ProfileLines ==
    \/ StartProfile \/ ChooseTemplate \/ TypeInForm \/ WalkForm
    \/ ReviewAgent \/ ProposeAgent \/ DeclineAgent \/ CancelAgent \/ ConfirmAgent

\* /quit with no workflow under way
QuitCommand == ALine /\ flow = None /\ Shutdown(held) /\ UNCHANGED store

-----------------------------------------------------------------------------
(* The loop ends, and what comes after it. *)

Known ==
    (IF registered THEN {"memory"} ELSE {})
    \cup (IF InSkill THEN {"skill"} ELSE {})
    \cup (IF InProfile THEN {"profile"} ELSE {})

\* cancel_workflows: memory, then agents, then skills; the first failure ends it.
\* Only one of them has anything to cancel.
CancelWorkflows(failed) ==
    /\ flow' = None /\ registered' = FALSE
    /\ held' = IF failed THEN held ELSE held \ Known
    /\ failed => Known # {}

\* The end is announced, and that may fail too.
Interrupted ==
    /\ Serving /\ interrupts = 1
    /\ interrupts' = 0
    /\ \/ CancelWorkflows(FALSE) /\ \E why \in {"interrupted", "failed"} : Leave(why)
       \/ CancelWorkflows(TRUE) /\ Leave("failed")
    /\ UNCHANGED <<session, platform, input, reader, cancelled, canceller, joined, store>>

InputEnds ==
    /\ Serving /\ interrupts = 0 /\ channel = <<"eof">>
    /\ \E failed \in BOOLEAN : CancelWorkflows(failed) /\ Leave(IF failed THEN "failed" ELSE "closed")
    /\ KeepThreads /\ UNCHANGED store

\* The input failed, or its thread is gone without a word.
InputFailed ==
    /\ Serving /\ interrupts = 0
    /\ channel \in {<<"error">>, <<"cancelled">>} \/ (channel = <<>> /\ reader.at = "gone")
    /\ Leave("failed")
    /\ KeepThreads /\ UNCHANGED <<flow, registered, held, store>>

CleanUp ==
    /\ host.at = "left"
    /\ \E failed \in BOOLEAN :
          /\ CancelWorkflows(failed)
          /\ host' = [host EXCEPT !.at = "cleaned", !.sloppy = failed]
    /\ UNCHANGED <<session, inputVars, store>>

TakeReaderDown == host.at = "cleaned" /\ (Cancel \/ CancelPendingRead \/ Join) /\ UNCHANGED lineVars

\* What is returned is the loop's error, or that of the reader, or one of the
\* cleanup, or one of the runtime's end, which is told how the loop ended in any
\* case.  The runtime drops all reviews as it ends.
Finish ==
    /\ host.at = "cleaned" /\ joined # None
    /\ \E ends \in BOOLEAN :
          /\ held' = IF ends THEN {} ELSE held
          /\ host' = [host EXCEPT !.at = "finished",
                        !.returned = IF \/ host.body \in {"failed", "misfit"}
                                        \/ joined = "panicked" \/ canceller.error
                                        \/ host.sloppy \/ ~ends
                                     THEN "error" ELSE host.body]
    /\ UNCHANGED <<session, inputVars, flow, registered, store>>

-----------------------------------------------------------------------------
HostSteps ==
    \/ Ineffective \/ MemoryLines \/ SkillLines \/ ProfileLines \/ QuitCommand
    \/ Interrupted \/ InputEnds \/ InputFailed
    \/ CleanUp \/ TakeReaderDown \/ Finish

Typed == Type /\ input.waiting < session.ahead
Outside ==
    /\ Typed \/ CloseInput \/ ((Signal \/ InputFails \/ ReaderPanics) /\ Serving)
    /\ host.at # "finished"
    /\ UNCHANGED lineVars

Done == host.at = "finished" /\ UNCHANGED vars

Next == HostSteps \/ (ReaderSteps /\ UNCHANGED lineVars) \/ Outside \/ Done

\* The host serves what there is to serve, and the runtime answers it (Runtime);
\* the reader reads what there is to read; the system breaks a read off in the end.
Fairness ==
    /\ WF_vars(HostSteps)
    /\ WF_vars(TakeReaderDown)
    /\ WF_vars(ReaderSteps /\ UNCHANGED lineVars)

Spec == Init /\ [][Next]_vars /\ Fairness

-----------------------------------------------------------------------------
(* Properties. *)

\* The interface and the runtime agree on what is registered, between any two
\* lines and after every refusal, retry and failed cancellation: a memory or skill
\* command that waits for its phrase still has its review, and no review is
\* registered that the next cancellation would not name, unless the operator was
\* told that one could not be cancelled.
ReviewsAgree ==
    Serving =>
        /\ registered <=> InReview
        /\ registered <=> "memory" \in held
        /\ AskingSkill => "skill" \in held
        /\ held \subseteq Known \cup (IF host.unsure THEN {"skill"} ELSE {})

\* The phrase that activates a new version of an agent names the review of what the
\* form says, however the form was walked and changed after the review was shown.
PhraseNamesTheForm ==
    InProfile /\ flow.editor # None =>
        /\ flow.editor.review # None => flow.editor.review.draft = flow.editor.draft
        /\ flow.command # None /\ flow.command.mode = "edit" =>
              flow.command.review.draft = flow.editor.draft

\* Once the loop has ended, for whatever reason and wherever the reader was caught,
\* the reader is joined and the runtime finished.
HostReturns == host.at # "loop" ~> host.at = "finished"

=============================================================================
