----------------------------- MODULE ProfileDesk -----------------------------
(***************************************************************************)
(* Creating and editing agents in the terminal: the form's pages in         *)
(* src/ui/tui/controller.rs and what src/ui/tui/host.rs asks of the runtime  *)
(* for them.  These requests do not go through the slot: the host asks and   *)
(* waits, which it does only while the slot is free.                        *)
(***************************************************************************)
EXTENDS MemoryDesk

CONSTANTS EditedFields, MaxAgentVersion    \* bounds

VARIABLES desk      \* the form that is open, its page, what waits for a yes, and whether
                    \* a review may have been left behind

deskVars == <<desk>>

E == INSTANCE ProfileEditor WITH Nothing <- None
ASSUME EditedFieldsAssumption == EditedFields \subseteq E!Fields

Drafts == [EditedFields -> {"old", "new", "blank"}]
AgentReviews == [of : Profiles \cup {None}, expected : Nat, draft : Drafts]
Forms ==
    [mode : {"create", "edit"}, of : Profiles \cup {None}, expected : Nat,
     step : {E!Steps[i] : i \in 1 .. 7}, second : BOOLEAN, draft : Drafts, bad : SUBSET EditedFields,
     review : AgentReviews \cup {None}, awaited : BOOLEAN]

\* An Option: no form, and no version of an agent, is None.
ASSUME NoneIsNothing == None \notin Forms /\ None \notin [p : Profiles, v : Nat]

DeskInit == desk = [editor |-> None, page |-> "home", field |-> "role", confirmation |-> None,
                  unsure |-> FALSE]

\* What has_protected_agents_workflow protects
ProtectedAgents == desk.editor # None \/ desk.confirmation # None \/ Protected(mem)

-----------------------------------------------------------------------------
(* Coming to the form. *)

\* After each of these requests the host sees to it that the details of the
\* selected agent are, or will be, there.
QueueMissingDetail(r) ==
    deferred' = IF MatchingDetail(r) THEN Retarget(r, deferred)
                ELSE [deferred EXCEPT !.profile = ReadRequest(r, "detail")]

Form(e, page) ==
    [desk EXCEPT !.editor = e, !.page = page, !.field = "role"]
Shown(r, pane, focus) == [r EXCEPT !.pane = pane, !.focus = focus]

OnList == AgentsKey("List")
OnAgent == OnList \/ OnDetail

\* A draft that is there is taken up again, whatever the key and the agent.
ResumeDraft ==
    /\ OnAgent \/ AgentsKey("History")
    /\ desk.editor # None
    /\ roster' = Shown(roster, "Editor", "Workspace")
    /\ UNCHANGED <<hostVars, mem, store, desk>>

\* start_profile_create
NewAgent ==
    /\ OnAgent
    /\ desk.editor = None
    /\ Free
    /\ desk' = Form(E!ForCreate, "templates")
    /\ roster' = Shown(roster, "Editor", "List")
    /\ QueueMissingDetail(roster)
    /\ KeepRunning /\ UNCHANGED <<pending, held, mem, store>>

\* start_selected_profile_edit; an agent whose details are not there yet is
\* read first (AwaitDetail, with another key).
EditAgent ==
    /\ OnAgent \/ AgentsKey("History")
    /\ desk.editor = None
    /\ IF MatchingDetail(roster) THEN
           /\ Free
           /\ desk' = Form(E!ForEdit(roster.detail.p, roster.detail.v), "home")
           /\ roster' = Shown(roster, "Editor", "Workspace")
           /\ KeepRunning /\ UNCHANGED <<pending, deferred>>
       ELSE ReadNow(roster, "detail") /\ UNCHANGED <<roster, desk>>
    /\ UNCHANGED <<held, mem, store>>

-----------------------------------------------------------------------------
(* In the form. *)

\* handle_profile_editor_key; the list of templates takes the keys of both
\* panes.
InForm == InFront /\ roster.pane = "Editor" /\ desk.editor # None
OnPage(page) ==
    /\ InForm
    /\ desk.page = page
    /\ page # "templates" => roster.focus = "Workspace"

ChangeForm(e, page) ==
    /\ desk' = [desk EXCEPT !.editor = e, !.page = page]
    /\ UNCHANGED <<hostVars, rosterVars>>

ChooseTemplate ==
    /\ OnPage("templates")
    /\ LET e == E!SelectTemplate(desk.editor)
       IN desk' = [desk EXCEPT !.editor = e, !.page = "home"]
    /\ roster' = [roster EXCEPT !.focus = "Workspace"]
    /\ UNCHANGED <<hostVars, mem, store>>

\* Esc: from a page to the form's home, from there to the agent.
LeavePage ==
    /\ InForm
    /\ desk.page = "templates" \/ roster.focus = "Workspace"
    /\ IF desk.page \in {"home", "templates"}
       THEN roster' = Shown(roster, "Detail", "Workspace") /\ UNCHANGED desk
       ELSE desk' = [desk EXCEPT !.page = "home"] /\ UNCHANGED roster
    /\ UNCHANGED <<hostVars, mem, store>>

\* A section opens at its first field; its fields are walked one by one.
OpenField(f) ==
    /\ OnPage("home") \/ OnPage("section")
    /\ desk' = [desk EXCEPT !.editor = E!SelectField(@, f), !.page = "section", !.field = f]
    /\ UNCHANGED <<hostVars, rosterVars>>

TypeField(says, taken) ==
    /\ OnPage("section")
    /\ desk.field \in E!TextFields \cap EditedFields
    /\ ChangeForm(E!SetField(desk.editor, desk.field, says, taken), "section")

ChooseRole(says) ==
    /\ OnPage("section")
    /\ desk.field = "role" /\ "role" \in EditedFields
    /\ ChangeForm(E!SelectRole(desk.editor, says), "section")

OpenDiscard == OnPage("home") /\ ChangeForm(desk.editor, "discard")

-----------------------------------------------------------------------------
(* Reviews. *)

\* replace_profiles: the list is read again.  Begun work on the memory of an
\* agent that changed keeps the old list.
KeepsWork(versions) ==
    Protected(mem) => mem.bound = [p |-> roster.sel, v |-> versions[roster.sel]]
Relisted(r, versions) ==
    IF ~KeepsWork(versions) THEN r
    ELSE LET listed == [r EXCEPT !.rows = versions]
         IN IF MatchingDetail(listed) THEN listed
            ELSE [listed EXCEPT !.detail = None, !.history = None, !.version = None]

\* An agent is asked for by name: it is selected, and its details are shown.
Known(r, p, versions) ==
    LET there == IF r.rows[p] > 0 /\ MaySelect(p) THEN Selected(r, p) ELSE r
        ref == [p |-> p, v |-> versions[p]]
    IN IF there.sel = p /\ MayReplace(ref) THEN WithDetail(there, ref) ELSE there

\* refresh_profile_state: the list, the agent and its history
Refreshed(p, versions) ==
    LET known == Known(Relisted(roster, versions), p, versions)
        ref == [p |-> p, v |-> versions[p]]
    IN IF known.sel = p /\ MayReplace(ref) THEN WithHistory(known, ref) ELSE known

\* What these reads leave of the memory that was open.
MemoryAfter(r) ==
    IF \/ r.sel # roster.sel
       \/ mem.bound # None /\ r.rows[mem.bound.p] # mem.bound.v
       \/ mem.bound # None /\ r.detail \notin {None, roster.detail, mem.bound}
    THEN BlankMemory ELSE mem

\* refresh_stale_profile: the agent changed under the draft.  The review is
\* cancelled, the draft dropped, and whatever can be read again is.
Outdated(p) ==
    /\ held' \in {held \ {"profile"}, held}        \* the cancellation may fail
    /\ desk' = [desk EXCEPT !.editor = None, !.confirmation = None,
                            !.unsure = "profile" \in held']      \* and the operator is told
    /\ LET listed == Relisted(roster, store.version)
       IN \E r \in {roster, listed} : \E after \in {r, Known(r, p, store.version)} :
             /\ roster' = Shown(after, "Detail", roster.focus)
             /\ mem' = MemoryAfter(after)
             /\ QueueMissingDetail(after)

\* StartProfileEditBySelector: the command line names the agent.
EditNamedAgent(p) ==
    /\ InFront /\ ~ProtectedAgents
    /\ Free
    /\ store.version[p] > 0
    /\ LET known == Known(roster, p, store.version)
       IN \/ /\ known.detail # None
             /\ desk' = Form(E!ForEdit(known.detail.p, known.detail.v), "home")
             /\ roster' = Shown(known, "Editor", "Workspace")
             /\ mem' = MemoryAfter(known)
             /\ QueueMissingDetail(known)
          \/ /\ roster' = Shown(roster, "List", "Workspace")        \* refused
             /\ QueueMissingDetail(roster)
             /\ UNCHANGED <<desk, mem>>
    /\ KeepRunning /\ UNCHANGED <<pending, held, store>>

\* execute_preview.  The runtime registers the review it returns.
Preview(e) ==
    /\ Free
    /\ LET asked == E!PreviewAsked(e)
           review == [of |-> e.of, expected |-> e.expected, draft |-> e.draft]
       IN IF store.version[e.of] # e.expected THEN Outdated(e.of)
          ELSE /\ \/ /\ desk' = [desk EXCEPT !.editor = E!ApplyPreview(asked, review), !.page = "review",
                                             !.unsure = FALSE]
                     /\ held' = held \cup {"profile"}
                  \/ /\ desk' = [desk EXCEPT !.editor = asked, !.page = "review"]   \* refused
                     /\ UNCHANGED held
               /\ QueueMissingDetail(roster)
               /\ UNCHANGED <<roster, mem>>
    /\ KeepRunning /\ UNCHANGED <<pending, store>>

\* The page of the review asks for one as it opens.
OpenReview ==
    /\ OnPage("home")
    /\ LET e == E!SelectReview(desk.editor)
       IN IF E!AsksForPreview(e) THEN Preview(e) ELSE ChangeForm(e, "review")

\* Enter on the page: the command, or first a review.
AskAgain ==
    /\ OnPage("review")
    /\ E!AsksForPreview(desk.editor) /\ desk.editor.review = None
    /\ Preview(desk.editor)

Propose ==
    /\ OnPage("review")
    /\ E!MayCreate(desk.editor) \/ E!MayActivate(desk.editor)
    /\ desk' = [desk EXCEPT !.confirmation = E!CommandOf(desk.editor)]
    /\ roster' = [roster EXCEPT !.pane = "Confirmation"]
    /\ UNCHANGED <<hostVars, mem, store>>

\* :cancel, the review with it.  When the runtime cannot be told, the loop ends.
Discard ==
    /\ OnPage("discard")
    /\ Free
    /\ desk' = [desk EXCEPT !.editor = None]
    /\ roster' = [roster EXCEPT !.pane = "Detail"]
    /\ \/ held' = held \ {"profile"} /\ QueueMissingDetail(roster) /\ UNCHANGED ended
       \/ ended' = "uncancelled" /\ UNCHANGED <<held, deferred>>
    /\ UNCHANGED <<pending, stopping, left, mem, store>>

-----------------------------------------------------------------------------
(* Confirmations. *)

Asked == InFront /\ roster.pane = "Confirmation" /\ desk.confirmation # None

DeclineCommand ==
    /\ Asked
    /\ desk' = [desk EXCEPT !.confirmation = None]
    /\ roster' = [roster EXCEPT !.pane = "Editor"]
    /\ UNCHANGED <<hostVars, mem, store>>

\* The runtime makes the agent, or the new version of it.
Made(c, p) ==
    /\ store' = [store EXCEPT !.version[p] = @ + 1]
    /\ held' = IF c.mode = "edit" THEN held \ {"profile"} ELSE held
    /\ \/ /\ LET shown == Refreshed(p, [store.version EXCEPT ![p] = @ + 1])
             IN /\ roster' = Shown(shown, "Detail", roster.focus)
                /\ mem' = MemoryAfter(shown)
                /\ QueueMissingDetail(shown)
          /\ desk' = [desk EXCEPT !.editor = None, !.confirmation = None]
          /\ UNCHANGED ended
       \/ /\ ended' = "failed"          \* what was made could not be shown
          /\ UNCHANGED <<roster, mem, desk, deferred>>

\* execute_profile_command
ConfirmCommand ==
    /\ Asked
    /\ Free
    /\ LET c == desk.confirmation
       IN \/ /\ c.mode = "create"
             /\ \E p \in Profiles : store.version[p] = 0 /\ Made(c, p)
          \/ /\ c.mode = "edit"
             /\ store.version[c.of] = c.expected
             /\ c.expected < MaxAgentVersion
             /\ "profile" \in held
             /\ Made(c, c.of)
          \/ /\ c.mode = "edit"
             /\ store.version[c.of] # c.expected
             /\ Outdated(c.of)
             /\ UNCHANGED <<store, ended>>
          \/ \* refused: the command is still there, its review may be spent
             /\ held' \in {held, IF c.mode = "edit" THEN held \ {"profile"} ELSE held}
             /\ QueueMissingDetail(roster)
             /\ UNCHANGED <<store, ended, roster, mem, desk>>
    /\ UNCHANGED <<pending, stopping, left>>

-----------------------------------------------------------------------------
DeskForms ==
    \/ ResumeDraft \/ EditAgent \/ LeavePage \/ OpenDiscard \/ Discard
    \/ OpenReview \/ AskAgain \/ Propose \/ DeclineCommand \/ ConfirmCommand
DeskTyping ==
    \/ NewAgent \/ ChooseTemplate
    \/ \E p \in Profiles : EditNamedAgent(p)
    \/ \E f \in EditedFields : OpenField(f)
    \/ \E says \in {"old", "new"} : ChooseRole(says) \/ \E taken \in BOOLEAN : TypeField(says, taken)
=============================================================================
