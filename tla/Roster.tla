------------------------------- MODULE Roster -------------------------------
(***************************************************************************)
(* The terminal's list of agents and what it shows of the selected one:    *)
(* AgentsViewState in src/ui/tui/model.rs, handle_agents_key in             *)
(* src/ui/tui/controller.rs, and the reads the host starts for them.  A     *)
(* read names its target: the agent, the version its row showed, and the    *)
(* generation of the selection.                                            *)
(***************************************************************************)
EXTENDS MemoryView

CONSTANTS FirstAgent    \* the agent that is selected to begin with
ASSUME FirstAgentAssumption == FirstAgent \in Profiles

VARIABLES
    roster,     \* the list, the selection and what is loaded of it
    mem,        \* the memory desk, which lives in the same part of the model
    store       \* what the runtime has recorded

rosterVars == <<roster, mem, store>>

RosterInit(versions) ==
    roster = [tab |-> "agents", focus |-> "List", pane |-> "List", sel |-> FirstAgent,
              rows |-> versions, detail |-> None, history |-> None, version |-> None,
              past |-> 0, skillPanel |-> FALSE]

-----------------------------------------------------------------------------
\* profile_target, but for the generation
Target(r) == [p |-> r.sel, v |-> r.rows[r.sel]]
MatchingDetail(r) == r.detail = Target(r)

\* The keys go to the list while the list has the focus.
InteractionPane == IF roster.focus = "List" THEN "List" ELSE roster.pane

\* A new selection_generation: no read that is under way is for the target now.
StaleTarget(request) ==
    IF request # None /\ request.kind = "profile" THEN [request EXCEPT !.fresh = FALSE] ELSE request

\* A slip: only the keys of the list begin a new generation.
FaultyRetargeted(r, request) ==
    IF InteractionPane = "List" /\ r.sel # roster.sel THEN StaleTarget(request) ELSE request

\* select_profile_index and replace_profiles: another target is a new generation.
Retargeted(r, request) == IF Target(r) = Target(roster) THEN request ELSE StaleTarget(request)
Retarget(r, queue) == [queue EXCEPT !.profile = Retargeted(r, @)]

\* select_profile_index: begun work on the memory of the selected agent keeps
\* the selection where it is.
MaySelect(q) == q = roster.sel \/ ~Protected(mem)
Selected(r, q) ==
    IF q = r.sel THEN r
    ELSE LET moved == [r EXCEPT !.sel = q, !.history = None,
                                !.version = None, !.skillPanel = FALSE,
                                !.pane = IF @ = "History" THEN "Detail" ELSE @]
         IN [moved EXCEPT !.detail = IF MatchingDetail(moved) THEN @ ELSE None]

-----------------------------------------------------------------------------
\* apply_effect of LoadSelectedAgentProfile for the present target, from the
\* slot and the queue as the event left them.  A read behind another request
\* replaces the read that was waiting.
ReadRequest(r, read) ==
    [kind |-> "profile", p |-> r.sel, v |-> r.rows[r.sel], read |-> read, fresh |-> TRUE,
     past |-> IF read = "version" THEN r.history.v - r.past ELSE 0]

Read(r, read, slot, queue) ==
    /\ KeepRunning
    /\ LET request == ReadRequest(r, read)
       IN CASE slot # None ->
              /\ deferred' = IF slot = request THEN queue ELSE [queue EXCEPT !.profile = request]
              /\ pending' = slot
         [] slot = None /\ stopping -> pending' = slot /\ deferred' = queue
         [] OTHER -> pending' = request /\ deferred' = queue

ReadNow(r, read) == Read(r, read, pending, deferred)

\* The deferred read runs when the slot is free and nothing that goes before it
\* waits; by then its target may be gone.
RunDeferredProfile ==
    /\ Running /\ Free
    /\ ~deferred.quit /\ deferred.nav = "none"
    /\ deferred.memory = <<>> \/ deferred.again
    /\ deferred.profile # None
    /\ deferred' = [deferred EXCEPT !.profile = None]
    /\ pending' = IF deferred.profile.fresh /\ ~stopping THEN deferred.profile ELSE None
    /\ KeepRunning
    /\ UNCHANGED <<held, rosterVars>>

\* replace_detail, replace_history and replace_version_detail
MayReplace(ref) == ~Protected(mem) \/ mem.bound = ref
WithDetail(r, ref) ==
    [r EXCEPT !.detail = ref,
              !.history = IF @ # None /\ @.p = ref.p THEN @ ELSE None,
              !.version = IF r.history # None /\ r.history.p = ref.p THEN @ ELSE None]
WithHistory(r, ref) == [r EXCEPT !.history = ref, !.version = None, !.past = 0]
WithVersion(r, ref) ==
    [r EXCEPT !.version = ref, !.history = IF @ # None /\ @.p = ref.p THEN @ ELSE None]
\* A memory view bound to another version of the agent is out of date.
Rebound(ref) == IF mem.bound # None /\ mem.bound # ref THEN BlankMemory ELSE mem

\* install_profile_result, for the target that is still selected
Install(request) ==
    LET now == [p |-> request.p, v |-> store.version[request.p]]
        asked == [p |-> request.p, v |-> request.v]
    IN CASE request.read = "detail" /\ now = asked /\ MayReplace(now) ->
              roster' = WithDetail(roster, now) /\ mem' = Rebound(now)
         [] request.read = "history" /\ now = asked /\ MayReplace(now) ->
              roster' = WithHistory(roster, now) /\ mem' = Rebound(now)
         [] request.read = "version" /\ MayReplace([p |-> request.p, v |-> request.past]) ->
              /\ roster' = WithVersion(roster, [p |-> request.p, v |-> request.past])
              /\ mem' = mem
         [] OTHER -> UNCHANGED <<roster, mem>>

ProfileAnswered ==
    /\ Pending("profile")
    /\ pending' = None
    /\ \/ pending.fresh /\ Install(pending)
       \/ UNCHANGED <<roster, mem>>     \* refused, or its target is gone
    /\ KeepRunning
    /\ UNCHANGED <<deferred, held, store>>

-----------------------------------------------------------------------------
(* The keys, outside the editor and the memory desk. *)

InFront == AtTheKeyboard /\ roster.tab = "agents"
AgentsKey(pane) ==
    /\ InFront
    /\ roster.pane \notin {"Memory", "Confirmation"}
    /\ InteractionPane = pane

\* Up and Down in the list, then a read of the row it stopped at.
SelectAgent(q) ==
    /\ AgentsKey("List")
    /\ roster.rows[q] > 0
    /\ LET to == IF MaySelect(q) THEN q ELSE roster.sel
           moves == to # roster.sel
           after == Selected(roster, to)
       IN /\ roster' = after
          /\ mem' = IF moves THEN BlankMemory ELSE mem
          /\ Read(after, "detail", Retargeted(after, pending), Retarget(after, deferred))
    /\ UNCHANGED <<held, store>>

OpenAgent ==
    /\ AgentsKey("List")
    /\ roster' = [roster EXCEPT !.pane = "Detail", !.focus = "Workspace"]
    /\ ReadNow(roster, "detail")
    /\ UNCHANGED <<held, mem, store>>

\* The details of an agent take its keys, unless its list of skills is open.
OnDetail == AgentsKey("Detail") /\ ~roster.skillPanel

\* Enter, or H, on an agent whose detail has not come yet only asks for it.
AwaitDetail ==
    /\ OnDetail \/ AgentsKey("List")
    /\ ~MatchingDetail(roster)
    /\ ReadNow(roster, "detail")
    /\ UNCHANGED <<held, rosterVars>>

\* Enter on an agent opens its history, its skills or its memory; which of them
\* is highlighted is left out.
OpenHistory ==
    /\ OnDetail \/ AgentsKey("List")
    /\ MatchingDetail(roster)
    /\ roster' = [roster EXCEPT !.pane = "History", !.focus = "Workspace"]
    /\ ReadNow(roster, "history")
    /\ UNCHANGED <<held, mem, store>>

OpenSkillPanel ==
    /\ OnDetail
    /\ MatchingDetail(roster)
    /\ roster' = [roster EXCEPT !.skillPanel = TRUE]
    /\ UNCHANGED <<hostVars, mem, store>>

\* Moving in the history makes a read of another version stale.
PickPast(v) ==
    /\ AgentsKey("History")
    /\ roster.history # None /\ roster.version = None
    /\ v \in 0 .. roster.history.v - 1 /\ v # roster.past
    /\ roster' = [roster EXCEPT !.past = v]
    /\ pending' = StaleTarget(pending)
    /\ deferred' = [deferred EXCEPT !.profile = StaleTarget(@)]
    /\ KeepRunning
    /\ UNCHANGED <<held, mem, store>>

ShowPast ==
    /\ AgentsKey("History")
    /\ roster.history # None
    /\ ReadNow(roster, "version")
    /\ UNCHANGED <<held, rosterVars>>

\* unwind_agents: one layer back; the list itself gives way to the overview.
Back ==
    /\ InFront
    /\ roster.pane \in {"Detail", "History"} /\ roster.focus # "List"
    /\ roster' = IF roster.pane = "Detail" THEN [roster EXCEPT !.skillPanel = FALSE, !.pane = "List"]
                 ELSE IF roster.version # None THEN [roster EXCEPT !.version = None]
                 ELSE [roster EXCEPT !.pane = "Detail"]
    /\ UNCHANGED <<hostVars, mem, store>>

\* cycle_focus, between the two panes of the workspace.  Entering the right one
\* from the list opens the selected agent.
Tab ==
    /\ InFront
    /\ roster.pane # "Confirmation"
    /\ IF roster.focus = "Workspace" THEN
           /\ roster' = [roster EXCEPT !.focus = "List"]
           /\ UNCHANGED hostVars
       ELSE IF roster.pane = "List" THEN
           /\ roster' = [roster EXCEPT !.focus = "Workspace", !.pane = "Detail"]
           /\ ReadNow(roster, "detail") /\ UNCHANGED held
       ELSE
           /\ roster' = [roster EXCEPT !.focus = "Workspace"]
           /\ UNCHANGED hostVars
    /\ UNCHANGED <<mem, store>>

=============================================================================
