------------------------------- MODULE Cockpit -------------------------------
(***************************************************************************)
(* What the tabs of the terminal share: going from one to another and the   *)
(* refresh that may need, and the command line, whose outcome may change    *)
(* the tab by itself (apply_outcome in src/ui/tui/controller.rs).           *)
(***************************************************************************)
EXTENDS SkillsDesk

Tabs == {"overview", "agents", "skills"}

-----------------------------------------------------------------------------
(* Refreshes: of the library alone, or with the list of agents. *)

\* execute_agent_effect and execute_skill_effect for the three refreshes.  They
\* change what is listed, never the pane, the tab or the focus; a failure leaves
\* the loop (LoopFails).
Refresh(nav, k, r, queue) ==
    LET listed == IF nav = "profiles" THEN Relisted(r, store.version) ELSE r
        shelved == WithSkills(k, store.skills)
    IN /\ shelf' = shelved
       /\ roster' = listed
       /\ mem' = MemoryAfter(listed)
       /\ deferred' = IF nav = "skills" THEN QueueMissing(queue, shelved, r.tab)
                      ELSE IF MatchingDetail(listed) THEN Retarget(listed, queue)
                      ELSE [queue EXCEPT !.profile = ReadRequest(listed, "detail")]

\* defer_navigation_refresh: the wider refresh stands for the narrower.
Wait(nav) ==
    [deferred EXCEPT !.nav = IF @ = "profiles" \/ (@ # "none" /\ nav # "profiles") THEN @ ELSE nav]

RunDeferredRefresh ==
    /\ Running /\ Free
    /\ ~deferred.quit /\ deferred.nav # "none"
    /\ Refresh(deferred.nav, shelf, roster, [deferred EXCEPT !.nav = "none"])
    /\ KeepRunning /\ UNCHANGED <<pending, held, store, deskVars>>

\* A number key, or a step along the row of tabs.  A text field takes the key.
SwitchTab(tab) ==
    /\ AtTheKeyboard /\ ~TextEntry
    /\ tab # roster.tab
    /\ LET nav == IF shelf.loaded THEN "none" ELSE
                  CASE tab = "agents" -> "profiles" [] tab = "skills" -> "skills" [] OTHER -> "none"
           k == IF tab # "skills" THEN shelf
                ELSE [shelf EXCEPT !.origin = IF @ \in Profiles THEN @ ELSE Cockpit,
                                   !.focus = IF shelf.pane = "List" THEN "List" ELSE @]
           r == [roster EXCEPT !.tab = tab]
       IN IF nav # "none" /\ Free THEN Refresh(nav, k, r, deferred)
          ELSE /\ shelf' = k /\ roster' = r /\ UNCHANGED mem
               /\ deferred' = Looked(IF nav = "none" THEN deferred ELSE Wait(nav), k, tab)
    /\ pending' = Moved(pending)
    /\ KeepRunning /\ UNCHANGED <<held, store, deskVars>>

\* R in the skills of an agent: load_agent_skill_library.
ReloadLibrary ==
    /\ AgentsKey("Detail") /\ roster.skillPanel
    /\ IF Free THEN Refresh("library", shelf, roster, deferred)
       ELSE deferred' = Wait("library") /\ UNCHANGED <<shelf, roster, mem>>
    /\ KeepRunning /\ UNCHANGED <<pending, held, store, deskVars>>

-----------------------------------------------------------------------------
(* The command line.  One command at a time; what is being filled in or      *)
(* confirmed keeps the slash to itself.  A command that the runtime refuses,  *)
(* whatever the reason, leaves the loop (LoopFails).                         *)

Line ==
    /\ AtTheKeyboard /\ Free
    /\ ~stopping
    /\ ~(roster.tab = "agents" /\ (TextEntry \/ roster.pane \in {"Editor", "Confirmation"}))
    /\ ~(roster.tab = "skills" /\ (InSkillForm \/ Asking))

Request(what, key, presents) == [kind |-> "command", what |-> what, key |-> key, presents |-> presents]

\* submit_command, a command.  Esc brings the focus back to the workspace.
TypeCommand(what, key) ==
    /\ Line
    /\ pending' = Request(what, key, TRUE)
    /\ roster' = IF roster.tab = "agents" THEN [roster EXCEPT !.focus = "Workspace"] ELSE roster
    /\ shelf' = IF roster.tab = "skills" THEN [shelf EXCEPT !.focus = "Workspace"] ELSE shelf
    /\ KeepRunning /\ UNCHANGED <<deferred, held, mem, store, deskVars>>

\* After a skill was made its tab shows the library, and then the skill.
ShowMade ==
    /\ ShelfKey("Result") /\ shelf.made # None
    /\ Free /\ ~stopping
    /\ pending' = Request("skills", None, TRUE)
    /\ KeepRunning /\ UNCHANGED <<deferred, held, rosterVars, deskVars, shelf>>

\* apply_outcome.  An outcome that is not to be shown, because the operator has
\* left the tab, changes the lists and nothing else; begun work keeps its pane.
ShowAgents(presents) ==
    LET listed == Relisted(roster, store.version)
    IN /\ roster' = IF ~presents THEN listed
                    ELSE [listed EXCEPT !.tab = "agents",
                                        !.pane = IF ProtectedAgents THEN @ ELSE "List",
                                        !.focus = IF ProtectedAgents THEN @ ELSE "Workspace"]
       /\ mem' = MemoryAfter(listed)
       /\ pending' = None /\ UNCHANGED shelf

ShowAgent(p, presents) ==
    LET known == Known(roster, p, store.version)
    IN /\ roster' = IF ~presents THEN roster
                    ELSE [known EXCEPT !.tab = "agents",
                                       !.pane = IF ProtectedAgents THEN @ ELSE "Detail",
                                       !.focus = IF ProtectedAgents THEN @ ELSE "Workspace"]
       /\ mem' = IF presents THEN MemoryAfter(known) ELSE mem
       /\ shelf' = IF presents /\ ~shelf.loaded /\ \E s \in Skills : Pinned(p, s) > 0
                   THEN WithSkills(shelf, store.skills) ELSE shelf
       /\ pending' = None

ShowSkills(presents) ==
    /\ shelf' = [WithSkills(shelf, store.skills) EXCEPT
                    !.pane = IF presents /\ ~ProtectedSkills THEN "List" ELSE @,
                    !.origin = IF presents /\ roster.tab # "skills" /\ ~ProtectedSkills THEN Cockpit ELSE @]
    /\ roster' = IF presents THEN [roster EXCEPT !.tab = "skills"] ELSE roster
    /\ pending' = IF shelf.made # None /\ ~stopping THEN Request("skill", shelf.made, presents) ELSE None
    /\ UNCHANGED mem

ShowSkill(s, presents) ==
    LET ref == Ref(s, store.skills[s])
        staged == ~presents /\ shelf.made = s /\ shelf.pane = "Result" /\ ~ProtectedSkills
        found == IF presents \/ staged THEN WithSkill(shelf, ref) ELSE shelf
    IN /\ shelf' = [found EXCEPT
                      !.made = IF @ = s THEN None ELSE @,
                      !.pane = IF ProtectedSkills \/ ~presents THEN shelf.pane ELSE @,
                      !.origin = IF presents /\ roster.tab # "skills" /\ ~ProtectedSkills THEN Cockpit ELSE @]
       /\ roster' = IF presents THEN [roster EXCEPT !.tab = "skills"] ELSE roster
       /\ pending' = None
       /\ UNCHANGED mem

\* poll_pending with the outcome of a command.
CommandAnswered ==
    /\ Pending("command")
    /\ LET presents == pending.presents
       IN CASE pending.what = "agents" -> ShowAgents(presents)
            [] pending.what = "agent" -> ShowAgent(pending.key, presents)
            [] pending.what = "skills" -> ShowSkills(presents)
            [] pending.what = "skill" -> ShowSkill(pending.key, presents)
    /\ deferred' = Retarget(roster', deferred)
    /\ KeepRunning /\ UNCHANGED <<held, store, deskVars>>

\* submit_command and execute_typed_skill_workflow: a new skill, the assignment
\* of one, or its end.
Workflow ==
    /\ Line /\ ~ProtectedSkills

StartedAt ==
    [NoContext(shelf) EXCEPT !.origin = IF roster.tab = "skills" THEN @ ELSE Cockpit,
                             !.from = "skills", !.focus = "Workspace"]
GoToShelf(k) ==
    /\ shelf' = k
    /\ roster' = [roster EXCEPT !.tab = "skills"]
    /\ deferred' = Looked(deferred, k, "skills")
    /\ KeepRunning /\ UNCHANGED <<pending, held, mem, store, deskVars>>

TypeAdd == Workflow /\ GoToShelf(WithForm(StartedAt, K!ForCreate(FALSE)))

TypeAssign(s, p) ==
    /\ Workflow
    /\ \/ /\ store.skills[s] > 0 /\ store.version[p] > 0
          /\ LET target == Ref(s, store.skills[s])
             IN GoToShelf([WithSkill(StartedAt, target) EXCEPT
                            !.agent = ServedAs(p), !.pane = "AssignmentReview",
                            !.assignment = [kind |-> Classify(target, Pinned(p, s)),
                                            pinned |-> Ref(s, Pinned(p, s)), target |-> target]])
       \/ GoToShelf([StartedAt EXCEPT !.pane = "List"])        \* refused

TypeUnassign(s, p) ==
    /\ Workflow
    /\ store.skills[s] > 0 /\ store.version[p] > 0
    /\ LET shown == WithSkill(StartedAt, Ref(s, store.skills[s]))
           pinned == Ref(s, Pinned(p, s))
       IN GoToShelf(IF pinned.v = 0 THEN [shown EXCEPT !.agent = ServedAs(p)]
                    ELSE [WithSkillVersion(shown, pinned) EXCEPT
                            !.agent = ServedAs(p), !.pane = "AssignmentReview",
                            !.assignment = [kind |-> "unassign", pinned |-> pinned, target |-> pinned]])

-----------------------------------------------------------------------------
CockpitKeys ==
    \/ \E tab \in Tabs : SwitchTab(tab)
    \/ ReloadLibrary \/ ShowMade
CockpitLine ==
    \/ TypeCommand("agents", None) \/ TypeCommand("skills", None)
    \/ \E p \in Profiles : store.version[p] > 0 /\ TypeCommand("agent", p)
    \/ \E s \in Skills : store.skills[s] > 0 /\ TypeCommand("skill", s)
CockpitWorkflows ==
    \/ TypeAdd
    \/ \E s \in Skills, p \in Profiles : TypeAssign(s, p) \/ TypeUnassign(s, p)
=============================================================================
