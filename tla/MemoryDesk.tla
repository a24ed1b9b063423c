----------------------------- MODULE MemoryDesk -----------------------------
(***************************************************************************)
(* The memory of one agent in the terminal: handle_memory_key and the       *)
(* editor's keys in src/ui/tui/controller.rs, what src/ui/tui/host.rs asks   *)
(* of the runtime for them, and what it does with the answers.              *)
(*                                                                         *)
(* Generations.  Whatever bumps the generation while a request is in flight *)
(* also forgets its intent, so the intent alone says whether an answer is   *)
(* the one that is waited for.                                             *)
(***************************************************************************)
EXTENDS Roster

CONSTANTS MaxVersion    \* bound: versions of one note

Mutations == {"mutation", "resolution"}

-----------------------------------------------------------------------------
(* Who gets the keys. *)

\* active_memory_editor and memory_text_entry_active: a text step takes every
\* key but Ctrl-C; the review step takes Enter and Esc.
EditorOpen == roster.tab = "agents" /\ roster.pane = "Memory" /\ mem.pane = "Editor" /\ mem.editor # None
TextEntry == EditorOpen /\ EditorAuthentic(mem) /\ mem.editor.step # "Review"

\* memory_primary_pane: with the focus on the list, the keys go to the list
\* the pane belongs to, and not to the pane.
PrimaryPane ==
    CASE mem.pane = "EntryHistory" -> "EntryHistory"
      [] mem.pane \in {"Proposals", "ProposalDetail", "ProposalResolutionReview"} -> "Proposals"
      [] mem.pane \in {"EpisodicSummaries", "EpisodicDetail"} -> "EpisodicSummaries"
      [] mem.pane = "Confirmation" /\ ConfirmedCommand(mem) # None /\ mem.resolution # None -> "Proposals"
      [] mem.pane = "Result" /\ mem.result = "resolution" -> "Proposals"
      [] OTHER -> "EntryList"

MemoryInteraction == IF roster.focus = "List" THEN PrimaryPane ELSE mem.pane

\* A key of a layer counts only while what the layer shows is authentic; Esc
\* always counts.
Leaving(pane) ==
    /\ InFront
    /\ roster.pane = "Memory" /\ ~EditorOpen
    /\ MemoryInteraction = pane
OnLayer(pane) ==
    /\ InFront
    /\ roster.pane = "Memory" /\ ~TextEntry
    /\ MemoryInteraction = pane
    /\ LayerAuthentic(mem, pane)
EnterOn(pane) == OnLayer(pane) /\ ~EditorOpen

ToWorkspace == roster' = [roster EXCEPT !.focus = "Workspace"]

\* A key that changes the view and nothing else.
View(m) == mem' = m /\ UNCHANGED <<hostVars, store>>

-----------------------------------------------------------------------------
(* Requests. *)

Intent(what, key) == [what |-> what, key |-> key]

\* begin_pending; a confirmation that is executed stays good for a second try.
Begun(m, intent) ==
    IF intent.what \in Mutations THEN [m EXCEPT !.intent = intent] ELSE BegunPending(m, intent)

\* queue_memory_command, for a view as the key left it.  A busy runtime leaves
\* the desk as it is, to try again; any other refusal leaves the loop (LoopFails).
Queue(m, intent, p, command, queue) ==
    /\ Free
    /\ KeepRunning /\ UNCHANGED <<held, store>>
    /\ \/ /\ pending' = [kind |-> "memory", intent |-> intent, p |-> p, command |-> command]
          /\ mem' = Begun(m, intent)
          /\ deferred' = [queue EXCEPT !.again = FALSE]
       \/ /\ mem' = BegunPending(m, None)
          /\ deferred' = [queue EXCEPT !.again = queue # deferred /\ queue.memory # <<>>]
          /\ UNCHANGED pending

Ask(m, what, key) == Queue(m, Intent(what, key), m.bound.p, None, deferred)

\* The event loop starts the refreshes that followed a mutation one by one.
RunDeferredMemory ==
    /\ Running /\ Free
    /\ ~deferred.quit /\ deferred.nav = "none"
    /\ deferred.memory # <<>>
    /\ LET refresh == Head(deferred.memory)
       IN Queue(mem, Intent(refresh.what, None), refresh.p, None,
                [deferred EXCEPT !.memory = Tail(@)])
    /\ UNCHANGED roster

\* bind_profile with the detail of the agent, then its entries
OpenMemory ==
    /\ OnDetail /\ MatchingDetail(roster)
    /\ MayBind(mem, roster.detail)
    /\ roster' = [roster EXCEPT !.pane = "Memory"]
    /\ Ask(Bound(mem, roster.detail), "entries", None)

-----------------------------------------------------------------------------
(* Notes. *)

PickNote(n) ==
    /\ OnLayer("EntryList") /\ n \in mem.rows
    /\ View(WithRow(mem, n)) /\ UNCHANGED roster

OpenNote ==
    /\ EnterOn("EntryList") /\ mem.rows # {}
    /\ ToWorkspace
    /\ Ask(At(WithRow(mem, mem.row), "EntryDetail"), "detail", mem.row)

OpenCreate ==
    /\ OnLayer("EntryList") /\ ~Protected(mem)
    /\ ToWorkspace
    /\ View(Opened(mem, BlankEditor(mem.bound.p), "create"))

OpenProposals ==
    /\ OnLayer("EntryList")
    /\ Ask(At(mem, "Proposals"), "proposals", None) /\ UNCHANGED roster

OpenEpisodes ==
    /\ OnLayer("EntryList")
    /\ Ask(At(mem, "EpisodicSummaries"), "episodes", None) /\ UNCHANGED roster

\* Enter on a note does one of three things; which one is highlighted is left
\* out.
OpenEdit ==
    /\ EnterOn("EntryDetail") /\ ~Protected(mem)
    /\ View(Opened(mem, SeededEditor(mem.bound.p, mem.detail), "edit")) /\ UNCHANGED roster

OpenNoteHistory ==
    /\ EnterOn("EntryDetail")
    /\ Ask(At(mem, "EntryHistory"), "history", mem.row) /\ UNCHANGED roster

PickVersion(v) ==
    /\ OnLayer("EntryHistory")
    /\ roster.focus = "List" \/ mem.version = None
    /\ v \in 1 .. mem.history.v
    /\ View(WithPast(mem, v)) /\ UNCHANGED roster

OpenVersion ==
    /\ EnterOn("EntryHistory")
    /\ ToWorkspace
    /\ Ask(WithPast(mem, mem.past), "version", [n |-> mem.row, v |-> mem.past])

-----------------------------------------------------------------------------
(* Suggestions and summaries. *)

PickSuggestion(s) ==
    /\ OnLayer("Proposals") /\ s \in mem.sugs
    /\ View(WithSug(mem, s)) /\ UNCHANGED roster

OpenSuggestion ==
    /\ EnterOn("Proposals") /\ mem.sugs # {}
    /\ ToWorkspace
    /\ Ask(At(WithSug(mem, mem.sug), "ProposalDetail"), "proposal", mem.sug)

ChooseResolution(c) ==
    /\ OnLayer("ProposalDetail") /\ c # mem.choice
    /\ View([mem EXCEPT !.choice = c]) /\ UNCHANGED roster

PickEpisode(e) ==
    /\ OnLayer("EpisodicSummaries") /\ e \in mem.episodes
    /\ View(WithEpisode(mem, e)) /\ UNCHANGED roster

OpenEpisode ==
    /\ EnterOn("EpisodicSummaries") /\ mem.episodes # {}
    /\ ToWorkspace
    /\ Ask(At(WithEpisode(mem, mem.episode), "EpisodicDetail"), "summary", mem.episode)

\* Esc, one layer back.
LeaveLayer ==
    /\ InFront /\ roster.pane = "Memory" /\ ~EditorOpen
    /\ LET pane == MemoryInteraction
       IN \/ /\ pane = "EntryList"
             /\ roster' = [roster EXCEPT !.pane = "Detail"]
             /\ UNCHANGED <<hostVars, mem, store>>
          \/ /\ pane \in {"EntryDetail", "Proposals", "EpisodicSummaries"}
             /\ View(At(mem, "EntryList")) /\ UNCHANGED roster
          \/ /\ pane = "ProposalDetail" /\ View(At(mem, "Proposals")) /\ UNCHANGED roster
          \/ /\ pane = "EpisodicDetail" /\ View(At(mem, "EpisodicSummaries")) /\ UNCHANGED roster
          \/ /\ pane = "EntryHistory"
             /\ View(IF mem.version # None THEN [mem EXCEPT !.version = None]
                     ELSE At(mem, "EntryDetail"))
             /\ UNCHANGED roster
          \/ /\ pane = "Result"
             /\ View(At(mem, IF mem.result = "resolution" THEN "Proposals" ELSE "EntryList"))
             /\ UNCHANGED roster

-----------------------------------------------------------------------------
(* The editor. *)

EditorKey == InFront /\ EditorOpen
Editing(step) == EditorKey /\ TextEntry /\ mem.editor.step = step
WithEditor(e) == [mem EXCEPT !.editor = e]

NameDraft(n) ==
    /\ Editing("Key")
    /\ View(WithEditor(NamedDraft(mem.editor, n))) /\ UNCHANGED roster

WriteDraft(same) ==
    /\ Editing("Value")
    /\ same => mem.editor.seed # None
    /\ View(WithEditor(WrittenDraft(mem.editor, same))) /\ UNCHANGED roster

\* Esc: from the review it is a cancellation (CancelReview), from the first
\* step it drops the draft.
BackInEditor ==
    /\ EditorKey
    /\ ~(mem.editor.step = "Review" /\ mem.registered)
    /\ View(IF LeavesEditor(mem.editor)
            THEN At(WithEditor(None), IF mem.origin = "create" THEN "EntryList" ELSE "EntryDetail")
            ELSE WithEditor(BackIn(mem.editor)))
    /\ UNCHANGED roster

-----------------------------------------------------------------------------
(* Previews.  The runtime answers them at once and registers the review it   *)
(* returns; a review that is not the one that was asked for is cancelled and *)
(* leaves the loop.                                                         *)

Current(p, n) == store.notes[p][n]
Live(n, v) == [n |-> n, v |-> v]
ServedAs(p) == [p |-> p, v |-> store.version[p]]

\* cancel_tui_memory_review_once on the way out of the loop
CancelledAndEnded ==
    /\ \E told \in BOOLEAN :
          /\ ended' = IF told THEN "unexpected" ELSE "uncancelled"
          /\ held' = IF told THEN held \ {"memory"} ELSE held \cup {"memory"}
    /\ mem' = [ReviewRequested(mem) EXCEPT !.registered = FALSE]

\* apply_memory_preview_result: a refusal is a message.
PreviewFails == mem' = ReviewRequested(mem) /\ UNCHANGED <<ended, held>>

Reviewed(m, pane) == [At(m, pane) EXCEPT !.registered = TRUE, !.confirmation = None]

InstallReview(m) == mem' = m /\ held' = held \cup {"memory"} /\ UNCHANGED ended

\* What a review has to be to be the one that was asked for: of the version of
\* the agent the view is bound to, and of the note as the view showed it.
SetReviewMatches(r) ==
    /\ r.by = mem.bound
    /\ IF mem.editor.seed = None THEN ~r.expect.live
       ELSE r.expect = [v |-> mem.editor.seed.v, live |-> TRUE]
DeleteReviewMatches(r) ==
    /\ r.by = mem.bound
    /\ r.expect = [v |-> mem.detail.v, live |-> TRUE]
ResolutionReviewMatches(r) == r.by = mem.bound

\* The runtime found no change, and the draft does repeat the note it began with.
IdenticalContent(e, now) ==
    e.same /\ e.seed # None /\ now = [v |-> e.seed.v, live |-> TRUE]

\* preview_memory_set and install_set_preview_for_host
SubmitTags ==
    /\ Editing("PurposeTags")
    /\ MayRequestReview(mem) /\ Free
    /\ LET e == mem.editor
           now == Current(e.of, e.name)
           review == [op |-> "set", by |-> ServedAs(e.of), n |-> e.name, same |-> e.same,
                      expect |-> now]
           asked == [ReviewRequested(mem) EXCEPT !.editor.shown = None]
       IN \/ PreviewFails
          \/ /\ now.v < MaxVersion
             /\ IF IdenticalContent(e, now) THEN
                    /\ mem' = [asked EXCEPT !.editor.step = "Review"]
                    /\ UNCHANGED <<ended, held>>
                ELSE IF SetReviewMatches(review) THEN
                    InstallReview([Reviewed(asked, "MutationReview") EXCEPT
                                    !.review = review, !.editor.shown = review,
                                    !.editor.step = "Review"])
                ELSE CancelledAndEnded
    /\ UNCHANGED <<pending, deferred, stopping, left, store, roster>>

\* preview_memory_delete and install_delete_preview_for_host
RequestDelete ==
    /\ EnterOn("EntryDetail")
    /\ MayRequestReview(mem) /\ Free
    /\ LET n == mem.detail.n
           now == Current(mem.bound.p, n)
           review == [op |-> "delete", by |-> ServedAs(mem.bound.p), n |-> n, same |-> FALSE,
                      expect |-> now]
       IN \/ PreviewFails
          \/ /\ now.v < MaxVersion
             /\ IF ~now.live THEN mem' = ReviewRequested(mem) /\ UNCHANGED <<ended, held>>
                ELSE IF DeleteReviewMatches(review) THEN
                    InstallReview([Reviewed(ReviewRequested(mem), "MutationReview") EXCEPT
                                    !.review = review])
                ELSE CancelledAndEnded
    /\ UNCHANGED <<pending, deferred, stopping, left, store, roster>>

\* preview_memory_proposal_* and install_resolution_preview_for_host
RequestResolution ==
    /\ EnterOn("ProposalDetail")
    /\ MayRequestReview(mem) /\ Free
    /\ LET s == mem.proposal.s
           review == [choice |-> mem.choice, s |-> s, by |-> ServedAs(store.sugs[s].p)]
       IN \/ PreviewFails
          \/ /\ store.sugs[s].status = "pending"
             /\ Current(mem.bound.p, store.sugs[s].n).v < MaxVersion
             /\ IF ResolutionReviewMatches(review) THEN
                    InstallReview([Reviewed(ReviewRequested(mem), "ProposalResolutionReview") EXCEPT
                                    !.resolution = review])
                ELSE CancelledAndEnded
    /\ UNCHANGED <<pending, deferred, stopping, left, store, roster>>

-----------------------------------------------------------------------------
(* From the review to the command. *)

\* Enter on a review, or on the review step of the editor.
ConfirmReview ==
    /\ \/ EnterOn("MutationReview")
       \/ EnterOn("ProposalResolutionReview")
       \/ EditorKey /\ EditorAuthentic(mem) /\ mem.editor.step = "Review"
    /\ ReviewCommand(mem) # None
    /\ View([At(mem, "Confirmation") EXCEPT
               !.confirmation = [command |-> ReviewCommand(mem), fresh |-> TRUE]])
    /\ UNCHANGED roster

\* Esc on the confirmation keeps it.
LeaveConfirmation ==
    /\ Leaving("Confirmation")
    /\ View(At(mem, IF mem.resolution # None THEN "ProposalResolutionReview"
                    ELSE IF mem.editor # None /\ mem.editor.step = "Review" THEN "Editor"
                    ELSE "MutationReview"))
    /\ UNCHANGED roster

Execute ==
    /\ EnterOn("Confirmation")
    /\ LET command == ConfirmedCommand(mem)
       IN Queue(mem, Intent(IF mem.review # None THEN "mutation" ELSE "resolution", None),
                mem.bound.p, command, deferred)
    /\ UNCHANGED roster

\* A slip: the review is dropped, the mark that it is registered is not.
FaultyUnwound(m) ==
    [m EXCEPT !.confirmation = None, !.review = None, !.resolution = None,
              !.pane = IF m.editor # None THEN "Editor" ELSE "EntryDetail",
              !.editor = IF @ = None THEN None ELSE Unreviewed(@)]

\* unwind_memory_review
Unwound(m) ==
    LET bare == [m EXCEPT !.confirmation = None, !.registered = FALSE]
    IN IF m.review # None
       THEN [At(bare, IF m.editor # None THEN "Editor" ELSE "EntryDetail") EXCEPT
               !.review = None, !.editor = IF @ = None THEN None ELSE Unreviewed(@)]
       ELSE IF m.resolution # None
       THEN [At(bare, "ProposalDetail") EXCEPT !.resolution = None]
       ELSE bare

\* cancel_tui_memory_review_once and unwind_memory_review
CancelAndUnwind ==
    \/ held' = held \ {"memory"} /\ mem' = [Unwound(mem) EXCEPT !.intent = None] /\ UNCHANGED ended
    \/ ended' = "uncancelled" /\ mem' = [mem EXCEPT !.registered = FALSE] /\ UNCHANGED held

CancelReview ==
    /\ \/ Leaving("MutationReview") \/ Leaving("ProposalResolutionReview")
       \/ EditorKey /\ mem.editor.step = "Review" /\ mem.registered
    /\ Free
    /\ CancelAndUnwind
    /\ UNCHANGED <<pending, deferred, stopping, left, store, roster>>

-----------------------------------------------------------------------------
(* Answers. *)

\* What the runtime has to say to a read: whose it is, and what it holds.
Answer(r) ==
    LET notes == store.notes[r.p]
        key == r.intent.key
        Sent(rows, item) == [by |-> ServedAs(r.p), key |-> key, rows |-> rows, item |-> item]
    IN CASE r.intent.what = "entries" -> Sent({n \in Notes : notes[n].live}, None)
         [] r.intent.what = "detail" -> IF notes[key].live THEN Sent({}, Live(key, notes[key].v)) ELSE None
         [] r.intent.what = "history" -> IF notes[key].v > 0 THEN Sent({}, Live(key, notes[key].v)) ELSE None
         [] r.intent.what = "proposals" ->
              Sent({s \in Suggestions : store.sugs[s].p = r.p /\ store.sugs[s].status = "pending"}, None)
         [] r.intent.what = "proposal" -> Sent({}, [s |-> key, status |-> store.sugs[key].status])
         [] r.intent.what = "episodes" -> Sent({e \in Summaries : store.summaries[e] = r.p}, None)
         [] OTHER -> Sent({}, key)

\* The row the list stops at, when the one that was selected is gone.
NextSelection(what, view) ==
    CASE what = "entries" -> NextRows(mem.row, view.rows)
      [] what = "proposals" -> NextRows(mem.sug, view.rows)
      [] what = "episodes" -> NextRows(mem.episode, view.rows)
      [] what = "history" -> IF mem.past \in 1 .. view.item.v THEN {mem.past} ELSE 1 .. view.item.v
      [] OTHER -> {None}

\* A refused request is forgotten, if it is still the one that is waited for.
Forgotten == [mem EXCEPT !.intent = IF @ = pending.intent THEN None ELSE @]

\* A read was answered.  What is no longer waited for is dropped; what is, and
\* does not fit, leaves the loop.
ReadAnswered ==
    /\ Pending("memory") /\ pending.intent.what \notin Mutations
    /\ pending' = None
    /\ \/ LET view == Answer(pending)
              what == pending.intent.what
          IN /\ view # None
             /\ IF mem.intent # pending.intent THEN UNCHANGED <<mem, ended>>
                ELSE IF ReadMatches(mem, pending.intent, view)
                THEN /\ \E row \in NextSelection(what, view) :
                            mem' = Hydrated(mem, pending.intent, view, row)
                     /\ UNCHANGED ended
                ELSE mem' = Forgotten /\ ended' = "unexpected"
       \/ mem' = Forgotten /\ UNCHANGED ended       \* refused
    /\ UNCHANGED <<deferred, stopping, held, left, store, roster>>

\* The runtime carries a confirmed command out when what the review was made
\* from still holds.
StillHolds(c) ==
    /\ "memory" \in held
    /\ c.by = ServedAs(c.by.p)
    /\ IF "s" \in DOMAIN c THEN store.sugs[c.s].status = "pending"
       ELSE c.expect = Current(c.by.p, c.n)

CarriedOut(c) ==
    LET Bump(n, live) ==
            [store.notes EXCEPT ![c.by.p][n] = [v |-> @.v + 1, live |-> live]]
        Outdated(n) == {s \in Suggestions : store.sugs[s].p = c.by.p /\ store.sugs[s].n = n
                                             /\ store.sugs[s].status = "pending"}
        Settled(gone, status) ==
            [s \in Suggestions |-> IF s \in gone THEN [store.sugs[s] EXCEPT !.status = status]
                                   ELSE store.sugs[s]]
    IN IF "s" \notin DOMAIN c
       THEN [store EXCEPT !.notes = Bump(c.n, c.op = "set"), !.sugs = Settled(Outdated(c.n), "expired")]
       ELSE IF c.choice = "approve"
       THEN [store EXCEPT !.notes = Bump(store.sugs[c.s].n, TRUE),
                          !.sugs = [Settled(Outdated(store.sugs[c.s].n), "expired")
                                      EXCEPT ![c.s].status = "accepted"]]
       ELSE [store EXCEPT !.sugs = Settled({c.s}, "rejected")]

\* complete_memory_outcome: the review is spent, the lists it changed are read
\* again.
Completed(m, what) ==
    [At(m, "Result") EXCEPT !.registered = FALSE, !.review = None, !.resolution = None,
        !.confirmation = None, !.editor = None, !.result = what, !.intent = None]
Refreshes(m, command) ==
    LET p == m.bound.p
        entries == <<[what |-> "entries", p |-> p]>>
        proposals == <<[what |-> "proposals", p |-> p]>>
    IN IF "s" \in DOMAIN command
       THEN IF command.choice = "approve" THEN entries \o proposals ELSE proposals
       ELSE IF m.sugs # None THEN entries \o proposals ELSE entries

\* The runtime did what was confirmed.
MutationAnswered ==
    /\ Pending("memory") /\ pending.intent.what \in Mutations
    /\ StillHolds(pending.command)
    /\ pending' = None
    /\ store' = CarriedOut(pending.command)
    /\ held' = held \ {"memory"}
    /\ LET c == pending.command
           view == [key |-> IF "s" \in DOMAIN c THEN [op |-> c.choice, n |-> c.s]
                            ELSE [op |-> c.op, n |-> c.n]]
       IN IF ResultMatches(mem, pending.intent, view)
          THEN /\ mem' = Completed(mem, pending.intent.what)
               /\ deferred' = [deferred EXCEPT !.memory = @ \o Refreshes(mem, c)]
               /\ UNCHANGED ended
          ELSE /\ mem' = Forgotten /\ ended' = "unexpected"
               /\ UNCHANGED deferred
    /\ UNCHANGED <<stopping, left, roster>>

\* recover_memory_pending_error: what may be tried again keeps its review, in
\* the desk and in the runtime; any other failure clears it.
MutationRefused ==
    /\ Pending("memory") /\ pending.intent.what \in Mutations
    /\ pending' = None
    /\ \/ mem' = Forgotten /\ UNCHANGED <<held, ended>>
       \/ /\ held' = held \ {"memory"}
          /\ \/ mem' = [Unwound(mem) EXCEPT !.intent = None] /\ UNCHANGED ended
             \/ mem' = [Forgotten EXCEPT !.registered = FALSE] /\ ended' = "uncancelled"
    /\ UNCHANGED <<deferred, stopping, left, store, roster>>

-----------------------------------------------------------------------------
MemoryAnswers == ReadAnswered \/ MutationAnswered \/ MutationRefused
=============================================================================
