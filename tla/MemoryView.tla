----------------------------- MODULE MemoryView -----------------------------
(***************************************************************************)
(* What the terminal keeps of one agent's memory: MemoryViewState in       *)
(* src/ui/tui/model.rs and the editor of src/ui/memory_editor.rs.  Every    *)
(* operator is a method: it takes the view and gives the view back.         *)
(*                                                                         *)
(* A note is a model value, its version a number; what a draft says is      *)
(* abstracted to `same', whether it repeats what the note holds.  Rows of a *)
(* list are a set: the row that takes the place of one that went is any.    *)
(***************************************************************************)
EXTENDS Host

CONSTANTS Profiles, Notes, Suggestions, Summaries

BlankMemory ==
    [bound |-> None, pane |-> "EntryList",
     rows |-> None, row |-> None, detail |-> None,
     history |-> None, past |-> 0, version |-> None,
     sugs |-> None, sug |-> None, proposal |-> None,
     episodes |-> None, episode |-> None, summary |-> None,
     choice |-> "approve",
     editor |-> None, origin |-> "create",
     review |-> None, resolution |-> None, confirmation |-> None, registered |-> FALSE,
     result |-> "mutation", intent |-> None]

\* has_protected_workflow
Protected(m) ==
    \/ m.editor # None
    \/ m.review # None
    \/ m.resolution # None
    \/ m.confirmation # None
    \/ m.registered

\* bind_profile: another agent's memory starts blank; begun work keeps it out.
MayBind(m, identity) == m.bound = identity \/ ~Protected(m)
Bound(m, identity) ==
    IF m.bound = identity THEN m ELSE [BlankMemory EXCEPT !.bound = identity]

\* transition_to, with what every change of pane leaves alone
At(m, pane) == [m EXCEPT !.pane = pane]

-----------------------------------------------------------------------------
(* The editor. *)

\* MemoryEditReview, of a note that is set or deleted, and MemoryEditor
AgentRefs == [p : Profiles, v : Nat]
NoteRefs == [n : Notes, v : Nat]
NoteReviews ==
    [op : {"set", "delete"}, by : AgentRefs, n : Notes, same : BOOLEAN,
     expect : [v : Nat, live : BOOLEAN]]
NoteDrafts ==
    [of : Profiles, seed : NoteRefs \cup {None}, name : Notes \cup {None}, same : BOOLEAN,
     step : {"Key", "Value", "PurposeTags", "Review"}, shown : NoteReviews \cup {None}]

\* An Option: no draft of a note, and no review of one, is None.
ASSUME NoneIsNoNote == None \notin NoteDrafts /\ None \notin NoteReviews

BlankEditor(p) ==
    [of |-> p, seed |-> None, name |-> None, same |-> FALSE, step |-> "Key", shown |-> None]
SeededEditor(p, detail) ==
    [of |-> p, seed |-> detail, name |-> detail.n, same |-> TRUE, step |-> "Value", shown |-> None]

\* Opening an editor bumps the generation: an answer in flight is forgotten.
Opened(m, editor, origin) ==
    [At(m, "Editor") EXCEPT !.editor = editor, !.origin = origin, !.review = None,
        !.resolution = None, !.confirmation = None, !.registered = FALSE, !.intent = None]

\* submit_line, step by step; a new text discards what was previewed.
NamedDraft(e, n) == [e EXCEPT !.name = n, !.shown = None, !.step = "Value"]
WrittenDraft(e, same) == [e EXCEPT !.same = same, !.shown = None, !.step = "PurposeTags"]

\* clear_review
Unreviewed(e) ==
    [e EXCEPT !.shown = None, !.step = IF e.step = "Review" THEN "PurposeTags" ELSE e.step]

\* back: the first step of a draft leaves the editor.
LeavesEditor(e) == e.step = "Key" \/ (e.step = "Value" /\ e.seed # None)
BackIn(e) ==
    CASE e.step = "Value" -> [e EXCEPT !.step = "Key"]
      [] e.step = "PurposeTags" -> [e EXCEPT !.step = "Value"]
      [] e.step = "Review" -> Unreviewed(e)

EditorAuthentic(m) ==
    /\ m.bound # None
    /\ m.editor # None
    /\ m.editor.of = m.bound.p
    /\ IF m.origin = "create" THEN m.editor.seed = None
                              ELSE m.editor.seed # None /\ m.editor.name = m.editor.seed.n

-----------------------------------------------------------------------------
(* Lists and details: a detail counts only for the row that is selected. *)

RowAuthentic(m) == m.bound # None /\ m.rows # None /\ m.row \in m.rows
DetailAuthentic(m) == RowAuthentic(m) /\ m.detail # None /\ m.detail.n = m.row
HistoryAuthentic(m) == RowAuthentic(m) /\ m.history # None /\ m.history.n = m.row
VersionAuthentic(m) ==
    m.version = None \/ (HistoryAuthentic(m) /\ m.version = [n |-> m.row, v |-> m.past])
ProposalAuthentic(m) ==
    /\ m.sugs # None /\ m.sug \in m.sugs
    /\ m.proposal # None /\ m.proposal.s = m.sug /\ m.proposal.status = "pending"
SummaryAuthentic(m) ==
    m.episodes # None /\ m.episode \in m.episodes /\ m.summary = m.episode

\* replace_entries, replace_entry_history, replace_proposals, replace_episodes:
\* the selected row is kept when it is still there.
NextRows(old, rows) == IF old \in rows THEN {old} ELSE IF rows = {} THEN {None} ELSE rows

WithRow(m, row) ==
    IF (IF m.detail = None THEN None ELSE m.detail.n) = row THEN [m EXCEPT !.row = row]
    ELSE [m EXCEPT !.row = row, !.detail = None, !.history = None, !.version = None]
WithPast(m, v) ==
    [m EXCEPT !.past = v,
              !.version = IF m.version = [n |-> m.history.n, v |-> v] THEN @ ELSE None]
WithSug(m, s) ==
    [m EXCEPT !.sug = s, !.proposal = IF m.proposal # None /\ m.proposal.s = s THEN @ ELSE None]
WithEpisode(m, e) == [m EXCEPT !.episode = e, !.summary = IF m.summary = e THEN @ ELSE None]

-----------------------------------------------------------------------------
(* Reviews.  A review is executed only as long as what it was made from is  *)
(* still what the view holds.                                              *)

\* authenticated_edit_review
EditAuthentic(m) ==
    LET r == m.review IN
    /\ r # None
    /\ m.registered
    /\ m.resolution = None
    /\ m.bound = r.by
    /\ IF r.op = "set"
       THEN /\ EditorAuthentic(m)
            /\ m.editor.step = "Review"
            /\ m.editor.shown = r
            /\ [n |-> m.editor.name, same |-> m.editor.same] = [n |-> r.n, same |-> r.same]
            /\ IF m.origin = "create" THEN ~r.expect.live
               ELSE r.expect = [v |-> m.editor.seed.v, live |-> TRUE]
       ELSE /\ m.editor = None
            /\ DetailAuthentic(m)
            /\ m.detail.n = r.n
            /\ r.expect = [v |-> m.detail.v, live |-> TRUE]

\* authenticated_resolution_review
ResolutionAuthentic(m) ==
    /\ m.resolution # None
    /\ m.registered
    /\ m.review = None
    /\ m.choice = m.resolution.choice
    /\ m.bound = m.resolution.by

\* edit_review_command and resolution_review_command: the command is the review.
ReviewCommand(m) ==
    IF m.review # None
    THEN IF EditAuthentic(m) THEN m.review ELSE None
    ELSE IF ResolutionAuthentic(m) THEN m.resolution ELSE None

\* confirmed_command
ConfirmedCommand(m) ==
    IF /\ m.confirmation # None
       /\ m.confirmation.fresh
       /\ m.confirmation.command = ReviewCommand(m)
    THEN m.confirmation.command
    ELSE None

\* layer_cache_is_authenticated
LayerAuthentic(m, pane) ==
    CASE pane = "EntryList" -> m.bound # None /\ m.rows # None /\ (m.rows = {} \/ m.row \in m.rows)
      [] pane = "EntryDetail" -> DetailAuthentic(m)
      [] pane = "EntryHistory" -> HistoryAuthentic(m) /\ VersionAuthentic(m)
      [] pane = "Proposals" -> m.sugs # None /\ (m.sugs = {} \/ m.sug \in m.sugs)
      [] pane = "ProposalDetail" -> ProposalAuthentic(m)
      [] pane = "EpisodicSummaries" -> m.episodes # None /\ (m.episodes = {} \/ m.episode \in m.episodes)
      [] pane = "EpisodicDetail" -> SummaryAuthentic(m)
      [] pane = "Editor" -> EditorAuthentic(m)
      [] pane = "MutationReview" -> EditAuthentic(m)
      [] pane = "Confirmation" -> ConfirmedCommand(m) # None
      [] pane = "ProposalResolutionReview" -> ResolutionAuthentic(m)
      [] pane = "Result" -> TRUE

-----------------------------------------------------------------------------
(* Requests and answers. *)

\* begin_review_request: one review at a time.
MayRequestReview(m) == m.review = None /\ m.resolution = None /\ m.confirmation = None /\ ~m.registered
\* Every bump of the generation makes a confirmation that waits stale.
Bumped(m) ==
    [m EXCEPT !.confirmation = IF @ = None THEN None ELSE [@ EXCEPT !.fresh = FALSE]]
ReviewRequested(m) == [Bumped(m) EXCEPT !.intent = None]
BegunPending(m, intent) == [Bumped(m) EXCEPT !.intent = intent]

\* apply_matching_view, the views that answer a read.  `view' is what the
\* runtime sent: whose memory it is and what it holds.
ReadMatches(m, intent, view) ==
    /\ m.bound = view.by
    /\ intent.what \in {"detail", "history", "version", "proposal", "summary"} =>
           intent.key = view.key

\* apply_matching_view, the view that answers a confirmed command.
ResultMatches(m, intent, view) ==
    LET command == ConfirmedCommand(m) IN
    /\ command # None
    /\ view.key = IF intent.what = "mutation" THEN [op |-> command.op, n |-> command.n]
                  ELSE [op |-> command.choice, n |-> command.s]

Hydrated(m, intent, view, row) ==
    LET cleared == [m EXCEPT !.intent = None]
    IN CASE intent.what = "entries" -> WithRow([cleared EXCEPT !.rows = view.rows], row)
         [] intent.what = "detail" -> [cleared EXCEPT !.detail = view.item]
         [] intent.what = "history" ->
                WithPast([cleared EXCEPT !.history = view.item], row)
         [] intent.what = "version" -> [cleared EXCEPT !.version = view.item]
         [] intent.what = "proposals" -> WithSug([cleared EXCEPT !.sugs = view.rows], row)
         [] intent.what = "proposal" -> [cleared EXCEPT !.proposal = view.item]
         [] intent.what = "episodes" -> WithEpisode([cleared EXCEPT !.episodes = view.rows], row)
         [] intent.what = "summary" -> [cleared EXCEPT !.summary = view.item]
         [] OTHER -> cleared
=============================================================================
