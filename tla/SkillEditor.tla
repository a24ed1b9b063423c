----------------------------- MODULE SkillEditor -----------------------------
(***************************************************************************)
(* The draft of a skill, src/ui/skill_editor.rs, as the full-screen         *)
(* terminal uses it, field by field.  Every operator is a method: it takes  *)
(* the editor and gives it back.                                           *)
(*                                                                         *)
(* What a field says is "old", as the form was opened, "new", or "bad", a    *)
(* text that a skill may not have: the form keeps it all the same.  The     *)
(* reference notes of the skill are one of the fields; the note that is     *)
(* being written is apart from them until it is put in.                     *)
(***************************************************************************)
EXTENDS Naturals

CONSTANTS
    Nothing,        \* the absent value
    EditedFields    \* bound: the fields that a session changes

TextFields == {"display name", "purpose", "use when", "tags", "instructions"}
DraftFields == TextFields \cup {"references"}

\* for_create and for_version; a skill that starts from nothing has no texts.
Opened(mode, of, expected, seeded) ==
    [mode |-> mode, of |-> of, expected |-> expected, field |-> "display name",
     draft |-> [f \in EditedFields |-> IF seeded \/ f \in {"references", "tags"} THEN "old" ELSE "bad"],
     note |-> "none", review |-> Nothing, awaited |-> FALSE]
ForCreate(seeded) == Opened("create", Nothing, 0, seeded)
ForVersion(s, v) == Opened("version", s, v, TRUE)

-----------------------------------------------------------------------------
\* clear_review
NoReview(e) == [e EXCEPT !.review = Nothing, !.awaited = FALSE]

\* try_draft
IsValid(e) == \A f \in EditedFields : e.draft[f] # "bad"
\* has_pending_reference: a note just begun, with nothing in it, does not count.
NotePending(e) == e.note \notin {"none", "empty"}

\* set_tui_field: another text discards what was reviewed.
SetField(e, f, says) ==
    IF e.draft[f] = says THEN e ELSE [NoReview(e) EXCEPT !.draft[f] = says]

\* select_tui_field: nothing of the draft, and nothing of the review, changes.
SelectField(e, f) == [e EXCEPT !.field = f]

-----------------------------------------------------------------------------
(* Notes. *)

\* begin_add_reference and begin_edit_selected_reference: a note that is not
\* finished is taken up again, never replaced.
OpenNote(e, what) ==
    [e EXCEPT !.note = IF NotePending(e) THEN @ ELSE IF what = "add" THEN "empty" ELSE "edited",
              !.field = "reference name"]
\* set_tui_field of a note's name or body
WriteNote(e) == [NoReview(e) EXCEPT !.note = IF @ = "empty" THEN "added" ELSE @]
\* commit_tui_reference: the note goes in as a whole, or stays as it is.
PutNote(e, taken) ==
    IF ~taken THEN e
    ELSE [NoReview(e) EXCEPT !.draft["references"] = "new", !.note = "none", !.field = "reference name"]
\* remove_selected_reference
RemoveNote(e) ==
    IF NotePending(e) THEN e ELSE [NoReview(e) EXCEPT !.draft["references"] = "new"]

-----------------------------------------------------------------------------
(* The review. *)

\* go_to_review
MayReview(e) == ~NotePending(e) /\ IsValid(e)
AtReview(e) == [e EXCEPT !.field = "review"]

\* submit_review: the command, if there is a review to execute, or a preview of
\* the draft.  A new request is the only one that is waited for.
MayExecute(e) == MayReview(e) /\ e.review # Nothing
CommandOf(e) == [op |-> e.mode, s |-> e.of, expected |-> e.expected, draft |-> e.draft,
                 review |-> e.review]
PreviewAsked(e) == [e EXCEPT !.awaited = TRUE]

\* apply_preview
Fits(e, review) == e.awaited /\ review.op = e.mode /\ review.s = e.of /\ review.expected = e.expected
Previewed(e, review) ==
    IF Fits(e, review) THEN [e EXCEPT !.awaited = FALSE, !.review = review] ELSE e

=============================================================================
