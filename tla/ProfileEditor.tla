---------------------------- MODULE ProfileEditor ----------------------------
(***************************************************************************)
(* The draft of an agent, src/ui/profile_editor.rs: the form that both      *)
(* front ends put before the operator, the line interface step by step and  *)
(* the full-screen one field by field.  It knows nothing of the runtime: it  *)
(* asks for a review, and is told of one.  Every operator is a method: it    *)
(* takes the editor and gives it back.                                      *)
(*                                                                         *)
(* What a field says is "old", as the form was opened, "new", or "blank",   *)
(* which the form's check refuses.  A draft holds the fields that a session  *)
(* touches (EditedFields); the others stay as they were.                    *)
(***************************************************************************)
LOCAL INSTANCE Naturals
LOCAL INSTANCE Sequences

CONSTANTS
    Nothing,        \* the absent value
    EditedFields    \* bound: the fields that a session changes

Steps == <<"template", "identity", "specialty", "personality", "instructions",
           "optional_bindings", "review">>
StepNames == {Steps[i] : i \in DOMAIN Steps}

\* The fields of each step; the step of identity shows its two one by one.
FieldsOf(step) ==
    CASE step = "template" -> {"role"}
      [] step = "identity" -> {"display name", "description"}
      [] step = "specialty" -> {"specialty", "tags"}
      [] step \in {"personality", "instructions"} -> {step}
      [] step = "optional_bindings" -> {"bindings"}
      [] OTHER -> {}

StepOf(field) == CHOOSE step \in StepNames : field \in FieldsOf(step)
TextFields == {"display name", "description", "specialty", "tags", "personality", "instructions"}
MayBeBlank == {"description", "tags", "role", "bindings"}

Fields == UNION {FieldsOf(step) : step \in StepNames}

Untouched == [f \in EditedFields |-> "old"]

\* for_create and for_edit
Draft(mode, of, expected) ==
    [mode |-> mode, of |-> of, expected |-> expected, step |-> "template", second |-> FALSE,
     draft |-> Untouched, bad |-> {}, review |-> Nothing, awaited |-> FALSE]
ForCreate == Draft("create", Nothing, 0)
ForEdit(p, v) == Draft("edit", p, v)

-----------------------------------------------------------------------------
\* A slip: what was asked for is forgotten, what was answered is not.
FaultyNoReview(e) == [e EXCEPT !.awaited = FALSE]

\* invalidate_review
NoReview(e) == [e EXCEPT !.review = Nothing, !.awaited = FALSE]

\* is_valid: no field shows a text it could not take, and the draft as a whole
\* is sound.
IsValid(e) == e.bad = {} /\ \A f \in EditedFields \ MayBeBlank : e.draft[f] # "blank"

\* validate_current: the field, or fields, of the step that is shown.
StepFields(e) ==
    IF e.step = "identity" THEN IF e.second THEN {"description"} ELSE {"display name"}
    ELSE FieldsOf(e.step)
ValidStep(e) ==
    \A f \in (StepFields(e) \cap EditedFields) \ MayBeBlank : e.draft[f] # "blank"

\* A step's own text field takes a line; the tags have their own commands.
LineField(e) == StepFields(e) \ {"tags", "role", "bindings"}

-----------------------------------------------------------------------------
(* The form line by line. *)

\* submit_text: a line replaces the text of the step, or is added to it.
\* Lines that say what the draft says already keep the review.
SubmitText(e, says) ==
    LET field == CHOOSE f \in LineField(e) : TRUE
        repaired == [e EXCEPT !.bad = @ \ {field}]
    IN IF LineField(e) \cap EditedFields = {} THEN e
       ELSE IF e.draft[field] = says THEN repaired
       ELSE NoReview([repaired EXCEPT !.draft[field] = says])

\* next, through advance_after_validation
Forward(e) ==
    LET at == CHOOSE i \in 1 .. Len(Steps) : Steps[i] = e.step
    IN CASE e.step = "review" \/ ~ValidStep(e) -> e
         [] e.step = "identity" /\ ~e.second -> [e EXCEPT !.second = TRUE]
         [] OTHER -> [e EXCEPT !.step = Steps[at + 1], !.second = FALSE]

\* back: going back drops what was reviewed.
Backward(e) ==
    LET at == CHOOSE i \in 1 .. Len(Steps) : Steps[i] = e.step
    IN IF e.step = "template" THEN e
       ELSE [NoReview(e) EXCEPT !.step = Steps[at - 1], !.second = (e.step = "specialty")]

\* clear_current
ClearCurrent(e) ==
    LET fields == (StepFields(e) \ {"tags", "role"}) \cap EditedFields
        field == CHOOSE f \in fields : TRUE
        cleared == IF field = "bindings" THEN "old" ELSE "blank"
    IN IF fields = {} THEN e ELSE
       LET repaired == [e EXCEPT !.bad = @ \ {field}]
       IN IF e.draft[field] = cleared THEN repaired
          ELSE NoReview([repaired EXCEPT !.draft[field] = cleared])

\* set_role, add_tag and remove_tag, at their own step
SetRole(e, says) ==
    IF e.step # "template" \/ "role" \notin EditedFields \/ e.draft["role"] = says THEN e
    ELSE NoReview([e EXCEPT !.draft["role"] = says])
ChangeTags(e, says) ==
    IF e.step # "specialty" \/ "tags" \notin EditedFields \/ e.draft["tags"] = says THEN e
    ELSE NoReview([e EXCEPT !.draft["tags"] = says, !.bad = @ \ {"tags"}])

-----------------------------------------------------------------------------
(* The form field by field. *)

\* select_tui_field: nothing of the draft changes.
SelectField(e, field) ==
    [e EXCEPT !.step = StepOf(field), !.second = (field = "description")]
SelectReview(e) == [e EXCEPT !.step = "review", !.second = FALSE]

\* A slip: a text that is taken leaves the review where it is.
FaultySetField(e, field, says, taken) ==
    IF taken THEN [e EXCEPT !.draft[field] = says, !.bad = @ \ {field}]
    ELSE NoReview([e EXCEPT !.bad = @ \cup {field}])

\* set_tui_field: a text the field cannot take is shown, with the draft as it
\* was; either way the review is gone.
SetField(e, field, says, taken) ==
    IF taken THEN NoReview([e EXCEPT !.draft[field] = says, !.bad = @ \ {field}])
    ELSE NoReview([e EXCEPT !.bad = @ \cup {field}])

\* select_tui_role
SelectRole(e, says) ==
    IF e.draft["role"] = says THEN e ELSE NoReview([e EXCEPT !.draft["role"] = says])

\* select_template: a new start, while the form still shows its templates.
SelectTemplate(e) ==
    IF e.mode = "create" /\ e.step = "template"
    THEN NoReview([e EXCEPT !.draft = Untouched, !.bad = {}, !.second = FALSE])
    ELSE e

-----------------------------------------------------------------------------
(* The review, and what may be executed. *)

\* request_review: an edit asks for a preview of the draft as it is.
AsksForPreview(e) == e.step = "review" /\ IsValid(e) /\ e.mode = "edit"
PreviewAsked(e) == [NoReview(e) EXCEPT !.awaited = TRUE]

\* apply_preview: what comes for another draft is not kept.
ApplyPreview(e, review) ==
    IF e.mode # "edit" \/ ~e.awaited \/ e.step # "review" THEN e
    ELSE IF review.of # e.of \/ review.expected # e.expected THEN NoReview(e)
    ELSE [e EXCEPT !.review = review, !.awaited = FALSE]

\* create and activate: the command names the draft and, for an edit, the
\* review that it was shown.
MayCreate(e) == e.mode = "create" /\ e.step = "review" /\ IsValid(e)
MayActivate(e) == e.mode = "edit" /\ e.step = "review" /\ IsValid(e) /\ e.review # Nothing
CommandOf(e) == [mode |-> e.mode, of |-> e.of, expected |-> e.expected, draft |-> e.draft,
                 review |-> e.review]
=============================================================================
