----------------------------- MODULE LineProofs -----------------------------
(***************************************************************************)
(* What holds of the line interface for any keys of the memory, any fields  *)
(* of an agent, any versions and any sessions, whatever fails at whatever   *)
(* line.                                                                    *)
(*                                                                         *)
(* The argument: every line that is served leaves behind a workflow that is *)
(* sound and the reviews that fit it, or ends the loop (Kept).  Reviews fit *)
(* a workflow when the cancellation of that workflow names them all; this   *)
(* needs more than ReviewsAgree says, for the confirmation of a new agent   *)
(* cancels nothing: the form of a new agent has no review (Named).          *)
(***************************************************************************)
EXTENDS Line, TLAPS

(* A form shows a review only of what it says. *)
Faithful(e) == e \in Forms /\ (e.review # None => e.review.draft = e.draft)

(* An edit of a form: its agent stays what it is. *)
Keeps(e, form) == Faithful(form) /\ form.mode = e.mode

StepNames == {"template", "identity", "specialty", "personality", "instructions",
              "optional_bindings", "review"}

-----------------------------------------------------------------------------
(* The form of an agent *)

LEMMA StepsAre ==
  /\ \A i \in 1 .. 7 : E!Steps[i] \in StepNames
  /\ Len(E!Steps) = 7
  /\ {E!Steps[i] : i \in 1 .. 7} = StepNames
  /\ E!Steps[1] = "template" /\ E!Steps[7] = "review"
<1>1. Len(E!Steps) = 7
  BY DEF E!Steps
<1>2. /\ E!Steps[1] = "template" /\ E!Steps[2] = "identity" /\ E!Steps[3] = "specialty"
      /\ E!Steps[4] = "personality" /\ E!Steps[5] = "instructions"
      /\ E!Steps[6] = "optional_bindings" /\ E!Steps[7] = "review"
  BY DEF E!Steps
<1>3. \A i \in 1 .. 7 : i \in {1, 2, 3, 4, 5, 6, 7}
  OBVIOUS
<1>4. \A i \in 1 .. 7 : E!Steps[i] \in StepNames
  BY <1>2, <1>3 DEF StepNames
<1>5. \A name \in StepNames : \E i \in 1 .. 7 : E!Steps[i] = name
  BY <1>2 DEF StepNames
<1> QED
  BY <1>1, <1>2, <1>4, <1>5

LEMMA FormIs ==
  ASSUME NEW e \in Forms
  PROVE  /\ e.mode \in {"create", "edit"} /\ e.of \in {"agent", None} /\ e.expected \in Nat
         /\ e.step \in StepNames /\ e.second \in BOOLEAN /\ e.draft \in Drafts
         /\ e.bad \in SUBSET EditedFields /\ e.review \in AgentReviews \cup {None}
         /\ e.awaited \in BOOLEAN
BY StepsAre DEF Forms

(* What the methods of the form are made of *)
LEMMA NoReviewKeeps ==
  ASSUME NEW e \in Forms
  PROVE  /\ Keeps(e, E!NoReview(e)) /\ E!NoReview(e).step = e.step
         /\ E!NoReview(e).draft = e.draft /\ E!NoReview(e).review = None
<1> DEFINE bare == [e EXCEPT !.review = None]
           form == [bare EXCEPT !.awaited = FALSE]
<1>1. bare \in Forms /\ bare.mode = e.mode /\ bare.review = None /\ bare.draft = e.draft
      /\ bare.step = e.step
  BY DEF Forms
<1> HIDE DEF bare
<1>2. form \in Forms /\ form.mode = bare.mode /\ form.review = bare.review
      /\ form.draft = bare.draft /\ form.step = bare.step
  BY <1>1 DEF Forms
<1>3. E!NoReview(e) = form
  BY DEF E!NoReview, bare
<1> HIDE DEF form
<1> QED
  BY <1>1, <1>2, <1>3 DEF Keeps, Faithful

LEMMA RepairKeeps ==
  ASSUME NEW e, Faithful(e), NEW field
  PROVE  Keeps(e, [e EXCEPT !.bad = @ \ {field}])
<1> DEFINE form == [e EXCEPT !.bad = @ \ {field}]
<1>1. form \in Forms /\ form.mode = e.mode /\ form.review = e.review /\ form.draft = e.draft
  BY DEF Forms, Faithful
<1> HIDE DEF form
<1>2. Keeps(e, form)
  BY <1>1 DEF Keeps, Faithful
<1> QED
  BY <1>2 DEF form

LEMMA SaysKeeps ==
  ASSUME NEW e \in Forms, NEW field, NEW says \in {"old", "new", "blank"}
  PROVE  Keeps(e, E!NoReview([e EXCEPT !.draft[field] = says]))
<1> DEFINE draft == [e.draft EXCEPT ![field] = says]
           form == [e EXCEPT !.draft = draft]
<1>1. draft \in Drafts
  BY FormIs DEF Drafts
<1> HIDE DEF draft
<1>2. form \in Forms /\ form.mode = e.mode
  BY <1>1 DEF Forms
<1>3. form = [e EXCEPT !.draft[field] = says]
  BY DEF draft
<1> HIDE DEF form
<1>4. Keeps(form, E!NoReview(form))
  BY <1>2, NoReviewKeeps
<1>5. Keeps(e, E!NoReview(form))
  BY <1>2, <1>4 DEF Keeps
<1> QED
  BY <1>3, <1>5

LEMMA StepKeeps ==
  ASSUME NEW e, Faithful(e), NEW step \in StepNames, NEW second \in BOOLEAN,
         NEW form, form = [e EXCEPT !.step = step, !.second = second]
  PROVE  Keeps(e, form)
<1> DEFINE there == [e EXCEPT !.step = step]
<1>1. there \in Forms /\ there.mode = e.mode /\ there.review = e.review /\ there.draft = e.draft
  BY StepsAre DEF Forms, Faithful
<1>2. form = [there EXCEPT !.second = second]
  OBVIOUS
<1> HIDE DEF there
<1>3. form \in Forms /\ form.mode = there.mode /\ form.review = there.review
      /\ form.draft = there.draft
  BY <1>1, <1>2 DEF Forms
<1> QED
  BY <1>1, <1>3 DEF Keeps, Faithful

LEMMA SubmitTextKeeps ==
  ASSUME NEW e, Faithful(e), NEW says \in {"old", "new"}
  PROVE  Keeps(e, E!SubmitText(e, says))
<1> DEFINE field == CHOOSE f \in E!LineField(e) : TRUE
           repaired == [e EXCEPT !.bad = @ \ {field}]
<1>1. Keeps(e, repaired) /\ repaired \in Forms /\ repaired.mode = e.mode
  BY RepairKeeps DEF Keeps, Faithful
<1>2. Keeps(e, e)
  BY DEF Keeps
<1> HIDE DEF repaired
<1>3. Keeps(repaired, E!NoReview([repaired EXCEPT !.draft[field] = says]))
  BY <1>1, SaysKeeps
<1>4. Keeps(e, E!NoReview([repaired EXCEPT !.draft[field] = says]))
  BY <1>1, <1>3 DEF Keeps
<1>5. \/ E!SubmitText(e, says) = e
      \/ E!SubmitText(e, says) = repaired
      \/ E!SubmitText(e, says) = E!NoReview([repaired EXCEPT !.draft[field] = says])
  BY DEF E!SubmitText, repaired
<1> QED
  BY <1>1, <1>2, <1>4, <1>5

LEMMA ClearCurrentKeeps ==
  ASSUME NEW e, Faithful(e)
  PROVE  Keeps(e, E!ClearCurrent(e))
<1> DEFINE field == CHOOSE f \in (E!StepFields(e) \ {"tags", "role"}) \cap EditedFields : TRUE
           cleared == IF field = "bindings" THEN "old" ELSE "blank"
           repaired == [e EXCEPT !.bad = @ \ {field}]
<1>1. Keeps(e, repaired) /\ repaired \in Forms /\ repaired.mode = e.mode
  BY RepairKeeps DEF Keeps, Faithful
<1>2. Keeps(e, e)
  BY DEF Keeps
<1>3. cleared \in {"old", "new", "blank"}
  OBVIOUS
<1>4. \/ E!ClearCurrent(e) = e
      \/ E!ClearCurrent(e) = repaired
      \/ E!ClearCurrent(e) = E!NoReview([repaired EXCEPT !.draft[field] = cleared])
  BY DEF E!ClearCurrent
<1> HIDE DEF repaired, cleared
<1>5. Keeps(repaired, E!NoReview([repaired EXCEPT !.draft[field] = cleared]))
  BY <1>1, <1>3, SaysKeeps
<1>6. Keeps(e, E!NoReview([repaired EXCEPT !.draft[field] = cleared]))
  BY <1>1, <1>5 DEF Keeps
<1> QED
  BY <1>1, <1>2, <1>4, <1>6

LEMMA SetRoleKeeps ==
  ASSUME NEW e, Faithful(e), NEW says \in {"old", "new"}
  PROVE  Keeps(e, E!SetRole(e, says))
<1>1. Keeps(e, E!NoReview([e EXCEPT !.draft["role"] = says]))
  BY SaysKeeps DEF Faithful
<1>2. E!SetRole(e, says) \in {e, E!NoReview([e EXCEPT !.draft["role"] = says])}
  BY DEF E!SetRole
<1> QED
  BY <1>1, <1>2 DEF Keeps

LEMMA ChangeTagsKeeps ==
  ASSUME NEW e, Faithful(e), NEW says \in {"old", "new"}
  PROVE  Keeps(e, E!ChangeTags(e, says))
<1> DEFINE draft == [e.draft EXCEPT !["tags"] = says]
           bad == e.bad \ {"tags"}
           said == [e EXCEPT !.draft["tags"] = says]
           form == [e EXCEPT !.draft["tags"] = says, !.bad = @ \ {"tags"}]
<1>1. draft \in Drafts /\ bad \in SUBSET EditedFields
  BY FormIs DEF Drafts, Faithful
<1> HIDE DEF draft, bad
<1>2. said = [e EXCEPT !.draft = draft]
  BY DEF draft
<1> HIDE DEF said
<1>3. said \in Forms /\ said.mode = e.mode /\ said.bad = e.bad
  BY <1>1, <1>2 DEF Forms, Faithful
<1>4. form = [said EXCEPT !.bad = bad]
  BY <1>3 DEF said, bad, Forms, Faithful
<1> HIDE DEF form
<1>5. form \in Forms /\ form.mode = e.mode
  BY <1>1, <1>3, <1>4 DEF Forms
<1>6. Keeps(e, E!NoReview(form))
  BY <1>5, NoReviewKeeps DEF Keeps
<1>7. E!ChangeTags(e, says) \in {e, E!NoReview(form)}
  BY DEF E!ChangeTags, form
<1> QED
  BY <1>6, <1>7 DEF Keeps

LEMMA ForwardKeeps ==
  ASSUME NEW e, Faithful(e)
  PROVE  Keeps(e, E!Forward(e))
<1> DEFINE at == CHOOSE i \in 1 .. Len(E!Steps) : E!Steps[i] = e.step
           second == [e EXCEPT !.second = TRUE]
           further == [e EXCEPT !.step = E!Steps[at + 1], !.second = FALSE]
<1>1. e.step # "review" => at \in 1 .. 6
  <2>1. \E i \in 1 .. 7 : E!Steps[i] = e.step
    BY StepsAre, FormIs DEF Faithful
  <2>2. at \in 1 .. 7 /\ E!Steps[at] = e.step
    BY <2>1, StepsAre
  <2> QED
    BY <2>2, StepsAre
<1>2. E!Forward(e) \in {e, second} \/ (e.step # "review" /\ E!Forward(e) = further)
  BY DEF E!Forward
<1>3. Keeps(e, e)
  BY DEF Keeps
<1>4. Keeps(e, second)
  <2>1. second \in Forms /\ second.mode = e.mode /\ second.review = e.review
        /\ second.draft = e.draft
    BY DEF Forms, Faithful
  <2> HIDE DEF second
  <2> QED
    BY <2>1 DEF Keeps, Faithful
<1> HIDE DEF at
<1>5. e.step # "review" => Keeps(e, further)
  <2> SUFFICES ASSUME e.step # "review" PROVE Keeps(e, further)
    OBVIOUS
  <2>1. E!Steps[at + 1] \in StepNames
    BY <1>1, StepsAre
  <2>2. PICK step : step = E!Steps[at + 1]
    OBVIOUS
  <2>3. further = [e EXCEPT !.step = step, !.second = FALSE]
    BY <2>2
  <2> QED
    BY <2>1, <2>2, <2>3, StepKeeps
<1> QED
  BY <1>2, <1>3, <1>4, <1>5

LEMMA BackwardKeeps ==
  ASSUME NEW e, Faithful(e)
  PROVE  Keeps(e, E!Backward(e))
<1> DEFINE at == CHOOSE i \in 1 .. Len(E!Steps) : E!Steps[i] = e.step
           bare == E!NoReview(e)
           back == [bare EXCEPT !.step = E!Steps[at - 1], !.second = (e.step = "specialty")]
<1>1. e.step # "template" => at \in 2 .. 7
  <2>1. \E i \in 1 .. 7 : E!Steps[i] = e.step
    BY StepsAre, FormIs DEF Faithful
  <2>2. at \in 1 .. 7 /\ E!Steps[at] = e.step
    BY <2>1, StepsAre
  <2> QED
    BY <2>2, StepsAre
<1>2. E!Backward(e) = IF e.step = "template" THEN e ELSE back
  BY DEF E!Backward
<1>3. Keeps(e, e)
  BY DEF Keeps
<1>4. Keeps(e, bare) /\ Faithful(bare)
  BY NoReviewKeeps DEF Keeps, Faithful
<1> HIDE DEF at, bare
<1>5. e.step # "template" => Keeps(e, back)
  <2> SUFFICES ASSUME e.step # "template" PROVE Keeps(e, back)
    OBVIOUS
  <2>1. E!Steps[at - 1] \in StepNames
    <3>1. at - 1 \in 1 .. 7
      BY <1>1
    <3> QED
      BY <3>1, StepsAre
  <2>2. PICK step, second : step = E!Steps[at - 1] /\ second = (e.step = "specialty")
    OBVIOUS
  <2>3. back = [bare EXCEPT !.step = step, !.second = second] /\ second \in BOOLEAN
    BY <2>2
  <2>4. Keeps(bare, back)
    BY <2>1, <2>2, <2>3, <1>4, StepKeeps
  <2> QED
    BY <1>4, <2>4 DEF Keeps
<1> QED
  BY <1>2, <1>3, <1>5

LEMMA PreviewAskedKeeps ==
  ASSUME NEW e \in Forms
  PROVE  /\ Keeps(e, E!PreviewAsked(e)) /\ E!PreviewAsked(e).draft = e.draft
         /\ E!PreviewAsked(e).review = None
<1> DEFINE bare == E!NoReview(e)
           asked == [bare EXCEPT !.awaited = TRUE]
<1>1. /\ bare \in Forms /\ bare.mode = e.mode /\ bare.draft = e.draft /\ bare.review = None
      /\ E!PreviewAsked(e) = asked
  BY NoReviewKeeps DEF Keeps, Faithful, E!PreviewAsked
<1> HIDE DEF bare
<1>2. asked \in Forms /\ asked.mode = e.mode /\ asked.draft = e.draft /\ asked.review = None
  BY <1>1 DEF Forms
<1> HIDE DEF asked
<1> QED
  BY <1>1, <1>2 DEF Keeps, Faithful

(* A review is kept only with the draft it was asked for. *)
LEMMA ApplyPreviewKeeps ==
  ASSUME NEW e \in Forms, e.review = None, NEW review \in AgentReviews, review.draft = e.draft
  PROVE  Keeps(e, E!ApplyPreview(e, review))
<1> DEFINE shown == [e EXCEPT !.review = review]
           form == [e EXCEPT !.review = review, !.awaited = FALSE]
<1>1. shown \in Forms /\ shown.mode = e.mode /\ shown.draft = e.draft /\ shown.review = review
  BY DEF Forms
<1>2. form = [shown EXCEPT !.awaited = FALSE]
  OBVIOUS
<1> HIDE DEF shown, form
<1>3. form \in Forms /\ form.mode = e.mode /\ form.draft = e.draft /\ form.review = review
  BY <1>1, <1>2 DEF Forms
<1>4. Keeps(e, form)
  BY <1>3 DEF Keeps, Faithful
<1>5. E!ApplyPreview(e, review) \in {e, E!NoReview(e), form}
  BY DEF E!ApplyPreview, form
<1>6. Keeps(e, e) /\ Keeps(e, E!NoReview(e))
  BY NoReviewKeeps DEF Keeps, Faithful
<1> QED
  BY <1>4, <1>5, <1>6

LEMMA NewForms ==
  ASSUME NEW v \in Nat
  PROVE  /\ Faithful(E!ForCreate) /\ E!ForCreate.mode = "create"
         /\ Faithful(E!ForEdit("agent", v)) /\ E!ForEdit("agent", v).mode = "edit"
<1>1. E!Untouched \in Drafts /\ "template" \in {E!Steps[i] : i \in 1 .. 7}
  BY StepsAre DEF E!Untouched, Drafts, StepNames
<1> QED
  BY <1>1 DEF E!ForCreate, E!ForEdit, E!Draft, Faithful, Forms

-----------------------------------------------------------------------------
(* What is under way *)

Kinds == {"memory", "skill", "profile"}

MemoryIsSound(f) ==
    /\ f \in MemoryFlows
    /\ f.review = None \/ f.review.op = "set" => f.editor # None

SkillIsSound(f) ==
    /\ f \in SkillFlows
    /\ f.draft = "none" => f.command # None /\ f.command.op # "create"

(* The form comes with its place, and a command says what the form says. *)
ProfileIsSound(f) ==
    /\ f \in ProfileFlows
    /\ f.at = "templates" <=> f.editor = None
    /\ f.at = "confirming" <=> f.command # None
    /\ f.editor # None => Faithful(f.editor)
    /\ f.command # None =>
         /\ f.command.mode = f.editor.mode
         /\ f.command.mode = "edit" => f.command.review # None /\ f.command.review.draft = f.editor.draft

Sound(f) == f = None \/ MemoryIsSound(f) \/ SkillIsSound(f) \/ ProfileIsSound(f)

Reviewing(f) == f # None /\ f.kind = "memory" /\ f.review # None

Asking(f) == f # None /\ f.kind = "skill" /\ f.command # None

(* What of the reviews the next cancellation of f names; a form that makes  *)
(* a new agent has none.                                                    *)
Named(f) ==
    (IF Reviewing(f) THEN {"memory"} ELSE {})
      \cup (IF f # None /\ f.kind = "skill" THEN {"skill"} ELSE {})
      \cup (IF f # None /\ f.kind = "profile" /\ f.editor # None /\ f.editor.mode = "edit"
            THEN {"profile"} ELSE {})

Agree(f, reg, reviews, unsure) ==
    /\ reg \in BOOLEAN
    /\ reg <=> Reviewing(f)
    /\ Reviewing(f) => "memory" \in reviews
    /\ Asking(f) => "skill" \in reviews
    /\ reviews \subseteq Named(f) \cup (IF unsure THEN {"skill"} ELSE {})

Stores ==
    [notes : [Keys -> Notes], sug : {"none", "pending", "accepted", "rejected"}, agent : Nat,
     skill : Nat, pinned : Nat]

Ends == {"serving", "quit", "interrupted", "closed", "failed", "misfit"}

Hosts ==
    [at : {"loop", "left", "cleaned", "finished"}, body : Ends, unsure : BOOLEAN,
     sloppy : BOOLEAN, returned : Ends \cup {"error", None}]

IInv ==
    /\ store \in Stores
    /\ host \in Hosts
    /\ Sound(flow)
    /\ Serving => Agree(flow, registered, held, host.unsure)

(* What a line may leave behind when it is served *)
Fits(f, reg, reviews) == Sound(f) /\ Agree(f, reg, reviews, host.unsure)

Kept == host' \in Hosts /\ Sound(flow') /\ (Serving' => Agree(flow', registered', held', host'.unsure))

LEMMA LeaveKeeps ==
  ASSUME host \in Hosts, Sound(flow'), NEW why \in Ends, Leave(why)
  PROVE  Kept /\ ~Serving'
<1> DEFINE left == [host EXCEPT !.at = "left"]
<1>2. left \in Hosts /\ left.at = "left"
  BY DEF Hosts
<1>3. host' = [left EXCEPT !.body = why]
  BY DEF Leave
<1> HIDE DEF left
<1>4. host' \in Hosts /\ host'.at = "left"
  BY <1>2, <1>3 DEF Hosts
<1> QED
  BY <1>4 DEF Kept, Serving

LEMMA GoesKeeps ==
  ASSUME host \in Hosts, NEW f, NEW reg, NEW reviews, Fits(f, reg, reviews), Goes(f, reg, reviews)
  PROVE  Kept
<1>1. CASE flow' = f /\ channel' = <<>> /\ UNCHANGED <<listening, host>>
  BY <1>1 DEF Kept, Fits, Goes, Serving
<1>2. CASE flow' \in {f, None} /\ Leave("failed")
  <2>1. Sound(flow')
    BY <1>2 DEF Fits, Sound
  <2> QED
    BY <1>2, <2>1, LeaveKeeps DEF Ends
<1> QED
  BY <1>1, <1>2 DEF Goes

LEMMA BreaksKeeps ==
  ASSUME host \in Hosts, NEW why \in Ends, NEW reg, NEW reviews, Breaks(why, reg, reviews)
  PROVE  Kept
BY LeaveKeeps DEF Breaks, Sound

LEMMA ShutdownKeeps ==
  ASSUME host \in Hosts, NEW reviews, Fits(None, FALSE, reviews), Shutdown(reviews)
  PROVE  Kept
<1>1. Sound(flow') /\ flow' = None /\ registered' = FALSE /\ held' = reviews
  BY DEF Shutdown, Sound
<1>2. CASE channel' = <<>> /\ UNCHANGED <<listening, host>>
  BY <1>1, <1>2 DEF Kept, Fits
<1>3. CASE Leave("quit") \/ Leave("failed")
  BY <1>1, <1>3, LeaveKeeps DEF Ends
<1> QED
  BY <1>2, <1>3 DEF Shutdown

-----------------------------------------------------------------------------
(* Lines of the memory workflow *)

(* IInv, with no word of what is not under way *)
LEMMA Underway ==
  ASSUME IInv, Serving
  PROVE  /\ host \in Hosts /\ store \in Stores /\ Sound(flow)
         /\ Fits(flow, registered, held)
BY DEF IInv, Fits

LEMMA NothingUnderway ==
  ASSUME IInv, Serving, flow = None
  PROVE  /\ registered = FALSE
         /\ held \subseteq (IF host.unsure THEN {"skill"} ELSE {})
         /\ Fits(None, registered, held)
BY DEF IInv, Fits, Agree, Reviewing, Asking, Named

LEMMA MemoryFlowIs ==
  ASSUME NEW f \in MemoryFlows
  PROVE  f # None /\ f.kind = "memory" /\ f.editor \in MemoryDrafts \cup {None}
         /\ f.review \in MemoryReviews \cup {None} /\ f.asked \in BOOLEAN
BY NoneIsNothing DEF MemoryFlows

LEMMA SkillFlowIs ==
  ASSUME NEW f \in SkillFlows
  PROVE  f # None /\ f.kind = "skill" /\ f.draft \in Says \cup {"empty", "none"}
         /\ f.command \in SkillCommands \cup {None}
BY NoneIsNothing DEF SkillFlows

LEMMA ProfileFlowIs ==
  ASSUME NEW f \in ProfileFlows
  PROVE  f # None /\ f.kind = "profile" /\ f.at \in {"templates", "editing", "confirming"}
         /\ f.editor \in Forms \cup {None} /\ f.command \in AgentCommands \cup {None}
BY NoneIsNothing DEF ProfileFlows

LEMMA InMemoryIs ==
  ASSUME IInv, Serving, InMemory
  PROVE  /\ flow \in MemoryFlows /\ MemoryIsSound(flow)
         /\ registered <=> flow.review # None
         /\ registered \in BOOLEAN
         /\ "memory" \in held <=> flow.review # None
         /\ held \subseteq {"memory"} \cup (IF host.unsure THEN {"skill"} ELSE {})
<1>1. Sound(flow) /\ Agree(flow, registered, held, host.unsure)
  BY DEF IInv
<1>2. flow \in MemoryFlows /\ MemoryIsSound(flow)
  BY <1>1, SkillFlowIs, ProfileFlowIs DEF Sound, InMemory, MemoryIsSound, SkillIsSound, ProfileIsSound
<1> QED
  BY <1>1, <1>2, MemoryFlowIs DEF Agree, Reviewing, Named

(* Nothing under way, or a memory workflow with no review: no review is     *)
(* registered but one whose cancellation failed.                            *)
LEMMA QuietFits ==
  ASSUME NEW f, NEW reviews, Sound(f), f = None \/ (f \in MemoryFlows /\ f.review = None),
         reviews \subseteq (IF host.unsure THEN {"skill"} ELSE {})
  PROVE  Fits(f, FALSE, reviews)
BY MemoryFlowIs DEF Fits, Agree, Reviewing, Asking, Named

LEMMA ReviewFits ==
  ASSUME NEW f, NEW reviews, MemoryIsSound(f), f.review # None, "memory" \in reviews,
         reviews \subseteq {"memory"} \cup (IF host.unsure THEN {"skill"} ELSE {})
  PROVE  Fits(f, TRUE, reviews)
<1>1. f \in MemoryFlows
  BY DEF MemoryIsSound
<1> QED
  BY <1>1, MemoryFlowIs DEF Fits, Sound, Agree, Reviewing, Asking, Named

LEMMA StoreIs ==
  ASSUME store \in Stores
  PROVE  /\ \A k \in Keys : Note(k) \in Notes /\ Note(k).v \in Nat /\ Note(k).live \in BOOLEAN
         /\ store.notes \in [Keys -> Notes] /\ store.agent \in Nat /\ store.skill \in Nat
         /\ store.pinned \in Nat
<1>1. store.notes \in [Keys -> Notes] /\ store.agent \in Nat /\ store.skill \in Nat
      /\ store.pinned \in Nat
  BY DEF Stores
<1>2. \A k \in Keys : Note(k) \in Notes
  BY <1>1 DEF Note
<1> QED
  BY <1>1, <1>2 DEF Notes

LEMMA StartSetKeeps ==
  ASSUME IInv, Serving, NEW k \in Keys, StartSet(k)
  PROVE  Kept
<1> DEFINE e == IF Note(k).live
                  THEN [MemoryEditor(k, "Value", Note(k).v) EXCEPT !.same = TRUE]
                  ELSE MemoryEditor(k, "Value", 0)
<1>1. flow = None /\ registered = FALSE /\ host \in Hosts /\ store \in Stores
      /\ held \subseteq (IF host.unsure THEN {"skill"} ELSE {})
  BY NothingUnderway, Underway DEF StartSet, Begins
<1>2. e \in MemoryDrafts
  BY <1>1, StoreIs DEF MemoryEditor, MemoryDrafts
<1>3. MemoryFlow(e, None, FALSE) \in MemoryFlows /\ MemoryFlow(e, None, FALSE).review = None
      /\ MemoryFlow(e, None, FALSE).editor = e
  BY <1>2 DEF MemoryFlow, MemoryFlows
<1>4. Fits(MemoryFlow(e, None, FALSE), FALSE, held)
  BY <1>1, <1>2, <1>3, QuietFits, NoneIsNothing DEF Sound, MemoryIsSound
<1>5. Fits(None, FALSE, held)
  BY <1>1, QuietFits DEF Sound
<1>6. Goes(MemoryFlow(e, None, FALSE), registered, held) \/ Goes(None, registered, held)
  BY DEF StartSet
<1> HIDE DEF e
<1> QED
  BY <1>1, <1>4, <1>5, <1>6, GoesKeeps

(* The draft of an entry *)
LEMMA DraftFits ==
  ASSUME IInv, Serving, Editing, NEW e \in MemoryDrafts, NEW f, f = [flow EXCEPT !.editor = e]
  PROVE  Fits(f, registered, held)
<1>1. /\ flow \in MemoryFlows /\ flow.review = None /\ registered = FALSE
      /\ held \subseteq (IF host.unsure THEN {"skill"} ELSE {})
  BY InMemoryIs DEF Editing
<1>2. f \in MemoryFlows /\ f.review = None /\ f.editor = e
  BY <1>1 DEF MemoryFlows
<1>3. Sound(f)
  BY <1>2, NoneIsNothing DEF Sound, MemoryIsSound
<1> QED
  BY <1>1, <1>2, <1>3, QuietFits

LEMMA DraftIs ==
  ASSUME IInv, Serving, Editing
  PROVE  /\ flow \in MemoryFlows /\ flow.editor \in MemoryDrafts /\ flow.review = None
         /\ registered = FALSE /\ host \in Hosts /\ store \in Stores
         /\ held \subseteq (IF host.unsure THEN {"skill"} ELSE {})
         /\ Fits(flow, registered, held) /\ Fits(None, registered, held)
<1>1. /\ flow \in MemoryFlows /\ MemoryIsSound(flow) /\ flow.review = None /\ registered = FALSE
      /\ held \subseteq (IF host.unsure THEN {"skill"} ELSE {})
  BY InMemoryIs DEF Editing
<1>2. flow.editor \in MemoryDrafts
  BY <1>1, MemoryFlowIs DEF MemoryIsSound
<1> QED
  BY <1>1, <1>2, Underway, QuietFits DEF Sound

LEMMA NameDraftKeeps ==
  ASSUME IInv, Serving, NEW k \in Keys, NameDraft(k)
  PROVE  Kept
<1> DEFINE named == [flow.editor EXCEPT !.key = k]
           e == [named EXCEPT !.step = "Value"]
           f == [flow EXCEPT !.editor.key = k, !.editor.step = "Value"]
<1>1. flow \in MemoryFlows /\ flow.editor \in MemoryDrafts /\ host \in Hosts /\ Editing
  BY DraftIs DEF NameDraft
<1>2. named \in MemoryDrafts
  BY <1>1 DEF MemoryDrafts
<1>3. f = [flow EXCEPT !.editor = e]
  BY <1>1 DEF MemoryFlows
<1> HIDE DEF named
<1>4. e \in MemoryDrafts
  BY <1>2 DEF MemoryDrafts
<1> HIDE DEF e
<1>5. Goes(f, registered, held)
  BY DEF NameDraft
<1> HIDE DEF f
<1>6. Fits(f, registered, held)
  BY <1>1, <1>3, <1>4, DraftFits
<1> QED
  BY <1>1, <1>5, <1>6, GoesKeeps

LEMMA WriteDraftKeeps ==
  ASSUME IInv, Serving, NEW same \in BOOLEAN, WriteDraft(same)
  PROVE  Kept
<1> DEFINE written == [flow.editor EXCEPT !.same = same]
           e == [written EXCEPT !.step = "PurposeTags"]
           f == [flow EXCEPT !.editor.same = same, !.editor.step = "PurposeTags"]
<1>1. flow \in MemoryFlows /\ flow.editor \in MemoryDrafts /\ host \in Hosts /\ Editing
  BY DraftIs DEF WriteDraft
<1>2. written \in MemoryDrafts
  BY <1>1 DEF MemoryDrafts
<1>3. f = [flow EXCEPT !.editor = e]
  BY <1>1 DEF MemoryFlows
<1> HIDE DEF written
<1>4. e \in MemoryDrafts
  BY <1>2 DEF MemoryDrafts
<1> HIDE DEF e
<1>5. Goes(f, registered, held)
  BY DEF WriteDraft
<1> HIDE DEF f
<1>6. Fits(f, registered, held)
  BY <1>1, <1>3, <1>4, DraftFits
<1> QED
  BY <1>1, <1>5, <1>6, GoesKeeps

LEMMA BackInDraftKeeps ==
  ASSUME IInv, Serving, BackInDraft
  PROVE  Kept
<1> DEFINE step == IF flow.editor.step = "Value" THEN "Key" ELSE "Value"
           e == [flow.editor EXCEPT !.step = step]
           f == [flow EXCEPT !.editor.step = step]
<1>1. flow \in MemoryFlows /\ flow.editor \in MemoryDrafts /\ host \in Hosts /\ Editing
      /\ Fits(None, registered, held)
  BY DraftIs DEF BackInDraft
<1>2. e \in MemoryDrafts
  BY <1>1 DEF MemoryDrafts
<1>3. f = [flow EXCEPT !.editor = e]
  BY <1>1 DEF MemoryFlows
<1>4. Goes(f, registered, held) \/ Goes(None, registered, held)
  BY DEF BackInDraft
<1> HIDE DEF e, f
<1>5. Fits(f, registered, held)
  BY <1>1, <1>2, <1>3, DraftFits
<1> QED
  BY <1>1, <1>4, <1>5, GoesKeeps

LEMMA SubmitTagsKeeps ==
  ASSUME IInv, Serving, SubmitTags
  PROVE  Kept
<1> DEFINE e == flow.editor
           review == [Review("set", e.key) EXCEPT !.same = e.same]
           f == MemoryFlow(e, review, FALSE)
<1>1. /\ e \in MemoryDrafts /\ host \in Hosts /\ store \in Stores /\ Fits(flow, registered, held)
      /\ held \subseteq (IF host.unsure THEN {"skill"} ELSE {})
  BY DraftIs DEF SubmitTags
<1>2. review \in MemoryReviews /\ review.op = "set"
  BY <1>1, StoreIs DEF Review, MemoryReviews, MemoryDrafts
<1> HIDE DEF review
<1>3. f \in MemoryFlows /\ f.review = review /\ f.editor = e
  BY <1>1, <1>2 DEF MemoryFlow, MemoryFlows
<1>4. MemoryIsSound(f) /\ f.review # None
  BY <1>1, <1>2, <1>3, NoneIsNothing DEF MemoryIsSound
<1> HIDE DEF f
<1>5. Fits(f, TRUE, held \cup {"memory"})
  BY <1>1, <1>4, ReviewFits
<1>6. \/ Goes(flow, registered, held)
      \/ \E reviews : Breaks("misfit", registered, reviews)
      \/ Goes(f, TRUE, held \cup {"memory"})
  BY DEF SubmitTags, f, review
<1>7. "misfit" \in Ends
  BY DEF Ends
<1> QED
  BY <1>1, <1>5, <1>6, <1>7, GoesKeeps, BreaksKeeps

LEMMA ReviewBegins ==
  ASSUME IInv, Serving, flow = None, NEW op \in {"delete", "approve", "reject"}, NEW k \in Keys
  PROVE  Fits(MemoryFlow(None, Review(op, k), FALSE), TRUE, held \cup {"memory"})
<1> DEFINE review == Review(op, k)
           f == MemoryFlow(None, review, FALSE)
<1>1. held \subseteq (IF host.unsure THEN {"skill"} ELSE {}) /\ store \in Stores
  BY NothingUnderway, Underway
<1>2. review \in MemoryReviews /\ review.op # "set" /\ review # None
  <2>1. review = [op |-> op, key |-> k, expect |-> Note(k), same |-> FALSE] /\ Note(k) \in Notes
    BY <1>1, StoreIs DEF Review
  <2> HIDE DEF review
  <2>2. review \in MemoryReviews /\ review.op = op
    BY <2>1 DEF MemoryReviews
  <2> QED
    BY <2>2, NoneIsNothing
<1> HIDE DEF review
<1>3. f \in MemoryFlows /\ f.review = review
  BY <1>2 DEF MemoryFlow, MemoryFlows
<1>4. MemoryIsSound(f) /\ f.review # None
  BY <1>2, <1>3 DEF MemoryIsSound
<1> HIDE DEF f
<1>5. Fits(f, TRUE, held \cup {"memory"})
  BY <1>1, <1>4, ReviewFits
<1> QED
  BY <1>5 DEF f, review

LEMMA StartReviewKeeps ==
  ASSUME IInv, Serving,
         (\E k \in Keys : StartDelete(k)) \/ \E op \in {"approve", "reject"} : StartResolution(op)
  PROVE  Kept
<1>1. flow = None /\ host \in Hosts /\ Fits(None, registered, held)
  BY NothingUnderway, Underway DEF StartDelete, StartResolution, Begins
<1>2. \/ Goes(None, registered, held)
      \/ Breaks("failed", registered, held)
      \/ \E op \in {"delete", "approve", "reject"}, k \in Keys :
           Goes(MemoryFlow(None, Review(op, k), FALSE), TRUE, held \cup {"memory"})
  BY DEF StartDelete, StartResolution
<1>3. CASE Goes(None, registered, held)
  BY <1>1, <1>3, GoesKeeps
<1>4. CASE Breaks("failed", registered, held)
  BY <1>1, <1>4, BreaksKeeps DEF Ends
<1>5. ASSUME NEW op \in {"delete", "approve", "reject"}, NEW k \in Keys,
             Goes(MemoryFlow(None, Review(op, k), FALSE), TRUE, held \cup {"memory"})
      PROVE  Kept
  BY <1>1, <1>5, ReviewBegins, GoesKeeps
<1> QED
  BY <1>2, <1>3, <1>4, <1>5

(* Whatever becomes of a review, it is gone from both places. *)
LEMMA DropReviewKeeps ==
  ASSUME IInv, Serving, InReview, NEW f, Sound(f),
         f = None \/ (f \in MemoryFlows /\ f.review = None), DropReview(f)
  PROVE  Kept
<1>1. registered = TRUE /\ host \in Hosts
      /\ held \subseteq {"memory"} \cup (IF host.unsure THEN {"skill"} ELSE {})
  BY InMemoryIs, Underway DEF InReview
<1>2. CASE Goes(f, FALSE, IF registered THEN held \ {"memory"} ELSE held)
  <2>1. Goes(f, FALSE, held \ {"memory"})
    BY <1>1, <1>2
  <2>2. Fits(f, FALSE, held \ {"memory"})
    BY <1>1, QuietFits
  <2> QED
    BY <1>1, <2>1, <2>2, GoesKeeps
<1>3. CASE Breaks("failed", FALSE, held)
  BY <1>1, <1>3, BreaksKeeps DEF Ends
<1> QED
  BY <1>2, <1>3 DEF DropReview

LEMMA BackToDraftKeeps ==
  ASSUME IInv, Serving, BackToDraft
  PROVE  Kept
<1> DEFINE e == [flow.editor EXCEPT !.step = "PurposeTags"]
           f == MemoryFlow(e, None, FALSE)
<1>1. flow \in MemoryFlows /\ MemoryIsSound(flow) /\ flow.review.op = "set" /\ InReview
  BY InMemoryIs DEF BackToDraft, InReview
<1>2. flow.editor \in MemoryDrafts
  BY <1>1, MemoryFlowIs DEF MemoryIsSound
<1>3. e \in MemoryDrafts
  BY <1>2 DEF MemoryDrafts
<1> HIDE DEF e
<1>4. f \in MemoryFlows /\ f.review = None /\ f.editor = e
  BY <1>3 DEF MemoryFlow, MemoryFlows
<1>5. DropReview(f)
  BY DEF BackToDraft, e
<1> HIDE DEF f
<1>6. Sound(f)
  BY <1>3, <1>4, NoneIsNothing DEF Sound, MemoryIsSound
<1> QED
  BY <1>1, <1>4, <1>5, <1>6, DropReviewKeeps

LEMMA WrittenIs ==
  ASSUME store \in Stores, NEW r \in MemoryReviews
  PROVE  CarriedOut(r) \in Stores
<1> DEFINE note == [v |-> Note(r.key).v + 1, live |-> r.op # "delete"]
           written == [store.notes EXCEPT ![r.key] = note]
           noted == [store EXCEPT !.notes = written]
<1>1. r.key \in Keys
  BY DEF MemoryReviews
<1>2. note \in Notes
  BY <1>1, StoreIs DEF Notes
<1>3. written = [store.notes EXCEPT ![r.key] = [v |-> @.v + 1, live |-> r.op # "delete"]]
  BY <1>1, StoreIs DEF Note
<1> HIDE DEF note
<1>4. written \in [Keys -> Notes]
  BY <1>2, StoreIs
<1> HIDE DEF written
<1>5. noted \in Stores
  BY <1>4 DEF Stores
<1>6. [store EXCEPT !.notes = written, !.sug = "accepted"] = [noted EXCEPT !.sug = "accepted"]
  OBVIOUS
<1> HIDE DEF noted
<1>7. [noted EXCEPT !.sug = "accepted"] \in Stores /\ [store EXCEPT !.sug = "rejected"] \in Stores
  BY <1>5 DEF Stores
<1>8. CarriedOut(r) \in {[store EXCEPT !.notes = written, !.sug = "accepted"],
                         [store EXCEPT !.sug = "rejected"], noted}
  BY <1>3 DEF CarriedOut, noted
<1> QED
  BY <1>5, <1>6, <1>7, <1>8

LEMMA ConfirmReviewKeeps ==
  ASSUME IInv, Serving, ConfirmReview
  PROVE  Kept /\ store' \in Stores
<1>1. /\ flow \in MemoryFlows /\ MemoryIsSound(flow) /\ flow.review # None /\ registered = TRUE
      /\ "memory" \in held /\ host \in Hosts /\ store \in Stores /\ InReview
      /\ held \subseteq {"memory"} \cup (IF host.unsure THEN {"skill"} ELSE {})
  BY InMemoryIs, Underway DEF ConfirmReview, InReview
<1>2. Sound(None)
  BY DEF Sound
<1>3. CASE store' = CarriedOut(flow.review) /\ Goes(None, FALSE, held \ {"memory"})
  <2>1. Fits(None, FALSE, held \ {"memory"})
    BY <1>1, <1>2, QuietFits
  <2>2. store' \in Stores
    BY <1>1, <1>3, MemoryFlowIs, WrittenIs
  <2> QED
    BY <1>1, <1>3, <2>1, <2>2, GoesKeeps
<1>4. CASE Goes([flow EXCEPT !.asked = TRUE], registered, held) /\ UNCHANGED store
  <2> DEFINE f == [flow EXCEPT !.asked = TRUE]
  <2>1. f \in MemoryFlows /\ f.review = flow.review /\ f.editor = flow.editor
    BY <1>1 DEF MemoryFlows
  <2>2. Goes(f, TRUE, held)
    BY <1>1, <1>4
  <2> HIDE DEF f
  <2>3. MemoryIsSound(f) /\ f.review # None
    BY <1>1, <2>1 DEF MemoryIsSound
  <2>4. Fits(f, TRUE, held)
    BY <1>1, <2>3, ReviewFits
  <2> QED
    BY <1>1, <1>4, <2>2, <2>4, GoesKeeps
<1>5. CASE DropReview(None) /\ UNCHANGED store
  BY <1>1, <1>2, <1>5, DropReviewKeeps
<1> QED
  BY <1>3, <1>4, <1>5 DEF ConfirmReview

LEMMA QuitMemoryKeeps ==
  ASSUME IInv, Serving, QuitMemory
  PROVE  Kept
<1>1. /\ host \in Hosts /\ registered \in BOOLEAN
      /\ registered <=> "memory" \in held
      /\ held \subseteq {"memory"} \cup (IF host.unsure THEN {"skill"} ELSE {})
  BY InMemoryIs, Underway DEF QuitMemory
<1>2. CASE Breaks("failed", FALSE, held)
  BY <1>1, <1>2, BreaksKeeps DEF Ends
<1>3. CASE Shutdown(IF registered THEN held \ {"memory"} ELSE held)
  <2>1. Shutdown(held \ {"memory"})
    <3>1. (IF registered THEN held \ {"memory"} ELSE held) = held \ {"memory"}
      BY <1>1
    <3> QED
      BY <1>3, <3>1
  <2>2. Fits(None, FALSE, held \ {"memory"})
    BY <1>1, QuietFits DEF Sound
  <2> QED
    BY <1>1, <2>1, <2>2, ShutdownKeeps
<1> QED
  BY <1>2, <1>3 DEF QuitMemory

LEMMA MemoryLinesKeep ==
  ASSUME IInv, MemoryLines
  PROVE  Kept /\ store' \in Stores
<1>1. Serving
  BY DEF MemoryLines, StartSet, NameDraft, StartDelete, WriteDraft, StartResolution, BackInDraft,
         CancelDraft, SubmitTags, CancelReview, BackToDraft, ConfirmReview, QuitMemory, ALine
<1>2. store \in Stores
  BY DEF IInv
<1>3. ASSUME NEW k \in Keys, StartSet(k) \/ NameDraft(k)
      PROVE  Kept /\ UNCHANGED store
  BY <1>1, <1>3, StartSetKeeps, NameDraftKeeps DEF StartSet, NameDraft
<1>4. ASSUME NEW same \in BOOLEAN, WriteDraft(same)
      PROVE  Kept /\ UNCHANGED store
  BY <1>1, <1>4, WriteDraftKeeps DEF WriteDraft
<1>5. CASE (\E k \in Keys : StartDelete(k)) \/ \E op \in {"approve", "reject"} : StartResolution(op)
  <2>1. Kept
    BY <1>1, <1>5, StartReviewKeeps
  <2>2. UNCHANGED store
    BY <1>5 DEF StartDelete, StartResolution
  <2> QED
    BY <1>2, <2>1, <2>2
<1>6. CASE BackInDraft \/ SubmitTags \/ BackToDraft \/ QuitMemory
  <2>1. UNCHANGED store
    BY <1>6 DEF BackInDraft, SubmitTags, BackToDraft, QuitMemory
  <2> QED
    BY <1>1, <1>2, <1>6, <2>1, BackInDraftKeeps, SubmitTagsKeeps, BackToDraftKeeps, QuitMemoryKeeps
<1>7. CASE CancelDraft
  <2>1. host \in Hosts /\ Fits(None, registered, held) /\ Goes(None, registered, held)
    BY <1>1, <1>7, DraftIs DEF CancelDraft
  <2> QED
    BY <1>2, <1>7, <2>1, GoesKeeps DEF CancelDraft
<1>8. CASE CancelReview
  <2>1. Kept
    BY <1>1, <1>8, DropReviewKeeps DEF CancelReview, Sound
  <2> QED
    BY <1>2, <1>8, <2>1 DEF CancelReview
<1>9. CASE ConfirmReview
  BY <1>1, <1>9, ConfirmReviewKeeps
<1> QED
  BY <1>2, <1>3, <1>4, <1>5, <1>6, <1>7, <1>8, <1>9 DEF MemoryLines

-----------------------------------------------------------------------------
(* Lines of the skill workflow *)

LEMMA InSkillIs ==
  ASSUME IInv, Serving, InSkill
  PROVE  /\ flow \in SkillFlows /\ SkillIsSound(flow) /\ registered = FALSE
         /\ flow.command # None => "skill" \in held
         /\ held \subseteq {"skill"}
         /\ flow.draft \in Says \cup {"empty", "none"}
         /\ flow.command \in SkillCommands \cup {None}
<1>1. Sound(flow) /\ Agree(flow, registered, held, host.unsure)
  BY DEF IInv
<1>2. flow \in SkillFlows /\ SkillIsSound(flow)
  BY <1>1, MemoryFlowIs, ProfileFlowIs DEF Sound, InSkill, MemoryIsSound, SkillIsSound, ProfileIsSound
<1> QED
  BY <1>1, <1>2, SkillFlowIs DEF Agree, Reviewing, Asking, Named

LEMMA SkillFits ==
  ASSUME NEW f, SkillIsSound(f), NEW reviews \in SUBSET {"skill"},
         f.command # None => "skill" \in reviews
  PROVE  Fits(f, FALSE, reviews)
BY SkillFlowIs DEF Fits, Sound, Agree, Reviewing, Asking, Named, SkillIsSound

LEMMA NewSkillFlow ==
  ASSUME NEW draft \in Says \cup {"empty", "none"}, NEW command \in SkillCommands \cup {None},
         draft = "none" => command # None /\ command.op # "create"
  PROVE  /\ SkillIsSound(SkillFlow(draft, command))
         /\ SkillFlow(draft, command).command = command
BY DEF SkillFlow, SkillFlows, SkillIsSound

LEMMA SkillBeginsKeeps ==
  ASSUME IInv, Serving, StartSkill \/ \E target \in 0 .. MaxVersion : StartAssignment(target)
  PROVE  Kept
<1>1. /\ flow = None /\ host \in Hosts /\ store \in Stores /\ registered = FALSE
      /\ held \in SUBSET {"skill"} /\ Fits(None, registered, held)
  BY NothingUnderway, Underway DEF StartSkill, StartAssignment, Begins
<1>2. CASE StartSkill
  <2>1. Fits(SkillFlow("empty", None), FALSE, held)
    BY <1>1, NewSkillFlow, SkillFits
  <2>2. Goes(SkillFlow("empty", None), registered, held)
    BY <1>2 DEF StartSkill
  <2> QED
    BY <1>1, <2>1, <2>2, GoesKeeps
<1>3. ASSUME NEW target \in 0 .. MaxVersion, StartAssignment(target)
      PROVE  Kept
  <2> DEFINE command == Request(target)
  <2>1. command \in SkillCommands /\ command.op # "create"
    <3>1. target \in Nat /\ store.pinned \in Nat
      BY <1>1, LineAssumption, StoreIs
    <3> QED
      BY <3>1 DEF Request, SkillCommands
  <2>2. Goes(None, registered, held) \/ Goes(SkillFlow("none", command), registered, held \cup {"skill"})
    BY <1>3 DEF StartAssignment
  <2> HIDE DEF command
  <2>3. Fits(SkillFlow("none", command), registered, held \cup {"skill"})
    BY <1>1, <2>1, NewSkillFlow, SkillFits, NoneIsNothing
  <2> QED
    BY <1>1, <2>2, <2>3, GoesKeeps
<1> QED
  BY <1>2, <1>3

LEMMA DraftSkillKeeps ==
  ASSUME IInv, Serving, ReviewSkill \/ \E says \in Says : WriteSkill(says)
  PROVE  Kept
<1>1. /\ flow \in SkillFlows /\ registered = FALSE /\ host \in Hosts /\ flow.command = None
      /\ held \in SUBSET {"skill"} /\ flow.draft \in Says \cup {"empty"} /\ SkillIsSound(flow)
  BY InSkillIs, Underway DEF SkillIsSound, ReviewSkill, WriteSkill, DraftingSkill
<1>2. ASSUME NEW says \in Says, WriteSkill(says)
      PROVE  Kept
  <2> DEFINE f == [flow EXCEPT !.draft = says]
  <2>1. SkillIsSound(f) /\ f.command = None
    BY <1>1 DEF SkillFlows, SkillIsSound, Says
  <2>2. Goes(f, registered, held)
    BY <1>2 DEF WriteSkill
  <2> HIDE DEF f
  <2>3. Fits(f, registered, held)
    BY <1>1, <2>1, SkillFits
  <2> QED
    BY <1>1, <2>2, <2>3, GoesKeeps
<1>3. CASE ReviewSkill
  <2> DEFINE f == [flow EXCEPT !.command = [op |-> "create", draft |-> flow.draft]]
  <2>1. CASE flow.draft # "empty" /\ Goes(f, registered, held \cup {"skill"})
    <3>1. [op |-> "create", draft |-> flow.draft] \in SkillCommands
      BY <1>1, <2>1 DEF SkillCommands
    <3>2. SkillIsSound(f)
      BY <1>1, <3>1 DEF SkillFlows, SkillIsSound, Says
    <3> HIDE DEF f
    <3>3. Fits(f, registered, held \cup {"skill"})
      BY <1>1, <3>2, SkillFits
    <3> QED
      BY <1>1, <2>1, <3>3, GoesKeeps
  <2>2. CASE Goes(flow, registered, held)
    <3>1. Fits(flow, registered, held)
      BY <1>1, SkillFits
    <3> QED
      BY <1>1, <2>2, <3>1, GoesKeeps
  <2> QED
    BY <1>3, <2>1, <2>2 DEF ReviewSkill
<1> QED
  BY <1>2, <1>3

LEMMA NoFlowFits ==
  ASSUME NEW reviews \in SUBSET {"skill"}, host.unsure \/ reviews = {}
  PROVE  Fits(None, FALSE, reviews)
BY QuietFits DEF Sound

LEMMA CancelSkillKeeps ==
  ASSUME IInv, Serving, CancelSkill \/ QuitSkill
  PROVE  Kept
<1>1. /\ host \in Hosts /\ registered = FALSE /\ held \ {"skill"} = {}
  BY InSkillIs, Underway DEF CancelSkill, QuitSkill
<1>2. Fits(None, FALSE, {})
  BY NoFlowFits
<1>3. CASE Goes(None, registered, held \ {"skill"})
  BY <1>1, <1>2, <1>3, GoesKeeps
<1>4. CASE Shutdown(held \ {"skill"})
  BY <1>1, <1>2, <1>4, ShutdownKeeps
<1>5. CASE Breaks("failed", registered, held)
  BY <1>1, <1>5, BreaksKeeps DEF Ends
<1> QED
  BY <1>3, <1>4, <1>5 DEF CancelSkill, QuitSkill

LEMMA SkillDoneIs ==
  ASSUME store \in Stores, NEW c \in SkillCommands
  PROVE  SkillDone(c) \in Stores
<1>1. [store EXCEPT !.skill = @ + 1] \in Stores /\ [store EXCEPT !.pinned = 0] \in Stores
  BY DEF Stores
<1>2. c.op \in {"assign", "upgrade"} => c.target \in Nat
  BY DEF SkillCommands
<1>3. c.op \in {"create", "unassign", "assign", "upgrade"}
  BY DEF SkillCommands
<1>4. c.op \in {"assign", "upgrade"} => [store EXCEPT !.pinned = c.target] \in Stores
  BY <1>2 DEF Stores
<1> QED
  BY <1>1, <1>3, <1>4 DEF SkillDone

LEMMA ConfirmSkillKeeps ==
  ASSUME IInv, Serving, ConfirmSkill
  PROVE  Kept /\ store' \in Stores
<1> DEFINE c == flow.command
           back == IF c.op = "create" THEN SkillFlow(flow.draft, None) ELSE None
<1>1. /\ SkillIsSound(flow) /\ registered = FALSE /\ host \in Hosts /\ store \in Stores
      /\ c # None /\ c \in SkillCommands /\ "skill" \in held /\ held \in SUBSET {"skill"}
      /\ flow.draft \in Says \cup {"empty", "none"} /\ held \ {"skill"} = {}
      /\ c.op = "create" => flow.draft # "none"
  BY InSkillIs, Underway DEF ConfirmSkill, AskingSkill, SkillIsSound
<1>2. Fits(None, FALSE, {})
  BY NoFlowFits
<1>3. CASE store' = SkillDone(c) /\ Goes(None, registered, held \ {"skill"})
  BY <1>1, <1>2, <1>3, GoesKeeps, SkillDoneIs
<1>4. CASE Goes(flow, registered, held) /\ UNCHANGED store
  <2>1. Fits(flow, registered, held)
    BY <1>1, SkillFits
  <2> QED
    BY <1>1, <1>4, <2>1, GoesKeeps
<1>5. CASE Goes(back, registered, held \ {"skill"}) /\ UNCHANGED store
  <2>1. Fits(back, FALSE, {})
    BY <1>1, <1>2, NewSkillFlow, SkillFits
  <2> HIDE DEF back
  <2> QED
    BY <1>1, <1>5, <2>1, GoesKeeps
<1>6. CASE c.op = "create" /\ Goes(back, registered, held) /\ UNCHANGED store
  <2>1. Fits(back, FALSE, held)
    BY <1>1, <1>6, NewSkillFlow, SkillFits
  <2> HIDE DEF back
  <2> QED
    BY <1>1, <1>6, <2>1, GoesKeeps
<1>7. CASE /\ flow' = None /\ host' = [host EXCEPT !.unsure = TRUE]
           /\ UNCHANGED <<registered, held, store>>
  <2>1. host' \in Hosts /\ host'.unsure = TRUE
    BY <1>1, <1>7 DEF Hosts
  <2>2. Sound(flow') /\ Agree(flow', registered', held', host'.unsure)
    BY <1>1, <1>7, <2>1 DEF Sound, Agree, Reviewing, Asking, Named
  <2> QED
    BY <1>1, <1>7, <2>1, <2>2 DEF Kept
<1>8. CASE Breaks("failed", registered, held) /\ UNCHANGED store
  BY <1>1, <1>8, BreaksKeeps DEF Ends
<1> QED
  BY <1>3, <1>4, <1>5, <1>6, <1>7, <1>8 DEF ConfirmSkill

LEMMA SkillLinesKeep ==
  ASSUME IInv, SkillLines
  PROVE  Kept /\ store' \in Stores
<1>1. Serving /\ store \in Stores
  BY DEF IInv, SkillLines, StartSkill, ReviewSkill, CancelSkill, ConfirmSkill, QuitSkill,
         WriteSkill, StartAssignment, ALine
<1>2. CASE ConfirmSkill
  BY <1>1, <1>2, ConfirmSkillKeeps
<1>3. CASE StartSkill \/ \E target \in 0 .. MaxVersion : StartAssignment(target)
  <2>1. UNCHANGED store
    BY <1>3 DEF StartSkill, StartAssignment
  <2> QED
    BY <1>1, <1>3, <2>1, SkillBeginsKeeps
<1>4. CASE ReviewSkill \/ \E says \in {"this", "that"} : WriteSkill(says)
  <2>1. UNCHANGED store
    BY <1>4 DEF ReviewSkill, WriteSkill
  <2> QED
    BY <1>1, <1>4, <2>1, DraftSkillKeeps DEF Says
<1>5. CASE CancelSkill \/ QuitSkill
  <2>1. UNCHANGED store
    BY <1>5 DEF CancelSkill, QuitSkill
  <2> QED
    BY <1>1, <1>5, <2>1, CancelSkillKeeps
<1> QED
  BY <1>2, <1>3, <1>4, <1>5 DEF SkillLines

-----------------------------------------------------------------------------
(* Lines of the agent workflow *)

LEMMA InProfileIs ==
  ASSUME IInv, Serving, InProfile
  PROVE  /\ ProfileIsSound(flow) /\ flow \in ProfileFlows /\ registered = FALSE
         /\ held \subseteq (IF flow.editor # None /\ flow.editor.mode = "edit"
                            THEN {"profile"} ELSE {})
                             \cup (IF host.unsure THEN {"skill"} ELSE {})
<1>1. Sound(flow) /\ Agree(flow, registered, held, host.unsure)
  BY DEF IInv
<1>2. flow \in ProfileFlows /\ ProfileIsSound(flow)
  BY <1>1, MemoryFlowIs, SkillFlowIs
  DEF Sound, InProfile, MemoryIsSound, SkillIsSound, ProfileIsSound
<1> QED
  BY <1>1, <1>2, ProfileFlowIs DEF Agree, Reviewing, Asking, Named

LEMMA ProfileFits ==
  ASSUME NEW f, ProfileIsSound(f), NEW reviews,
         reviews \subseteq (IF f.editor # None /\ f.editor.mode = "edit" THEN {"profile"} ELSE {})
                             \cup (IF host.unsure THEN {"skill"} ELSE {})
  PROVE  Fits(f, FALSE, reviews)
<1>1. f # None /\ f.kind = "profile"
  BY ProfileFlowIs DEF ProfileIsSound
<1> QED
  BY <1>1 DEF Fits, Sound, Agree, Reviewing, Asking, Named

LEMMA FormFlow ==
  ASSUME NEW e, Faithful(e)
  PROVE  ProfileIsSound(Form(e)) /\ Form(e).editor = e /\ e # None
<1>1. e \in Forms /\ e # None
  BY NoneIsNothing DEF Faithful
<1>2. Form(e) = [kind |-> "profile", at |-> "editing", editor |-> e, command |-> None]
  BY DEF Form, ProfileFlow
<1>3. Form(e) \in ProfileFlows
  BY <1>1, <1>2 DEF ProfileFlows
<1> QED
  BY <1>1, <1>2, <1>3 DEF ProfileIsSound

(* The form, when there is one *)
LEMMA EditingIs ==
  ASSUME IInv, Serving, At("editing") \/ At("confirming")
  PROVE  /\ Faithful(flow.editor) /\ registered = FALSE /\ ProfileIsSound(flow)
         /\ held \subseteq (IF flow.editor.mode = "edit" THEN {"profile"} ELSE {})
                             \cup (IF host.unsure THEN {"skill"} ELSE {})
<1>1. ProfileIsSound(flow) /\ flow.editor # None
  BY InProfileIs DEF At, ProfileIsSound
<1> QED
  BY <1>1, InProfileIs DEF At, ProfileIsSound

LEMMA EditedFits ==
  ASSUME IInv, Serving, At("editing") \/ At("confirming"), NEW e, Keeps(flow.editor, e)
  PROVE  Fits(Form(e), registered, held)
<1>1. Faithful(e) /\ e.mode = flow.editor.mode
  BY DEF Keeps
<1> QED
  BY <1>1, EditingIs, FormFlow, ProfileFits

LEMMA EditedKeeps ==
  ASSUME IInv, Serving, TypeInForm \/ WalkForm
  PROVE  Kept
<1>1. At("editing")
  BY DEF TypeInForm, WalkForm, Edited
<1>2. host \in Hosts /\ Faithful(flow.editor)
  BY <1>1, EditingIs, Underway
<1>3. PICK e : Keeps(flow.editor, e) /\ Edited(e)
  BY <1>2, SubmitTextKeeps, ChangeTagsKeeps, SetRoleKeeps, ClearCurrentKeeps, ForwardKeeps,
     BackwardKeeps
  DEF TypeInForm, WalkForm
<1>4. Fits(Form(e), registered, held) /\ Goes(Form(e), registered, held)
  BY <1>1, <1>3, EditedFits DEF Edited
<1> QED
  BY <1>2, <1>4, GoesKeeps

LEMMA StartProfileKeeps ==
  ASSUME IInv, Serving, StartProfile
  PROVE  Kept
<1>1. /\ host \in Hosts /\ registered = FALSE /\ store.agent \in Nat
      /\ held \subseteq (IF host.unsure THEN {"skill"} ELSE {}) /\ Fits(None, registered, held)
  BY NothingUnderway, Underway, StoreIs DEF StartProfile, Begins
<1> DEFINE choosing == ProfileFlow("templates", None, None)
<1>2. ProfileIsSound(choosing) /\ choosing.editor = None
  BY DEF ProfileFlow, ProfileIsSound, ProfileFlows
<1>3. /\ ProfileIsSound(Form(E!ForCreate))
      /\ ProfileIsSound(Form(E!ForEdit("agent", store.agent)))
  BY <1>1, NewForms, FormFlow
<1>4. \A f : ProfileIsSound(f) => Fits(f, registered, held)
  BY <1>1, ProfileFits
<1>5. \/ Goes(choosing, registered, held) \/ Goes(Form(E!ForCreate), registered, held)
      \/ Goes(Form(E!ForEdit("agent", store.agent)), registered, held)
      \/ Goes(None, registered, held)
  BY DEF StartProfile
<1> HIDE DEF choosing
<1> QED
  BY <1>1, <1>2, <1>3, <1>4, <1>5, GoesKeeps

LEMMA ChooseTemplateKeeps ==
  ASSUME IInv, Serving, ChooseTemplate
  PROVE  Kept
<1>1. /\ host \in Hosts /\ registered = FALSE /\ flow.editor = None
      /\ held \subseteq (IF host.unsure THEN {"skill"} ELSE {})
  BY InProfileIs, Underway DEF ChooseTemplate, At, ProfileIsSound
<1>2. ProfileIsSound(Form(E!ForCreate))
  BY NewForms, FormFlow
<1>3. Fits(Form(E!ForCreate), registered, held) /\ Goes(Form(E!ForCreate), registered, held)
  BY <1>1, <1>2, ProfileFits DEF ChooseTemplate
<1> QED
  BY <1>1, <1>3, GoesKeeps

LEMMA ReviewAgentKeeps ==
  ASSUME IInv, Serving, ReviewAgent
  PROVE  Kept
<1> DEFINE e == flow.editor
           asked == E!PreviewAsked(e)
           review == [of |-> asked.of, expected |-> asked.expected, draft |-> asked.draft]
           shown == E!ApplyPreview(asked, review)
<1>1. /\ Faithful(e) /\ host \in Hosts /\ registered = FALSE /\ At("editing") /\ e.mode = "edit"
      /\ held \subseteq {"profile"} \cup (IF host.unsure THEN {"skill"} ELSE {})
  BY EditingIs, Underway DEF ReviewAgent, E!AsksForPreview
<1>2. Keeps(e, asked) /\ asked \in Forms /\ asked.review = None /\ asked.mode = e.mode
  BY <1>1, PreviewAskedKeeps DEF Faithful, Keeps
<1>3. review \in AgentReviews /\ review.draft = asked.draft
  BY <1>2, FormIs DEF AgentReviews
<1>4. \/ Goes(Form(shown), registered, held \cup {"profile"})
      \/ Goes(Form(asked), registered, held)
  BY DEF ReviewAgent
<1> HIDE DEF asked, review
<1>5. Keeps(asked, shown)
  BY <1>2, <1>3, ApplyPreviewKeeps
<1> HIDE DEF shown
<1>6. Faithful(shown) /\ shown.mode = "edit"
  BY <1>1, <1>2, <1>5 DEF Keeps
<1>7. Fits(Form(shown), registered, held \cup {"profile"})
  BY <1>1, <1>6, FormFlow, ProfileFits
<1>8. Fits(Form(asked), registered, held)
  BY <1>1, <1>2, EditedFits
<1> QED
  BY <1>1, <1>4, <1>7, <1>8, GoesKeeps

LEMMA ProposeAgentKeeps ==
  ASSUME IInv, Serving, ProposeAgent
  PROVE  Kept
<1> DEFINE e == flow.editor
           c == E!CommandOf(e)
           f == ProfileFlow("confirming", e, c)
<1>1. /\ Faithful(e) /\ host \in Hosts /\ registered = FALSE
      /\ held \subseteq (IF e.mode = "edit" THEN {"profile"} ELSE {})
                          \cup (IF host.unsure THEN {"skill"} ELSE {})
      /\ e.mode = "edit" => e.review # None
  BY EditingIs, Underway DEF ProposeAgent, E!MayCreate, E!MayActivate
<1>2. c \in AgentCommands /\ c.mode = e.mode /\ c.review = e.review
  BY <1>1, FormIs DEF E!CommandOf, AgentCommands, Faithful
<1> HIDE DEF c
<1>3. f \in ProfileFlows /\ f.editor = e /\ f.command = c /\ f.at = "confirming"
  BY <1>1, <1>2 DEF ProfileFlow, ProfileFlows, Faithful
<1>4. Goes(f, registered, held)
  BY DEF ProposeAgent, c
<1> HIDE DEF f
<1>5. ProfileIsSound(f)
  BY <1>1, <1>2, <1>3, NoneIsNothing DEF ProfileIsSound, Faithful
<1>6. e # None
  BY <1>1, NoneIsNothing DEF Faithful
<1>7. Fits(f, registered, held)
  BY <1>1, <1>3, <1>5, <1>6, ProfileFits
<1> QED
  BY <1>1, <1>4, <1>7, GoesKeeps

LEMMA CancelAgentKeeps ==
  ASSUME IInv, Serving, CancelAgent
  PROVE  Kept
<1>1. /\ host \in Hosts /\ registered = FALSE
      /\ held \ {"profile"} \subseteq (IF host.unsure THEN {"skill"} ELSE {})
  BY InProfileIs, Underway DEF CancelAgent
<1>2. Fits(None, FALSE, held \ {"profile"})
  BY <1>1, QuietFits DEF Sound
<1>3. CASE Goes(None, registered, held \ {"profile"})
  BY <1>1, <1>2, <1>3, GoesKeeps
<1>4. CASE Breaks("failed", registered, held)
  BY <1>1, <1>4, BreaksKeeps DEF Ends
<1> QED
  BY <1>3, <1>4 DEF CancelAgent

LEMMA ConfirmAgentKeeps ==
  ASSUME IInv, Serving, ConfirmAgent
  PROVE  Kept /\ store' \in Stores
<1> DEFINE edit == flow.command.mode = "edit"
           spent == IF edit THEN held \ {"profile"} ELSE held
<1>1. /\ Faithful(flow.editor) /\ host \in Hosts /\ store \in Stores /\ registered = FALSE
      /\ ProfileIsSound(flow) /\ flow.command.mode = flow.editor.mode
      /\ held \subseteq (IF edit THEN {"profile"} ELSE {})
                          \cup (IF host.unsure THEN {"skill"} ELSE {})
  BY EditingIs, Underway DEF ConfirmAgent, At, ProfileIsSound
<1>2. spent \subseteq (IF host.unsure THEN {"skill"} ELSE {})
  BY <1>1
<1>3. flow.editor # None
  BY <1>1, NoneIsNothing DEF Faithful
<1>4. \A reviews \in {held, spent} : Fits(flow, registered, reviews)
  BY <1>1, <1>2, <1>3, ProfileFits
<1>5. Fits(None, registered, spent)
  BY <1>1, <1>2, QuietFits DEF Sound
<1>6. [store EXCEPT !.agent = @ + 1] \in Stores
  BY <1>1 DEF Stores
<1>7. \/ /\ store' = IF edit THEN [store EXCEPT !.agent = @ + 1] ELSE store
         /\ Goes(None, registered, spent)
      \/ \E reviews \in {held, spent} : Goes(flow, registered, reviews) /\ UNCHANGED store
      \/ \E reviews \in {held, spent} : Breaks("failed", registered, reviews) /\ UNCHANGED store
  BY DEF ConfirmAgent
<1> HIDE DEF edit, spent
<1>8. CASE /\ store' = IF edit THEN [store EXCEPT !.agent = @ + 1] ELSE store
           /\ Goes(None, registered, spent)
  BY <1>1, <1>5, <1>6, <1>8, GoesKeeps
<1>9. CASE \E reviews \in {held, spent} : Goes(flow, registered, reviews) /\ UNCHANGED store
  BY <1>1, <1>4, <1>9, GoesKeeps
<1>10. CASE \E reviews \in {held, spent} : Breaks("failed", registered, reviews) /\ UNCHANGED store
  BY <1>1, <1>10, BreaksKeeps DEF Ends
<1> QED
  BY <1>7, <1>8, <1>9, <1>10

LEMMA ProfileLinesKeep ==
  ASSUME IInv, ProfileLines
  PROVE  Kept /\ store' \in Stores
<1>1. Serving /\ store \in Stores
  BY DEF IInv, ProfileLines, StartProfile, ChooseTemplate, TypeInForm, WalkForm, Edited,
         ReviewAgent, ProposeAgent, DeclineAgent, CancelAgent, ConfirmAgent, ALine
<1>2. CASE ConfirmAgent
  BY <1>1, <1>2, ConfirmAgentKeeps
<1>3. CASE TypeInForm \/ WalkForm
  <2>1. UNCHANGED store
    BY <1>3 DEF TypeInForm, WalkForm, Edited
  <2> QED
    BY <1>1, <1>3, <2>1, EditedKeeps
<1>4. CASE StartProfile \/ ChooseTemplate \/ ReviewAgent \/ ProposeAgent \/ CancelAgent
  <2>1. UNCHANGED store
    BY <1>4 DEF StartProfile, ChooseTemplate, ReviewAgent, ProposeAgent, CancelAgent
  <2> QED
    BY <1>1, <1>4, <2>1, StartProfileKeeps, ChooseTemplateKeeps, ReviewAgentKeeps,
       ProposeAgentKeeps, CancelAgentKeeps
<1>5. CASE DeclineAgent
  <2>1. At("confirming") /\ Goes(Form(flow.editor), registered, held) /\ UNCHANGED store
    BY <1>5 DEF DeclineAgent
  <2>2. Keeps(flow.editor, flow.editor) /\ host \in Hosts
    BY <1>1, <2>1, EditingIs, Underway DEF Keeps
  <2>3. Fits(Form(flow.editor), registered, held)
    BY <1>1, <2>1, <2>2, EditedFits
  <2> QED
    BY <1>1, <2>1, <2>2, <2>3, GoesKeeps
<1> QED
  BY <1>2, <1>3, <1>4, <1>5 DEF ProfileLines

-----------------------------------------------------------------------------
(* The invariant holds. *)

LEMMA KeptIs ==
  ASSUME Kept, store' \in Stores
  PROVE  IInv'
BY DEF Kept, IInv, Serving

LEMMA OtherLinesKeep ==
  ASSUME IInv, Ineffective \/ QuitCommand
  PROVE  IInv'
<1>1. Serving /\ store' \in Stores
  BY DEF IInv, Ineffective, QuitCommand, ALine
<1>2. host \in Hosts /\ Fits(flow, registered, held)
  BY <1>1, Underway
<1>3. CASE Goes(flow, registered, held)
  BY <1>1, <1>2, <1>3, GoesKeeps, KeptIs
<1>4. CASE Breaks("failed", registered, held)
  BY <1>1, <1>2, <1>4, BreaksKeeps, KeptIs DEF Ends
<1>5. CASE flow = None /\ Shutdown(held)
  <2>1. Fits(None, FALSE, held)
    BY <1>1, <1>5, NothingUnderway
  <2> QED
    BY <1>1, <1>2, <1>5, <2>1, ShutdownKeeps, KeptIs
<1> QED
  BY <1>3, <1>4, <1>5 DEF Ineffective, QuitCommand

(* After the loop nothing is asked of what is left. *)
LEMMA EndsKeep ==
  ASSUME IInv, Interrupted \/ InputEnds \/ InputFailed
  PROVE  IInv'
<1>1. host \in Hosts /\ store' \in Stores
  BY DEF IInv, Interrupted, InputEnds, InputFailed
<1>2. Sound(flow')
  BY DEF IInv, Interrupted, InputEnds, InputFailed, CancelWorkflows, Sound
<1>3. PICK why \in Ends : Leave(why)
  BY DEF Interrupted, InputEnds, InputFailed, Ends
<1> QED
  BY <1>1, <1>2, <1>3, LeaveKeeps, KeptIs

LEMMA CleanUpKeeps ==
  ASSUME IInv, CleanUp \/ Finish
  PROVE  IInv'
<1>1. host \in Hosts /\ store' \in Stores
  BY DEF IInv, CleanUp, Finish
<1>2. Sound(flow')
  BY DEF IInv, CleanUp, Finish, CancelWorkflows, Sound
<1>3. host' \in Hosts /\ host'.at \in {"cleaned", "finished"}
  <2>1. PICK at \in {"cleaned", "finished"}, sloppy \in BOOLEAN, returned \in Ends \cup {"error", None} :
          \/ host' = [host EXCEPT !.at = at, !.sloppy = sloppy]
          \/ host' = [host EXCEPT !.at = at, !.returned = returned]
    <3>1. host.body \in Ends
      BY <1>1 DEF Hosts
    <3> QED
      BY <1>1, <3>1 DEF CleanUp, Finish
  <2> DEFINE there == [host EXCEPT !.at = at]
  <2>2. there \in Hosts /\ there.at = at
    BY <1>1 DEF Hosts
  <2>3. \/ host' = [there EXCEPT !.sloppy = sloppy]
        \/ host' = [there EXCEPT !.returned = returned]
    BY <2>1
  <2> HIDE DEF there
  <2> QED
    BY <2>2, <2>3 DEF Hosts
<1> QED
  BY <1>1, <1>2, <1>3 DEF IInv, Serving

LEMMA InitInv == Init => IInv
<1> SUFFICES ASSUME Init PROVE IInv
  OBVIOUS
<1>1. store \in Stores
  BY DEF Init, Stores, Notes
<1>2. host \in Hosts
  BY DEF Init, Hosts, Ends
<1>3. Sound(flow) /\ Agree(flow, registered, held, host.unsure)
  BY DEF Init, Sound, Agree, Reviewing, Asking, Named
<1> QED
  BY <1>1, <1>2, <1>3 DEF IInv

LEMMA StepInv == IInv /\ [Next]_vars => IInv'
<1> SUFFICES ASSUME IInv, [Next]_vars PROVE IInv'
  OBVIOUS
<1>1. CASE Ineffective \/ QuitCommand
  BY <1>1, OtherLinesKeep
<1>2. CASE MemoryLines
  BY <1>2, MemoryLinesKeep, KeptIs
<1>3. CASE SkillLines
  BY <1>3, SkillLinesKeep, KeptIs
<1>4. CASE ProfileLines
  BY <1>4, ProfileLinesKeep, KeptIs
<1>5. CASE Interrupted \/ InputEnds \/ InputFailed
  BY <1>5, EndsKeep
<1>6. CASE CleanUp \/ Finish
  BY <1>6, CleanUpKeeps
<1>7. CASE UNCHANGED lineVars
  BY <1>7 DEF IInv, lineVars, Serving
<1> QED
  BY <1>1, <1>2, <1>3, <1>4, <1>5, <1>6, <1>7
  DEF Next, HostSteps, TakeReaderDown, Outside, Done, vars

THEOREM Invariance == Spec => []IInv
BY InitInv, StepInv, PTL DEF Spec

(* Between any two lines the interface and the runtime agree on what is     *)
(* registered: after every refusal, retry, failure and cancellation.        *)
THEOREM ReviewsAlwaysAgree == Spec => []ReviewsAgree
<1>1. IInv => ReviewsAgree
  <2> SUFFICES ASSUME IInv, Serving PROVE ReviewsAgree
    BY DEF ReviewsAgree
  <2>1. Agree(flow, registered, held, host.unsure) /\ Sound(flow)
    BY DEF IInv
  <2>2. /\ Reviewing(flow) <=> InReview
        /\ Asking(flow) <=> AskingSkill
        /\ Named(flow) \subseteq Known
        /\ "memory" \in Named(flow) => Reviewing(flow)
    BY <2>1 DEF Agree, Reviewing, Asking, Named, InReview, InMemory, AskingSkill, InSkill, Known,
                InProfile
  <2> QED
    BY <2>1, <2>2 DEF Agree, ReviewsAgree
<1> QED
  BY <1>1, Invariance, PTL

(* The phrase that activates a version names the review of what the form    *)
(* says, however the form was walked and changed.                           *)
THEOREM PhraseAlwaysNamesTheForm == Spec => []PhraseNamesTheForm
<1>1. IInv => PhraseNamesTheForm
  <2> SUFFICES ASSUME IInv, InProfile, flow.editor # None PROVE PhraseNamesTheForm
    BY DEF PhraseNamesTheForm
  <2>1. Sound(flow)
    BY DEF IInv
  <2>2. ProfileIsSound(flow)
    BY <2>1, MemoryFlowIs, SkillFlowIs DEF Sound, InProfile, MemoryIsSound, SkillIsSound
  <2> QED
    BY <2>2 DEF ProfileIsSound, Faithful, PhraseNamesTheForm
<1> QED
  BY <1>1, Invariance, PTL
=============================================================================
