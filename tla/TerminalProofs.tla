--------------------------- MODULE TerminalProofs ---------------------------
(***************************************************************************)
(* What holds of the full-screen terminal for any agents, notes, skills,    *)
(* versions and tours, whatever answers come and in whatever order.         *)
(*                                                                         *)
(* The argument has four parts, and every step is shown to keep each.       *)
(*   Screens    what is loaded is of the agent that is selected: a read     *)
(*              that is still timely is for the present target, which needs *)
(*              the versions to be ordered, the list's, the detail's and    *)
(*              the runtime's                                              *)
(*   Reviews    what the screens say is registered is what the runtime has, *)
(*              or the operator was told                                   *)
(*   DeskForm   the form of an agent and what waits for a yes               *)
(*   ShelfForm  the same of a skill                                        *)
(***************************************************************************)
EXTENDS Terminal, TLAPS

RosterFields ==
    {"tab", "focus", "pane", "sel", "rows", "detail", "history", "version", "past", "skillPanel"}

(* A list of agents, with what is loaded of the one that is selected, when   *)
(* the runtime has these versions *)
Screen(r, versions) ==
    /\ DOMAIN r = RosterFields
    /\ r.sel \in Profiles
    /\ r.rows \in [Profiles -> Nat] /\ \A p \in Profiles : r.rows[p] <= versions[p]
    /\ r.detail # None => r.detail \in [p : {r.sel}, v : r.rows[r.sel] .. versions[r.sel]]
    /\ r.history # None => r.detail # None /\ r.history.p = r.sel
    /\ r.version # None => r.history # None /\ r.version.p = r.sel

Versions == [Profiles -> Nat]

(* From one list to the next: what is loaded of a target goes only with it. *)
Follows(s, r) ==
    Target(r) = Target(s) => /\ s.detail # None => r.detail # None
                             /\ s.history # None => r.history # None

(* The memory that work was begun on stays on the screen. *)
Spares(r) ==
    Protected(mem) /\ mem.bound # None =>
        /\ r.sel = roster.sel /\ r.rows[mem.bound.p] = mem.bound.v
        /\ r.detail \in {None, roster.detail, mem.bound}
SparesSelection(r) == Protected(mem) => r.sel = roster.sel

(* Where the screen may go from here *)
Reach(r, versions) ==
    /\ Screen(r, versions) /\ Follows(roster, r) /\ Spares(r) /\ SparesSelection(r)
    /\ r.pane = roster.pane \/ roster.pane = "History"

-----------------------------------------------------------------------------
(* The list, and what is loaded *)

LEMMA SelectedIs ==
  ASSUME NEW r, NEW versions \in Versions, Screen(r, versions), NEW q \in Profiles
  PROVE  /\ Screen(Selected(r, q), versions)
         /\ Selected(r, q).sel = q /\ Selected(r, q).rows = r.rows
         /\ q = r.sel => Selected(r, q) = r
         /\ Selected(r, q).pane = r.pane \/ r.pane = "History"
<1>1. CASE q = r.sel
  BY <1>1 DEF Selected
<1>2. CASE q # r.sel
  <2> DEFINE moved == [r EXCEPT !.sel = q, !.history = None, !.version = None, !.skillPanel = FALSE,
                                !.pane = IF @ = "History" THEN "Detail" ELSE @]
             after == [moved EXCEPT !.detail = IF MatchingDetail(moved) THEN @ ELSE None]
  <2>1. /\ DOMAIN moved = RosterFields /\ moved.sel = q /\ moved.rows = r.rows
        /\ moved.history = None /\ moved.version = None
        /\ moved.pane = r.pane \/ r.pane = "History"
    BY DEF Screen, RosterFields
  <2> HIDE DEF moved
  <2>2. /\ DOMAIN after = RosterFields /\ after.sel = q /\ after.rows = r.rows
        /\ after.history = None /\ after.version = None
        /\ after.pane = r.pane \/ r.pane = "History"
        /\ after.detail = None \/ after.detail = [p |-> q, v |-> r.rows[q]]
    BY <2>1 DEF RosterFields, MatchingDetail, Target
  <2> HIDE DEF after
  <2>3. r.rows[q] \in r.rows[q] .. versions[q]
    BY DEF Screen, Versions
  <2>4. Screen(after, versions)
    BY <2>2, <2>3 DEF Screen
  <2>5. Selected(r, q) = after
    BY <1>2 DEF Selected, after, moved
  <2> QED
    BY <1>2, <2>2, <2>4, <2>5
<1> QED
  BY <1>1, <1>2

(* The detail that comes is of what is selected. *)
LEMMA WithDetailIs ==
  ASSUME NEW r, NEW versions \in Versions, Screen(r, versions),
         NEW v \in r.rows[r.sel] .. versions[r.sel]
  PROVE  LET ref == [p |-> r.sel, v |-> v]
             after == WithDetail(r, ref)
         IN /\ Screen(after, versions)
            /\ after.sel = r.sel /\ after.rows = r.rows /\ after.pane = r.pane /\ after.detail = ref
            /\ after.detail # None
            /\ r.history # None => after.history # None
<1> DEFINE ref == [p |-> r.sel, v |-> v]
           after == WithDetail(r, ref)
<1>1. /\ DOMAIN after = RosterFields /\ after.sel = r.sel /\ after.rows = r.rows
      /\ after.pane = r.pane /\ after.detail = ref
      /\ after.history = IF r.history # None /\ r.history.p = ref.p THEN r.history ELSE None
      /\ after.version = IF r.history # None /\ r.history.p = ref.p THEN r.version ELSE None
  BY DEF WithDetail, Screen, RosterFields
<1> HIDE DEF after
<1>2. ref \in [p : Profiles, v : Nat] /\ ref \in [p : {r.sel}, v : r.rows[r.sel] .. versions[r.sel]]
      /\ ref.p = r.sel
  BY DEF Screen, Versions
<1>3. ref # None
  BY <1>2, NoneIsNothing
<1> HIDE DEF ref
<1>4. after.history = r.history /\ after.version = r.version
  BY <1>1, <1>2 DEF Screen
<1>5. Screen(after, versions)
  BY <1>1, <1>2, <1>3, <1>4 DEF Screen
<1> QED
  BY <1>1, <1>3, <1>4, <1>5 DEF ref, after

LEMMA WithHistoryIs ==
  ASSUME NEW r, NEW versions \in Versions, Screen(r, versions), r.detail # None, NEW v \in Nat
  PROVE  LET after == WithHistory(r, [p |-> r.sel, v |-> v])
         IN /\ Screen(after, versions)
            /\ after.sel = r.sel /\ after.rows = r.rows /\ after.pane = r.pane
            /\ after.detail = r.detail /\ after.history # None
<1> DEFINE ref == [p |-> r.sel, v |-> v]
           after == WithHistory(r, ref)
<1>1. /\ DOMAIN after = RosterFields /\ after.sel = r.sel /\ after.rows = r.rows
      /\ after.pane = r.pane /\ after.detail = r.detail /\ after.history = ref /\ after.version = None
  BY DEF WithHistory, Screen, RosterFields
<1>2. ref \in [p : Profiles, v : Nat] /\ ref.p = r.sel
  BY DEF Screen
<1> HIDE DEF after, ref
<1>3. ref # None
  BY <1>2, NoneIsNothing
<1> QED
  BY <1>1, <1>2, <1>3 DEF Screen, after, ref

LEMMA WithVersionIs ==
  ASSUME NEW r, NEW versions, Screen(r, versions), r.history # None, NEW v
  PROVE  LET after == WithVersion(r, [p |-> r.sel, v |-> v])
         IN /\ Screen(after, versions)
            /\ after.sel = r.sel /\ after.rows = r.rows /\ after.pane = r.pane
            /\ after.detail = r.detail /\ after.history = r.history
<1> DEFINE ref == [p |-> r.sel, v |-> v]
           after == WithVersion(r, ref)
<1>1. /\ DOMAIN after = RosterFields /\ after.sel = r.sel /\ after.rows = r.rows
      /\ after.pane = r.pane /\ after.detail = r.detail /\ after.history = r.history
      /\ after.version = ref
  BY DEF WithVersion, Screen, RosterFields
<1> HIDE DEF after
<1> QED
  BY <1>1 DEF Screen, after

-----------------------------------------------------------------------------
(* Where refreshes, answers and forms take the list *)

LEMMA StaysInReach ==
  ASSUME NEW versions, Screen(roster, versions), mem.bound \in {None, Target(roster)}
  PROVE  Reach(roster, versions)
BY DEF Reach, Follows, Spares, SparesSelection, Target

LEMMA RelistedReach ==
  ASSUME NEW old \in Versions, Screen(roster, old), mem.bound \in {None, Target(roster)},
         NEW versions \in Versions, \A p \in Profiles : old[p] <= versions[p]
  PROVE  /\ Reach(Relisted(roster, versions), versions)
         /\ Relisted(roster, versions).sel = roster.sel
         /\ Relisted(roster, versions).pane = roster.pane
<1> DEFINE listed == [roster EXCEPT !.rows = versions]
           bare == [listed EXCEPT !.detail = None, !.history = None, !.version = None]
           after == Relisted(roster, versions)
<1>0. /\ roster.sel \in Profiles /\ old[roster.sel] \in Nat /\ versions[roster.sel] \in Nat
      /\ roster.rows[roster.sel] \in Nat /\ old[roster.sel] <= versions[roster.sel]
      /\ \A p \in Profiles : /\ roster.rows[p] \in Nat /\ old[p] \in Nat /\ versions[p] \in Nat
                             /\ roster.rows[p] <= versions[p]
  BY DEF Screen, Versions
<1>1. Screen(roster, versions)
  BY <1>0 DEF Screen
<1>2. CASE ~KeepsWork(versions)
  BY <1>1, <1>2, StaysInReach DEF Relisted
<1>3. CASE KeepsWork(versions)
  <2>1. /\ DOMAIN listed = RosterFields /\ listed.sel = roster.sel /\ listed.rows = versions
        /\ listed.pane = roster.pane /\ listed.detail = roster.detail
        /\ listed.history = roster.history /\ listed.version = roster.version
    BY DEF Screen, RosterFields
  <2> HIDE DEF listed
  <2>2. /\ DOMAIN bare = RosterFields /\ bare.sel = roster.sel /\ bare.rows = versions
        /\ bare.pane = roster.pane /\ bare.detail = None /\ bare.history = None /\ bare.version = None
    BY <2>1 DEF RosterFields
  <2> HIDE DEF bare
  <2>3. after = IF MatchingDetail(listed) THEN listed ELSE bare
    BY <1>3 DEF Relisted, listed, bare
  <2>4. versions[roster.sel] \in versions[roster.sel] .. versions[roster.sel]
    BY <1>0
  <2>5. Screen(after, versions)
    BY <1>0, <1>1, <2>1, <2>2, <2>3, <2>4 DEF Screen, MatchingDetail, Target, Versions
  <2>6. Spares(after) /\ SparesSelection(after) /\ after.pane = roster.pane
    BY <1>3, <2>1, <2>2, <2>3 DEF Spares, SparesSelection, KeepsWork
  <2>7. ASSUME Target(after) = Target(roster), roster.detail # None
        PROVE  after = listed
    <3>1. versions[roster.sel] = roster.rows[roster.sel]
      BY <2>7, <2>1, <2>2, <2>3 DEF Target
    <3>2. /\ roster.detail \in [p : {roster.sel}, v : roster.rows[roster.sel] .. old[roster.sel]]
      BY <2>7 DEF Screen
    <3>3. roster.detail.v = versions[roster.sel] /\ roster.detail.p = roster.sel
      BY <3>1, <3>2, <1>0
    <3>4. roster.detail = [p |-> roster.detail.p, v |-> roster.detail.v]
      BY <3>2
    <3> QED
      BY <2>1, <2>3, <3>3, <3>4 DEF MatchingDetail, Target
  <2>8. Follows(roster, after)
    BY <2>7, <2>1, <1>1 DEF Follows, Screen
  <2> QED
    BY <2>1, <2>2, <2>3, <2>5, <2>6, <2>8 DEF Reach
<1> QED
  BY <1>2, <1>3

(* An agent that is asked for by name is selected and shown, or nothing moves. *)
LEMMA KnownReach ==
  ASSUME NEW versions \in Versions, NEW r, Reach(r, versions), r.sel = roster.sel,
         mem.bound \in {None, Target(roster)}, NEW p \in Profiles
  PROVE  /\ Reach(Known(r, p, versions), versions)
         /\ Known(r, p, versions).rows = r.rows
         /\ Known(r, p, versions).sel = p /\ MayReplace([p |-> p, v |-> versions[p]]) =>
               Known(r, p, versions).detail # None
<1> DEFINE there == IF r.rows[p] > 0 /\ MaySelect(p) THEN Selected(r, p) ELSE r
           ref == [p |-> p, v |-> versions[p]]
           after == Known(r, p, versions)
<1>1. /\ Screen(there, versions) /\ there.rows = r.rows /\ there.sel \in {r.sel, p}
      /\ there.sel = r.sel => there = r
      /\ there.pane = r.pane \/ r.pane = "History"
      /\ there.sel # r.sel => ~Protected(mem)
  BY SelectedIs DEF Reach, MaySelect
<1> HIDE DEF there
<1>2. after = IF there.sel = p /\ MayReplace(ref) THEN WithDetail(there, ref) ELSE there
  BY DEF Known, there
<1>3. there.sel = p => versions[p] \in there.rows[there.sel] .. versions[there.sel]
  BY <1>1 DEF Screen, Versions
<1>4. there.sel = p =>
        LET shown == WithDetail(there, ref)
        IN /\ Screen(shown, versions)
           /\ shown.sel = there.sel /\ shown.rows = there.rows /\ shown.pane = there.pane
           /\ shown.detail = ref /\ shown.detail # None
           /\ there.history # None => shown.history # None
  BY <1>1, <1>3, WithDetailIs
<1> HIDE DEF after
<1>5. /\ Screen(after, versions) /\ after.rows = r.rows /\ after.sel = there.sel
      /\ after.pane = there.pane
      /\ after.detail # there.detail => MayReplace(ref) /\ after.detail = ref /\ after.sel = p
      /\ there.detail # None => after.detail # None
      /\ there.history # None => after.history # None
      /\ after.sel = p /\ MayReplace(ref) => after.detail # None
  BY <1>1, <1>2, <1>4
<1>6. Follows(roster, after)
  <2> SUFFICES ASSUME Target(after) = Target(roster)
               PROVE  /\ roster.detail # None => after.detail # None
                      /\ roster.history # None => after.history # None
    BY DEF Follows
  <2>1. after.sel = r.sel /\ after.rows[r.sel] = roster.rows[r.sel]
    BY DEF Target
  <2>2. there = r /\ Target(r) = Target(roster)
    BY <1>1, <1>5, <2>1 DEF Target
  <2> QED
    BY <1>5, <2>2 DEF Reach, Follows
<1>7. Spares(after) /\ SparesSelection(after)
  <2> SUFFICES ASSUME Protected(mem)
               PROVE  /\ after.sel = roster.sel
                      /\ mem.bound # None => /\ after.rows[mem.bound.p] = mem.bound.v
                                             /\ after.detail \in {None, roster.detail, mem.bound}
    BY DEF Spares, SparesSelection
  <2>1. there = r
    BY <1>1
  <2> QED
    BY <1>5, <2>1 DEF Reach, Spares, MayReplace
<1>8. after.pane = roster.pane \/ roster.pane = "History"
  BY <1>1, <1>5 DEF Reach
<1> QED
  BY <1>5, <1>6, <1>7, <1>8 DEF Reach, after

LEMMA RefreshedReach ==
  ASSUME NEW old \in Versions, Screen(roster, old), mem.bound \in {None, Target(roster)},
         NEW versions \in Versions, \A p \in Profiles : old[p] <= versions[p],
         NEW p \in Profiles
  PROVE  Reach(Refreshed(p, versions), versions)
<1> DEFINE known == Known(Relisted(roster, versions), p, versions)
           ref == [p |-> p, v |-> versions[p]]
<1>1. Reach(known, versions) /\ (known.sel = p /\ MayReplace(ref) => known.detail # None)
  BY RelistedReach, KnownReach
<1> HIDE DEF known
<1>2. Refreshed(p, versions) = IF known.sel = p /\ MayReplace(ref) THEN WithHistory(known, ref) ELSE known
  BY DEF Refreshed, known
<1>3. CASE known.sel = p /\ MayReplace(ref)
  <2>1. versions[p] \in Nat
    BY DEF Versions
  <2>2. LET after == WithHistory(known, ref)
        IN /\ Screen(after, versions)
           /\ after.sel = known.sel /\ after.rows = known.rows /\ after.pane = known.pane
           /\ after.detail = known.detail /\ after.history # None
    BY <1>1, <1>3, <2>1, WithHistoryIs DEF Reach
  <2> QED
    BY <1>1, <1>2, <1>3, <2>2 DEF Reach, Follows, Spares, SparesSelection, Target
<1>4. CASE ~(known.sel = p /\ MayReplace(ref))
  BY <1>1, <1>2, <1>4
<1> QED
  BY <1>3, <1>4

LEMMA SelectedReach ==
  ASSUME NEW versions \in Versions, Screen(roster, versions), mem.bound \in {None, Target(roster)},
         NEW q \in Profiles
  PROVE  LET to == IF MaySelect(q) THEN q ELSE roster.sel
         IN /\ Reach(Selected(roster, to), versions)
            /\ Selected(roster, to).sel = to /\ Selected(roster, to).rows = roster.rows
            /\ to # roster.sel => ~Protected(mem)
<1> DEFINE to == IF MaySelect(q) THEN q ELSE roster.sel
           after == Selected(roster, to)
<1>1. to \in Profiles /\ (to # roster.sel => ~Protected(mem))
  BY DEF MaySelect, Screen
<1> HIDE DEF to
<1>2. /\ Screen(after, versions) /\ after.sel = to /\ after.rows = roster.rows
      /\ to = roster.sel => after = roster
      /\ after.pane = roster.pane \/ roster.pane = "History"
  BY <1>1, SelectedIs
<1> HIDE DEF after
<1>3. CASE to = roster.sel
  BY <1>2, <1>3, StaysInReach DEF after, to
<1>4. CASE to # roster.sel
  <2>1. Target(after) # Target(roster)
    BY <1>2, <1>4 DEF Target
  <2>2. Reach(after, versions)
    BY <1>1, <1>2, <1>4, <2>1 DEF Reach, Follows, Spares, SparesSelection
  <2> QED
    BY <1>1, <1>2, <2>2 DEF after, to
<1> QED
  BY <1>3, <1>4

(* What the fields of a view are worth here: whose it is, and whether the    *)
(* runtime has a review for it *)
IsView(m) == "bound" \in DOMAIN m /\ "registered" \in DOMAIN m

LEMMA BlankIs ==
  /\ IsView(BlankMemory) /\ BlankMemory.bound = None /\ BlankMemory.registered = FALSE
  /\ \A ref : /\ IsView([BlankMemory EXCEPT !.bound = ref])
              /\ [BlankMemory EXCEPT !.bound = ref].bound = ref
              /\ [BlankMemory EXCEPT !.bound = ref].registered = FALSE
BY DEF IsView, BlankMemory

(* Wherever the list goes, the memory that stays is of the target. *)
LEMMA MemoryAfterIs ==
  ASSUME NEW versions \in Versions, NEW r, Reach(r, versions),
         IsView(mem), mem.bound \in {None, Target(roster)}, mem.registered \in BOOLEAN
  PROVE  /\ IsView(MemoryAfter(r)) /\ MemoryAfter(r).bound \in {None, Target(r)}
         /\ MemoryAfter(r).registered = mem.registered
<1> DEFINE blanks == \/ r.sel # roster.sel
                     \/ mem.bound # None /\ r.rows[mem.bound.p] # mem.bound.v
                     \/ mem.bound # None /\ r.detail \notin {None, roster.detail, mem.bound}
<1>1. MemoryAfter(r) = IF blanks THEN BlankMemory ELSE mem
  BY DEF MemoryAfter
<1>2. CASE blanks
  <2>1. ~Protected(mem)
    BY <1>2 DEF Reach, Spares, SparesSelection
  <2>2. mem.registered = FALSE
    BY <2>1 DEF Protected
  <2> QED
    BY <1>1, <1>2, <2>2, BlankIs
<1>3. CASE ~blanks
  <2>1. mem.bound # None => mem.bound = Target(r)
    BY <1>3 DEF Target
  <2> QED
    BY <1>1, <1>3, <2>1
<1> QED
  BY <1>2, <1>3

-----------------------------------------------------------------------------
(* The invariant *)

ReadFields == {"kind", "p", "v", "read", "fresh", "past"}

(* A request, and a read whose generation is the present one: it is for the  *)
(* present target, and what it was asked from is still there.               *)
Timely(x, r) ==
    x # None =>
      /\ "kind" \in DOMAIN x
      /\ x.kind = "profile" =>
          /\ DOMAIN x = ReadFields
          /\ x.fresh => /\ x.p = r.sel /\ x.v = r.rows[r.sel]
                        /\ x.read = "history" => r.detail # None
                        /\ x.read = "version" => r.history # None
      /\ x.kind = "command" =>
          /\ {"what", "key"} \subseteq DOMAIN x
          /\ x.what \in {"agents", "agent", "skills", "skill"}
          /\ x.what = "agent" => x.key \in Profiles

Screens ==
    /\ "version" \in DOMAIN store /\ store.version \in Versions
    /\ Screen(roster, store.version)
    /\ IsView(mem) /\ mem.bound \in {None, Target(roster)}
    /\ "profile" \in DOMAIN deferred
    /\ Timely(pending, roster) /\ Timely(deferred.profile, roster)

Unsure == IF desk.unsure THEN {"profile"} ELSE {}

(* What the screens say of the reviews is so; a new agent needs none. *)
Agree ==
    /\ mem.registered = ("memory" \in held)
    /\ shelf.registered = ("skill" \in held)
    /\ "profile" \in held /\ ~desk.unsure => desk.editor # None /\ desk.editor.mode = "edit"

Reviews ==
    /\ held \subseteq ReviewKinds
    /\ Running => left = None /\ Agree
    /\ left = None /\ ended # "uncancelled" => held \subseteq Owned \cup Unsure
    /\ left # None /\ ended # "uncancelled" => held \subseteq left.failed \cup Unsure

(* A form shows a review only of what it says. *)
Faithful(e) ==
    /\ e \in Forms
    /\ e.review # None => e.review.draft = e.draft
    /\ e.mode = "edit" => e.of \in Profiles

DeskFields == {"editor", "page", "field", "confirmation", "unsure"}

DeskForm ==
    /\ desk.editor # None => Faithful(desk.editor)
    /\ desk.confirmation # None =>
         /\ roster.pane = "Confirmation" /\ desk.editor # None
         /\ desk.confirmation.mode = desk.editor.mode /\ desk.confirmation.of = desk.editor.of
         /\ desk.confirmation.mode = "edit" => desk.confirmation.review.draft = desk.editor.draft

SkillFaithful(e) ==
    /\ {"mode", "draft", "review", "awaited", "note", "field"} \subseteq DOMAIN e
    /\ e.mode # "assign"
    /\ e.review # None => e.review.draft = e.draft

ShelfSound(k) ==
    /\ k.editor # None => SkillFaithful(k.editor)
    /\ k.confirmation # None =>
         /\ k.pane = "Confirmation"
         /\ k.confirmation.by = "editor" => k.confirmation.command.review.draft = k.editor.draft
         /\ k.confirmation.command.op = "assign" => k.confirmation.command.request.p \in Profiles
    /\ k.agent # None => k.agent.p \in Profiles
ShelfForm == ShelfSound(shelf)

IsShelf(k) == {"registered", "editor", "confirmation", "pane", "agent"} \subseteq DOMAIN k

IInv ==
    /\ DOMAIN desk = DeskFields /\ IsShelf(shelf)
    /\ Running => Screens /\ DeskForm /\ ShelfForm
    /\ Reviews

(* What is loaded, and of whom *)
SameScreen(s, r) ==
    /\ DOMAIN r = RosterFields
    /\ r.sel = s.sel /\ r.rows = s.rows
    /\ r.detail = s.detail /\ r.history = s.history /\ r.version = s.version

LEMMA SameScreenIs ==
  ASSUME NEW s, NEW r, SameScreen(s, r)
  PROVE  /\ \A versions : Screen(s, versions) => Screen(r, versions)
         /\ Target(r) = Target(s)
         /\ \A x : Timely(x, s) => Timely(x, r)
BY DEF SameScreen, Screen, Target, Timely

LEMMA RetargetedTimely ==
  ASSUME NEW r, Follows(roster, r), NEW x, Timely(x, roster)
  PROVE  Timely(Retargeted(r, x), r)
<1>1. CASE Target(r) = Target(roster)
  <2>1. r.sel = roster.sel /\ r.rows[r.sel] = roster.rows[roster.sel]
    BY <1>1 DEF Target
  <2> QED
    BY <1>1, <2>1 DEF Retargeted, Follows, Timely
<1>2. CASE Target(r) # Target(roster) /\ x # None /\ x.kind = "profile"
  <2> DEFINE stale == [x EXCEPT !.fresh = FALSE]
  <2>1. DOMAIN stale = ReadFields /\ ~stale.fresh /\ stale.kind = "profile"
    BY <1>2 DEF Timely, ReadFields
  <2>2. Retargeted(r, x) = stale
    BY <1>2 DEF Retargeted, StaleTarget
  <2> HIDE DEF stale
  <2> QED
    BY <2>1, <2>2 DEF Timely, ReadFields
<1>3. CASE Target(r) # Target(roster) /\ ~(x # None /\ x.kind = "profile")
  BY <1>3 DEF Retargeted, StaleTarget, Timely
<1> QED
  BY <1>1, <1>2, <1>3

LEMMA ReadTimely ==
  ASSUME NEW r, NEW read, read = "history" => r.detail # None, read = "version" => r.history # None
  PROVE  Timely(ReadRequest(r, read), r)
<1> DEFINE request == ReadRequest(r, read)
<1>1. /\ DOMAIN request = ReadFields /\ request.p = r.sel /\ request.v = r.rows[r.sel]
      /\ request.read = read /\ request.kind = "profile"
  BY DEF ReadRequest, ReadFields
<1> HIDE DEF request
<1> QED
  BY <1>1 DEF Timely, ReadFields, request

-----------------------------------------------------------------------------
(* Steps that leave a part alone *)

LEMMA AgreeReviews ==
  ASSUME Reviews, Running, left' = left, held' \subseteq ReviewKinds, Agree'
  PROVE  Reviews'
<1>1. left' = None
  BY DEF Reviews
<1>2. \A kind \in held' : kind \in (Owned \cup Unsure)'
  BY DEF Owned, Unsure, Agree, ReviewKinds
<1> QED
  BY <1>1, <1>2 DEF Reviews

LEMMA LostReviews ==
  ASSUME Reviews, Running, left' = left, ended' = "uncancelled", held' \subseteq ReviewKinds
  PROVE  Reviews'
BY DEF Reviews, Running

(* What the loop leaves to the teardown *)
LEMMA EndedIs ==
  ASSUME IInv, Running, left' = left, ended' # "no", held' \subseteq ReviewKinds,
         DOMAIN desk' = DeskFields, IsShelf(shelf)',
         ("memory" \in held => mem.registered)', ("skill" \in held => shelf.registered)',
         ("profile" \in held => desk.unsure \/ desk.editor # None)'
  PROVE  IInv'
<1>1. left' = None /\ ~Running'
  BY DEF IInv, Reviews, Running
<1>2. \A kind \in held' : kind \in (Owned \cup Unsure)'
  BY DEF Owned, Unsure, ReviewKinds
<1> QED
  BY <1>1, <1>2 DEF IInv, Reviews

LEMMA LostIs ==
  ASSUME IInv, Running, left' = left, ended' = "uncancelled", held' \subseteq ReviewKinds,
         DOMAIN desk' = DeskFields, IsShelf(shelf)'
  PROVE  IInv'
BY DEF IInv, Reviews, Running

LEMMA DeskStays ==
  ASSUME DeskForm, UNCHANGED desk, roster.pane = "Confirmation" => roster'.pane = "Confirmation"
  PROVE  DeskForm'
BY DEF DeskForm

LEMMA ShelfStays ==
  ASSUME ShelfForm, UNCHANGED shelf
  PROVE  ShelfForm'
BY DEF ShelfForm, ShelfSound

LEMMA ScreensStep ==
  ASSUME "version" \in DOMAIN store', store'.version \in Versions,
         NEW r, Reach(r, store'.version), SameScreen(r, roster'),
         IsView(mem'), mem'.bound \in {None, Target(r)},
         "profile" \in DOMAIN deferred', Timely(pending', r), Timely(deferred'.profile, r)
  PROVE  Screens'
BY SameScreenIs DEF Screens, Reach

LEMMA QuietScreens ==
  ASSUME Screens, SameScreen(roster, roster'),
         "version" \in DOMAIN store', store'.version = store.version,
         IsView(mem'), mem'.bound \in {None, Target(roster)},
         "profile" \in DOMAIN deferred', Timely(pending', roster), Timely(deferred'.profile, roster)
  PROVE  Screens'
BY SameScreenIs DEF Screens

(* What Agree takes of a step that does not touch a desk *)
LEMMA RunningIs ==
  ASSUME IInv, Running
  PROVE  /\ Screens /\ DeskForm /\ ShelfForm /\ Reviews /\ Agree /\ left = None
         /\ mem.registered \in BOOLEAN /\ shelf.registered \in BOOLEAN
         /\ DOMAIN desk = DeskFields /\ IsShelf(shelf) /\ held \subseteq ReviewKinds
<1>1. ("memory" \in held) \in BOOLEAN /\ ("skill" \in held) \in BOOLEAN
  OBVIOUS
<1>2. Agree
  BY DEF IInv, Reviews
<1>3. mem.registered \in BOOLEAN /\ shelf.registered \in BOOLEAN
  BY <1>1, <1>2 DEF Agree
<1> QED
  BY <1>3 DEF IInv, Reviews

(* A step of the memory desk, or an answer to it *)
Memorable ==
    /\ UNCHANGED <<desk, shelf, left>>
    /\ SameScreen(roster, roster')
    /\ roster.pane = "Confirmation" => roster'.pane = "Confirmation"
    /\ "version" \in DOMAIN store' /\ store'.version = store.version
    /\ IsView(mem') /\ mem'.bound \in {None, Target(roster)}
    /\ Timely(pending', roster)
    /\ "profile" \in DOMAIN deferred' /\ deferred'.profile = deferred.profile

LEMMA MemoryStep ==
  ASSUME IInv, Running, Memorable, held' \subseteq held \cup {"memory"},
         \/ /\ mem'.registered = ("memory" \in held')
            /\ held \subseteq held' \cup {"memory"}
         \/ ended' = "uncancelled"
  PROVE  IInv'
<1>1. Screens' /\ DeskForm' /\ ShelfForm'
  BY RunningIs, QuietScreens, DeskStays, ShelfStays DEF Memorable, Screens
<1>2. held' \subseteq ReviewKinds
  BY RunningIs DEF ReviewKinds
<1>3. Reviews'
  <2>1. CASE ended' = "uncancelled"
    BY <1>2, <2>1, RunningIs, LostReviews DEF Memorable
  <2>2. CASE mem'.registered = ("memory" \in held') /\ held \subseteq held' \cup {"memory"}
    <3>1. ("skill" \in held') = ("skill" \in held) /\ ("profile" \in held') = ("profile" \in held)
      BY <2>2
    <3>2. Agree'
      BY <2>2, <3>1, RunningIs DEF Memorable, Agree
    <3> QED
      BY <1>2, <3>2, RunningIs, AgreeReviews DEF Memorable
  <2> QED
    BY <2>1, <2>2
<1> QED
  BY <1>1, <1>3, RunningIs DEF IInv, Memorable

(* A view that a key may leave behind *)
Fits(m) == IsView(m) /\ m.registered = mem.registered /\ m.bound \in {None, Target(roster)}

Quiet ==
    /\ UNCHANGED <<desk, shelf>>
    /\ SameScreen(roster, roster')
    /\ roster.pane = "Confirmation" => roster'.pane = "Confirmation"

LEMMA ViewStep ==
  ASSUME IInv, Running, Quiet, NEW m, Fits(m), View(m)
  PROVE  IInv'
<1>1. Memorable
  BY RunningIs DEF Memorable, Quiet, View, Fits, Screens, hostVars
<1> QED
  BY <1>1, RunningIs, MemoryStep DEF View, Fits, hostVars, Agree

LEMMA PendingFits ==
  ASSUME NEW m, Fits(m), NEW intent
  PROVE  Fits(BegunPending(m, intent)) /\ Fits(Begun(m, intent)) /\ Fits(ReviewRequested(m))
BY DEF Fits, IsView, Begun, BegunPending, ReviewRequested, Bumped

LEMMA QueueStep ==
  ASSUME IInv, Running, Quiet, NEW m, Fits(m), NEW intent, NEW p, NEW command, NEW queue,
         "profile" \in DOMAIN queue, queue.profile = deferred.profile,
         Queue(m, intent, p, command, queue)
  PROVE  IInv'
<1>1. /\ UNCHANGED <<held, store, left>>
      /\ mem' \in {Begun(m, intent), BegunPending(m, None)}
      /\ "profile" \in DOMAIN deferred' /\ deferred'.profile = deferred.profile
      /\ pending' = pending \/ pending' = [kind |-> "memory", intent |-> intent, p |-> p, command |-> command]
  BY DEF Queue, KeepRunning
<1>2. Fits(mem')
  BY <1>1, PendingFits
<1>3. Timely(pending', roster)
  BY <1>1, RunningIs DEF Timely, Screens
<1>4. Memorable
  BY <1>1, <1>2, <1>3, RunningIs DEF Memorable, Quiet, Fits, Screens
<1> QED
  BY <1>1, <1>2, <1>4, RunningIs, MemoryStep DEF Fits, Agree

LEMMA AskStep ==
  ASSUME IInv, Running, Quiet, NEW m, Fits(m), NEW what, NEW key, Ask(m, what, key)
  PROVE  IInv'
BY RunningIs, QueueStep DEF Ask, Screens

-----------------------------------------------------------------------------
(* The memory desk *)

LEMMA KeyIsRunning ==
  /\ AtTheKeyboard => Running
  /\ InFront => Running /\ roster.tab = "agents"
BY DEF AtTheKeyboard, InFront

LEMMA MethodsFit ==
  ASSUME NEW m, Fits(m)
  PROVE  /\ \A pane : Fits(At(m, pane))
         /\ \A row : Fits(WithRow(m, row)) /\ Fits(WithPast(m, row)) /\ Fits(WithSug(m, row))
                     /\ Fits(WithEpisode(m, row))
         /\ \A x : Fits([m EXCEPT !.choice = x]) /\ Fits([m EXCEPT !.version = x])
                   /\ Fits([m EXCEPT !.editor = x]) /\ Fits([m EXCEPT !.intent = x])
<1>1. \A pane : Fits(At(m, pane))
  BY DEF Fits, IsView, At
<1>2. \A row : Fits(WithRow(m, row))
  BY DEF Fits, IsView, WithRow
<1>3. \A row : Fits(WithPast(m, row))
  BY DEF Fits, IsView, WithPast
<1>4. \A row : Fits(WithSug(m, row)) /\ Fits(WithEpisode(m, row))
  BY DEF Fits, IsView, WithSug, WithEpisode
<1>5. \A x : Fits([m EXCEPT !.choice = x]) /\ Fits([m EXCEPT !.version = x])
             /\ Fits([m EXCEPT !.editor = x]) /\ Fits([m EXCEPT !.intent = x])
  BY DEF Fits, IsView
<1> QED
  BY <1>1, <1>2, <1>3, <1>4, <1>5

LEMMA MemFits ==
  ASSUME IInv, Running
  PROVE  Fits(mem)
BY RunningIs DEF Fits, Screens

(* A key that moves the focus, the tab or the pane *)
LEMMA MovesAreQuiet ==
  ASSUME IInv, Running
  PROVE  /\ SameScreen(roster, roster)
         /\ \A x : /\ SameScreen(roster, [roster EXCEPT !.focus = x])
                   /\ [roster EXCEPT !.focus = x].pane = roster.pane
         /\ \A x : /\ SameScreen(roster, [roster EXCEPT !.pane = x])
                   /\ [roster EXCEPT !.pane = x].pane = x
         /\ \A x : /\ SameScreen(roster, [roster EXCEPT !.tab = x])
                   /\ [roster EXCEPT !.tab = x].pane = roster.pane
         /\ \A x, y : /\ SameScreen(roster, [roster EXCEPT !.pane = x, !.focus = y])
                      /\ [roster EXCEPT !.pane = x, !.focus = y].pane = x
<1>1. DOMAIN roster = RosterFields
  BY RunningIs DEF Screens, Screen
<1> QED
  BY <1>1 DEF SameScreen, RosterFields

LEMMA UnprotectedIs ==
  ASSUME IInv, Running, ~Protected(mem)
  PROVE  mem.registered = FALSE
BY RunningIs DEF Protected

LEMMA OpenMemoryKeeps ==
  ASSUME IInv, UNCHANGED <<desk, shelf>>, OpenMemory
  PROVE  IInv'
<1>1. Running /\ roster.pane # "Confirmation" /\ roster.detail = Target(roster)
  BY KeyIsRunning DEF OpenMemory, OnDetail, AgentsKey, MatchingDetail
<1>2. Quiet
  BY <1>1, MovesAreQuiet DEF OpenMemory, Quiet
<1>3. Fits(Bound(mem, roster.detail))
  <2>1. CASE mem.bound = roster.detail
    BY <1>1, <2>1, MemFits DEF Bound
  <2>2. CASE mem.bound # roster.detail
    BY <1>1, <2>2, UnprotectedIs, BlankIs DEF OpenMemory, MayBind, Bound, Fits
  <2> QED
    BY <2>1, <2>2
<1> QED
  BY <1>1, <1>2, <1>3, AskStep DEF OpenMemory

LEMMA OnLayerIs ==
  /\ \A pane : OnLayer(pane) \/ Leaving(pane) \/ EnterOn(pane) => Running /\ roster.pane = "Memory"
  /\ EditorKey => Running /\ roster.pane = "Memory"
  /\ \A step : Editing(step) => Running /\ roster.pane = "Memory"
BY KeyIsRunning DEF OnLayer, Leaving, EnterOn, EditorKey, Editing, EditorOpen

LEMMA StillIsQuiet ==
  ASSUME IInv, Running, UNCHANGED <<desk, shelf>>, UNCHANGED roster \/ ToWorkspace
  PROVE  Quiet
BY MovesAreQuiet DEF Quiet, ToWorkspace

LEMMA PickingKeeps ==
  ASSUME IInv, UNCHANGED <<desk, shelf>>,
         \/ \E n \in Notes : PickNote(n)
         \/ \E v \in 1 .. MaxVersion : PickVersion(v)
         \/ \E s \in Suggestions : PickSuggestion(s)
         \/ \E x \in {"approve", "reject"} : ChooseResolution(x)
         \/ \E e \in Summaries : PickEpisode(e)
  PROVE  IInv'
<1>1. PICK m, x : /\ View(m) /\ UNCHANGED roster /\ Running
                  /\ m \in {WithRow(mem, x), WithPast(mem, x), WithSug(mem, x), WithEpisode(mem, x),
                            [mem EXCEPT !.choice = x]}
  BY OnLayerIs DEF PickNote, PickVersion, PickSuggestion, ChooseResolution, PickEpisode
<1>2. Fits(mem)
  BY <1>1, MemFits
<1>3. /\ Fits(WithRow(mem, x)) /\ Fits(WithPast(mem, x)) /\ Fits(WithSug(mem, x))
      /\ Fits(WithEpisode(mem, x)) /\ Fits([mem EXCEPT !.choice = x])
  BY <1>2, MethodsFit
<1>4. Fits(m)
  BY <1>1, <1>3
<1> QED
  BY <1>1, <1>4, StillIsQuiet, ViewStep

LEMMA OpeningKeeps ==
  ASSUME IInv, UNCHANGED <<desk, shelf>>,
         \/ OpenNote \/ OpenProposals \/ OpenEpisodes \/ OpenNoteHistory \/ OpenVersion
         \/ OpenSuggestion \/ OpenEpisode
  PROVE  IInv'
<1>1. Running /\ (UNCHANGED roster \/ ToWorkspace)
  BY OnLayerIs DEF OpenNote, OpenProposals, OpenEpisodes, OpenNoteHistory, OpenVersion,
                   OpenSuggestion, OpenEpisode
<1>2. Fits(mem)
  BY <1>1, MemFits
<1>3. /\ Fits(At(WithRow(mem, mem.row), "EntryDetail")) /\ Fits(At(mem, "Proposals"))
      /\ Fits(At(mem, "EpisodicSummaries")) /\ Fits(At(mem, "EntryHistory"))
      /\ Fits(WithPast(mem, mem.past)) /\ Fits(At(WithSug(mem, mem.sug), "ProposalDetail"))
      /\ Fits(At(WithEpisode(mem, mem.episode), "EpisodicDetail"))
  BY <1>2, MethodsFit
<1>4. PICK m, what, key : Fits(m) /\ Ask(m, what, key)
  BY <1>3 DEF OpenNote, OpenProposals, OpenEpisodes, OpenNoteHistory, OpenVersion,
              OpenSuggestion, OpenEpisode
<1> QED
  BY <1>1, <1>4, StillIsQuiet, AskStep

LEMMA DraftsKeep ==
  ASSUME IInv, UNCHANGED <<desk, shelf>>,
         \/ OpenCreate \/ OpenEdit \/ BackInEditor
         \/ \E n \in Notes : NameDraft(n)
         \/ \E same \in BOOLEAN : WriteDraft(same)
  PROVE  IInv'
<1>1. Running /\ (UNCHANGED roster \/ ToWorkspace)
  BY OnLayerIs DEF OpenCreate, OpenEdit, BackInEditor, NameDraft, WriteDraft
<1>2. Fits(mem) /\ Quiet
  BY <1>1, MemFits, StillIsQuiet
<1>3. ASSUME ~Protected(mem), NEW e, NEW origin
      PROVE  Fits(Opened(mem, e, origin))
  <2>1. mem.registered = FALSE
    BY <1>1, <1>3, UnprotectedIs
  <2> QED
    BY <1>2, <2>1 DEF Fits, IsView, Opened, At
<1>4. \A e, pane : Fits(WithEditor(e)) /\ Fits(At(WithEditor(e), pane))
  BY <1>2, MethodsFit DEF WithEditor
<1>5. PICK m : Fits(m) /\ View(m)
  BY <1>3, <1>4 DEF OpenCreate, OpenEdit, BackInEditor, NameDraft, WriteDraft
<1> QED
  BY <1>1, <1>2, <1>5, ViewStep

LEMMA LeaveLayerKeeps ==
  ASSUME IInv, UNCHANGED <<desk, shelf>>, LeaveLayer
  PROVE  IInv'
<1>1. Running /\ roster.pane = "Memory"
  BY KeyIsRunning DEF LeaveLayer
<1>2. Fits(mem)
  BY <1>1, MemFits
<1>3. UNCHANGED roster \/ roster' = [roster EXCEPT !.pane = "Detail"]
  BY DEF LeaveLayer
<1>4. Quiet
  BY <1>1, <1>3, MovesAreQuiet DEF Quiet
<1>5. /\ \A pane : Fits(At(mem, pane))
      /\ Fits([mem EXCEPT !.version = None])
  BY <1>2, MethodsFit
<1>6. PICK m : Fits(m) /\ View(m)
  <2>1. View(mem) \/ (\E pane : View(At(mem, pane))) \/ View([mem EXCEPT !.version = None])
    BY DEF LeaveLayer, View
  <2> QED
    BY <1>2, <1>5, <2>1
<1> QED
  BY <1>1, <1>4, <1>6, ViewStep

(* What the runtime says at once to a request for a review *)
LEMMA PreviewStep ==
  ASSUME IInv, Running, UNCHANGED <<desk, shelf, pending, deferred, left, store, roster>>,
         mem.registered = FALSE,
         \/ PreviewFails \/ CancelledAndEnded
         \/ \E m : Fits(m) /\ mem' = m /\ UNCHANGED <<ended, held>>
         \/ \E m : InstallReview(m) /\ IsView(m) /\ m.registered /\ m.bound = mem.bound
  PROVE  IInv'
<1>1. Fits(mem) /\ Fits(ReviewRequested(mem)) /\ "memory" \notin held
  BY MemFits, PendingFits, RunningIs DEF Agree
<1>2. /\ IsView([ReviewRequested(mem) EXCEPT !.registered = FALSE])
      /\ [ReviewRequested(mem) EXCEPT !.registered = FALSE].bound \in {None, Target(roster)}
      /\ [ReviewRequested(mem) EXCEPT !.registered = FALSE].registered = FALSE
  BY <1>1 DEF Fits, IsView
<1>3. Memorable
  <2>1. IsView(mem') /\ mem'.bound \in {None, Target(roster)}
    BY <1>1, <1>2 DEF PreviewFails, CancelledAndEnded, InstallReview, Fits
  <2> QED
    BY <2>1, RunningIs, MovesAreQuiet DEF Memorable, Screens
<1>4. CASE CancelledAndEnded
  <2>1. /\ mem'.registered = FALSE
        /\ \/ held' = held \ {"memory"}
           \/ held' = held \cup {"memory"} /\ ended' = "uncancelled"
    BY <1>2, <1>4 DEF CancelledAndEnded
  <2>2. held' = held \ {"memory"} => ("memory" \in held') = FALSE
    OBVIOUS
  <2>3. /\ held' \subseteq held \cup {"memory"} /\ held \subseteq held' \cup {"memory"}
        /\ mem'.registered = ("memory" \in held') \/ ended' = "uncancelled"
    BY <2>1, <2>2
  <2> QED
    BY <1>1, <1>3, <2>3, MemoryStep
<1>5. CASE ~CancelledAndEnded
  <2>1. /\ held' \subseteq held \cup {"memory"} /\ held \subseteq held' \cup {"memory"}
        /\ mem'.registered = ("memory" \in held')
    <3>1. CASE held' = held /\ (mem' = ReviewRequested(mem) \/ \E m : Fits(m) /\ mem' = m)
      BY <1>1, <3>1, RunningIs DEF Fits, Agree
    <3>2. CASE \E m : InstallReview(m) /\ m.registered /\ IsView(m)
      <4>1. mem'.registered /\ held' = held \cup {"memory"}
        BY <3>2 DEF InstallReview
      <4> QED
        BY <4>1
    <3> QED
      BY <1>5, <3>1, <3>2 DEF PreviewFails
  <2> QED
    BY <1>3, <2>1, MemoryStep
<1> QED
  BY <1>4, <1>5

LEMMA ReviewedIs ==
  ASSUME NEW m, Fits(m), NEW pane
  PROVE  /\ IsView(Reviewed(m, pane)) /\ Reviewed(m, pane).registered /\ Reviewed(m, pane).bound = m.bound
<1>1. Fits(At(m, pane))
  BY MethodsFit
<1>2. At(m, pane).bound = m.bound
  BY DEF At, Fits, IsView
<1> QED
  BY <1>1, <1>2 DEF Reviewed, Fits, IsView

LEMMA SubmitTagsKeeps ==
  ASSUME IInv, UNCHANGED <<desk, shelf>>, SubmitTags
  PROVE  IInv'
<1>1. Running /\ mem.registered = FALSE
  <2>1. Running /\ ~mem.registered
    BY OnLayerIs DEF SubmitTags, MayRequestReview
  <2> QED
    BY <2>1, RunningIs
<1>2. Fits(mem) /\ Fits(ReviewRequested(mem))
  BY <1>1, MemFits, PendingFits
<1> DEFINE asked == [ReviewRequested(mem) EXCEPT !.editor.shown = None]
<1>3. Fits(asked) /\ asked.bound = mem.bound
  BY <1>2 DEF Fits, IsView, ReviewRequested, Bumped
<1>4. Fits([asked EXCEPT !.editor.step = "Review"])
  BY <1>3 DEF Fits, IsView
<1>5. \A review : LET m == [Reviewed(asked, "MutationReview") EXCEPT
                             !.review = review, !.editor.shown = review, !.editor.step = "Review"]
                  IN IsView(m) /\ m.registered /\ m.bound = mem.bound
  <2> HIDE DEF asked
  <2> QED
    BY <1>3, ReviewedIs DEF IsView
<1>6. \/ PreviewFails \/ CancelledAndEnded
      \/ \E m : Fits(m) /\ mem' = m /\ UNCHANGED <<ended, held>>
      \/ \E m : InstallReview(m) /\ IsView(m) /\ m.registered /\ m.bound = mem.bound
  BY <1>4, <1>5 DEF SubmitTags
<1>7. UNCHANGED <<pending, deferred, left, store, roster>>
  BY DEF SubmitTags
<1> QED
  BY <1>1, <1>6, <1>7, PreviewStep

LEMMA RequestsKeep ==
  ASSUME IInv, UNCHANGED <<desk, shelf>>, RequestDelete \/ RequestResolution
  PROVE  IInv'
<1>1. Running /\ mem.registered = FALSE
  <2>1. Running /\ ~mem.registered
    BY OnLayerIs DEF RequestDelete, RequestResolution, MayRequestReview
  <2> QED
    BY <2>1, RunningIs
<1>2. Fits(mem) /\ Fits(ReviewRequested(mem)) /\ ReviewRequested(mem).bound = mem.bound
  BY <1>1, MemFits, PendingFits DEF ReviewRequested, Bumped, Fits, IsView
<1>3. \A pane, review :
        LET m == [Reviewed(ReviewRequested(mem), pane) EXCEPT !.review = review]
        IN IsView(m) /\ m.registered /\ m.bound = mem.bound
  BY <1>2, ReviewedIs DEF IsView
<1>4. \A pane, review :
        LET m == [Reviewed(ReviewRequested(mem), pane) EXCEPT !.resolution = review]
        IN IsView(m) /\ m.registered /\ m.bound = mem.bound
  BY <1>2, ReviewedIs DEF IsView
<1>5. \/ PreviewFails \/ CancelledAndEnded
      \/ \E m : Fits(m) /\ mem' = m /\ UNCHANGED <<ended, held>>
      \/ \E m : InstallReview(m) /\ IsView(m) /\ m.registered /\ m.bound = mem.bound
  BY <1>2, <1>3, <1>4 DEF RequestDelete, RequestResolution
<1>6. UNCHANGED <<pending, deferred, left, store, roster>>
  BY DEF RequestDelete, RequestResolution
<1> QED
  BY <1>1, <1>5, <1>6, PreviewStep

LEMMA ConfirmingKeeps ==
  ASSUME IInv, UNCHANGED <<desk, shelf>>, ConfirmReview \/ LeaveConfirmation \/ Execute
  PROVE  IInv'
<1>1. Running /\ UNCHANGED roster
  BY OnLayerIs, KeyIsRunning DEF ConfirmReview, LeaveConfirmation, Execute, Leaving, EnterOn, EditorKey
<1>2. Fits(mem) /\ Quiet
  BY <1>1, MemFits, StillIsQuiet
<1>3. \A pane : Fits(At(mem, pane))
  BY <1>2, MethodsFit
<1>4. \A c : Fits([At(mem, "Confirmation") EXCEPT !.confirmation = c])
  BY <1>3 DEF Fits, IsView
<1>5. CASE ConfirmReview \/ LeaveConfirmation
  <2>1. PICK m : Fits(m) /\ View(m)
    BY <1>3, <1>4, <1>5 DEF ConfirmReview, LeaveConfirmation
  <2> QED
    BY <1>1, <1>2, <2>1, ViewStep
<1>6. CASE Execute
  <2>1. "profile" \in DOMAIN deferred
    BY <1>1, RunningIs DEF Screens
  <2> QED
    BY <1>1, <1>2, <1>6, <2>1, QueueStep DEF Execute
<1> QED
  BY <1>5, <1>6

LEMMA UnwoundIs ==
  ASSUME IInv, Running
  PROVE  LET m == [Unwound(mem) EXCEPT !.intent = None]
         IN IsView(m) /\ m.registered = FALSE /\ m.bound = mem.bound
<1> DEFINE bare == [mem EXCEPT !.confirmation = None, !.registered = FALSE]
<1>1. IsView(bare) /\ bare.registered = FALSE /\ bare.bound = mem.bound
  BY RunningIs DEF IsView, Screens
<1> HIDE DEF bare
<1>2. \A pane : /\ IsView(At(bare, pane)) /\ At(bare, pane).registered = FALSE
                /\ At(bare, pane).bound = mem.bound
  BY <1>1 DEF At, IsView
<1>3. \A pane, e : LET m == [At(bare, pane) EXCEPT !.review = None, !.editor = e]
                   IN IsView(m) /\ m.registered = FALSE /\ m.bound = mem.bound
  BY <1>2 DEF IsView
<1>4. \A pane : LET m == [At(bare, pane) EXCEPT !.resolution = None]
                IN IsView(m) /\ m.registered = FALSE /\ m.bound = mem.bound
  BY <1>2 DEF IsView
<1>5. IsView(Unwound(mem)) /\ Unwound(mem).registered = FALSE /\ Unwound(mem).bound = mem.bound
  BY <1>1, <1>3, <1>4 DEF Unwound, bare
<1> QED
  BY <1>5 DEF IsView

LEMMA CancelReviewKeeps ==
  ASSUME IInv, UNCHANGED <<desk, shelf>>, CancelReview
  PROVE  IInv'
<1>1. Running /\ UNCHANGED <<pending, deferred, left, store, roster>>
  BY KeyIsRunning DEF CancelReview, Leaving, EditorKey
<1> DEFINE m == [Unwound(mem) EXCEPT !.intent = None]
           n == [mem EXCEPT !.registered = FALSE]
<1>2. IsView(m) /\ m.registered = FALSE /\ m.bound = mem.bound
  BY <1>1, UnwoundIs
<1>3. IsView(n) /\ n.bound = mem.bound
  BY <1>1, RunningIs DEF IsView, Screens
<1>4. \/ held' = held \ {"memory"} /\ mem' = m
      \/ ended' = "uncancelled" /\ mem' = n /\ held' = held
  BY DEF CancelReview, CancelAndUnwind
<1> HIDE DEF m, n
<1>5. Memorable
  BY <1>1, <1>2, <1>3, <1>4, RunningIs, MovesAreQuiet DEF Memorable, Screens
<1>6. held' = held \ {"memory"} => ("memory" \in held') = FALSE
  OBVIOUS
<1>7. /\ held' \subseteq held \cup {"memory"} /\ held \subseteq held' \cup {"memory"}
      /\ mem'.registered = ("memory" \in held') \/ ended' = "uncancelled"
  BY <1>2, <1>4, <1>6
<1> QED
  BY <1>1, <1>5, <1>7, MemoryStep

(* Answers *)

LEMMA PendingIs ==
  ASSUME NEW kind, Pending(kind)
  PROVE  Running /\ pending # None /\ pending.kind = kind
BY DEF Pending, InFlight, Free

LEMMA ForgottenIs ==
  ASSUME IInv, Running
  PROVE  Fits(Forgotten)
BY MemFits DEF Forgotten, Fits, IsView

LEMMA HydratedIs ==
  ASSUME NEW m, Fits(m), NEW intent, NEW view, NEW row
  PROVE  Fits(Hydrated(m, intent, view, row))
<1> DEFINE cleared == [m EXCEPT !.intent = None]
<1>1. Fits(cleared)
  BY MethodsFit
<1> HIDE DEF cleared
<1>2. \A x : /\ Fits([cleared EXCEPT !.rows = x]) /\ Fits([cleared EXCEPT !.detail = x])
             /\ Fits([cleared EXCEPT !.history = x]) /\ Fits([cleared EXCEPT !.version = x])
             /\ Fits([cleared EXCEPT !.sugs = x]) /\ Fits([cleared EXCEPT !.proposal = x])
             /\ Fits([cleared EXCEPT !.episodes = x]) /\ Fits([cleared EXCEPT !.summary = x])
  BY <1>1 DEF Fits, IsView
<1>3. Fits(WithRow([cleared EXCEPT !.rows = view.rows], row))
  BY <1>2, MethodsFit
<1>4. Fits(WithPast([cleared EXCEPT !.history = view.item], row))
  BY <1>2, MethodsFit
<1>5. Fits(WithSug([cleared EXCEPT !.sugs = view.rows], row))
  BY <1>2, MethodsFit
<1>6. Fits(WithEpisode([cleared EXCEPT !.episodes = view.rows], row))
  BY <1>2, MethodsFit
<1> QED
  BY <1>1, <1>2, <1>3, <1>4, <1>5, <1>6 DEF Hydrated, cleared

LEMMA ReadAnsweredKeeps ==
  ASSUME IInv, UNCHANGED <<desk, shelf>>, ReadAnswered
  PROVE  IInv'
<1>1. Running /\ pending' = None /\ UNCHANGED <<deferred, held, left, store, roster>>
  BY PendingIs DEF ReadAnswered
<1>2. Fits(mem) /\ Fits(Forgotten)
  BY <1>1, MemFits, ForgottenIs
<1>3. \A intent, view, row : Fits(Hydrated(mem, intent, view, row))
  BY <1>2, HydratedIs
<1>4. Fits(mem')
  BY <1>2, <1>3 DEF ReadAnswered
<1>5. Memorable
  BY <1>1, <1>4, RunningIs, MovesAreQuiet DEF Memorable, Screens, Fits, Timely
<1> QED
  BY <1>1, <1>4, <1>5, RunningIs, MemoryStep DEF Fits, Agree

LEMMA MutationAnsweredKeeps ==
  ASSUME IInv, UNCHANGED <<desk, shelf>>, MutationAnswered
  PROVE  IInv'
<1>1. /\ Running /\ pending' = None /\ UNCHANGED <<left, roster>>
      /\ "memory" \in held /\ held' = held \ {"memory"} /\ store' = CarriedOut(pending.command)
  BY PendingIs DEF MutationAnswered, StillHolds
<1>2. "version" \in DOMAIN store' /\ store'.version = store.version
  <2>1. "version" \in DOMAIN store
    BY <1>1, RunningIs DEF Screens
  <2> QED
    BY <1>1, <2>1 DEF CarriedOut
<1>3. Fits(Forgotten)
  BY <1>1, ForgottenIs
<1>4. CASE mem' = Completed(mem, pending.intent.what)
           /\ \E queue : deferred' = [deferred EXCEPT !.memory = queue]
  <2>1. IsView(mem') /\ mem'.registered = FALSE /\ mem'.bound = mem.bound
    <3>1. Fits(At(mem, "Result")) /\ At(mem, "Result").bound = mem.bound
      BY <1>1, MemFits, MethodsFit DEF At, Fits, IsView
    <3> QED
      BY <1>4, <3>1 DEF Completed, Fits, IsView
  <2>2. "profile" \in DOMAIN deferred' /\ deferred'.profile = deferred.profile
    BY <1>1, <1>4, RunningIs DEF Screens
  <2>3. Memorable
    BY <1>1, <1>2, <2>1, <2>2, RunningIs, MovesAreQuiet DEF Memorable, Screens, Timely
  <2>4. ("memory" \in held') = FALSE
    BY <1>1
  <2> QED
    BY <1>1, <2>1, <2>3, <2>4, MemoryStep
<1>5. CASE mem' = Forgotten /\ ended' = "unexpected"
  <2>1. /\ "memory" \notin held'
        /\ "skill" \in held' => shelf'.registered
        /\ "profile" \in held' => desk'.unsure \/ desk'.editor # None
    BY <1>1, RunningIs DEF Agree
  <2>2. held' \subseteq ReviewKinds /\ DOMAIN desk' = DeskFields /\ IsShelf(shelf)'
    BY <1>1, RunningIs DEF IsShelf
  <2> QED
    BY <1>1, <1>5, <2>1, <2>2, EndedIs
<1> QED
  BY <1>4, <1>5 DEF MutationAnswered

LEMMA MutationRefusedKeeps ==
  ASSUME IInv, UNCHANGED <<desk, shelf>>, MutationRefused
  PROVE  IInv'
<1>1. Running /\ pending' = None /\ UNCHANGED <<deferred, left, store, roster>>
  BY PendingIs DEF MutationRefused
<1> DEFINE m == [Unwound(mem) EXCEPT !.intent = None]
           n == [Forgotten EXCEPT !.registered = FALSE]
<1>2. IsView(m) /\ m.registered = FALSE /\ m.bound = mem.bound
  BY <1>1, UnwoundIs
<1>3. Fits(Forgotten)
  BY <1>1, ForgottenIs
<1>4. IsView(n) /\ n.registered = FALSE /\ n.bound \in {None, Target(roster)}
  BY <1>3 DEF IsView, Fits
<1>5. \/ held' = held /\ mem' = Forgotten
      \/ held' = held \ {"memory"} /\ mem' \in {m, n}
  BY DEF MutationRefused
<1> HIDE DEF m, n
<1>6. Memorable
  <2>1. IsView(mem') /\ mem'.bound \in {None, Target(roster)}
    BY <1>2, <1>3, <1>4, <1>5, <1>1, RunningIs DEF Fits, Screens
  <2> QED
    BY <1>1, <2>1, RunningIs, MovesAreQuiet DEF Memorable, Screens, Timely
<1>7. CASE held' = held /\ mem' = Forgotten
  BY <1>1, <1>3, <1>6, <1>7, RunningIs, MemoryStep DEF Fits, Agree
<1>8. CASE held' = held \ {"memory"} /\ mem' \in {m, n}
  <2>1. ("memory" \in held') = FALSE /\ mem'.registered = FALSE
    BY <1>2, <1>4, <1>8
  <2> QED
    BY <1>1, <1>6, <1>8, <2>1, MemoryStep
<1> QED
  BY <1>5, <1>7, <1>8

LEMMA RunDeferredMemoryKeeps ==
  ASSUME IInv, UNCHANGED <<desk, shelf>>, RunDeferredMemory
  PROVE  IInv'
<1>1. Running /\ UNCHANGED roster
  BY DEF RunDeferredMemory
<1>2. Fits(mem) /\ Quiet
  BY <1>1, MemFits, StillIsQuiet
<1>3. "profile" \in DOMAIN [deferred EXCEPT !.memory = Tail(@)]
      /\ [deferred EXCEPT !.memory = Tail(@)].profile = deferred.profile
  BY <1>1, RunningIs DEF Screens
<1> QED
  BY <1>1, <1>2, <1>3, QueueStep DEF RunDeferredMemory

LEMMA NoteKeysKeep ==
  ASSUME IInv, UNCHANGED <<desk, shelf>>, NoteKeys \/ MemoryAnswers
  PROVE  IInv'
BY OpenMemoryKeeps, OpeningKeeps, LeaveLayerKeeps, PickingKeeps, DraftsKeep, SubmitTagsKeeps,
   RequestsKeep, ConfirmingKeeps, CancelReviewKeeps, ReadAnsweredKeeps, MutationAnsweredKeeps,
   MutationRefusedKeeps
   DEF NoteKeys, MemoryAnswers

-----------------------------------------------------------------------------
(* The list of agents *)

(* A read of the present target, behind what was asked before *)
LEMMA ReadIs ==
  ASSUME NEW r, NEW read, read = "history" => r.detail # None, read = "version" => r.history # None,
         NEW slot, Timely(slot, r), NEW queue, "profile" \in DOMAIN queue, Timely(queue.profile, r),
         Read(r, read, slot, queue)
  PROVE  /\ Timely(pending', r) /\ "profile" \in DOMAIN deferred' /\ Timely(deferred'.profile, r)
         /\ UNCHANGED <<stopping, ended, left>>
<1> DEFINE request == ReadRequest(r, read)
<1>1. Timely(request, r)
  BY ReadTimely
<1> HIDE DEF request
<1>2. /\ pending' \in {slot, request}
      /\ deferred' \in {queue, [queue EXCEPT !.profile = request]}
      /\ UNCHANGED <<stopping, ended, left>>
  BY DEF Read, KeepRunning, request
<1> QED
  BY <1>1, <1>2

LEMMA RetargetIs ==
  ASSUME IInv, Running, NEW r, Follows(roster, r)
  PROVE  /\ Timely(Retargeted(r, pending), r)
         /\ "profile" \in DOMAIN Retarget(r, deferred) /\ Timely(Retarget(r, deferred).profile, r)
BY RunningIs, RetargetedTimely DEF Screens, Retarget

(* A step of the list, with or without a read *)
LEMMA ListStep ==
  ASSUME IInv, Running, UNCHANGED <<desk, shelf, held, store, left>>,
         NEW r, Reach(r, store.version), SameScreen(r, roster'),
         roster.pane = "Confirmation" => roster'.pane = "Confirmation",
         IsView(mem'), mem'.bound \in {None, Target(r)}, mem'.registered = mem.registered,
         Timely(pending', r), "profile" \in DOMAIN deferred', Timely(deferred'.profile, r)
  PROVE  IInv'
<1>1. Screens' /\ DeskForm' /\ ShelfForm'
  BY RunningIs, ScreensStep, DeskStays, ShelfStays DEF Screens
<1>2. Agree'
  BY RunningIs DEF Agree
<1> QED
  BY <1>1, <1>2, RunningIs, AgreeReviews DEF IInv

(* The list as it is, in another pane *)
LEMMA StayingStep ==
  ASSUME IInv, Running, UNCHANGED <<desk, shelf, held, store, left, mem>>,
         SameScreen(roster, roster'),
         roster.pane = "Confirmation" => roster'.pane = "Confirmation",
         Timely(pending', roster), "profile" \in DOMAIN deferred', Timely(deferred'.profile, roster)
  PROVE  IInv'
BY RunningIs, StaysInReach, ListStep DEF Screens

LEMMA ReadNowStep ==
  ASSUME IInv, Running, UNCHANGED <<desk, shelf, held, store, mem>>,
         SameScreen(roster, roster'),
         roster.pane = "Confirmation" => roster'.pane = "Confirmation",
         NEW read, read = "history" => roster.detail # None, read = "version" => roster.history # None,
         ReadNow(roster, read)
  PROVE  IInv'
<1>1. /\ Timely(pending', roster) /\ "profile" \in DOMAIN deferred' /\ Timely(deferred'.profile, roster)
      /\ UNCHANGED left
  BY RunningIs, ReadIs DEF ReadNow, Screens
<1> QED
  BY <1>1, StayingStep

LEMMA SelectAgentKeeps ==
  ASSUME IInv, UNCHANGED <<desk, shelf>>, NEW q \in Profiles, SelectAgent(q)
  PROVE  IInv'
<1> DEFINE to == IF MaySelect(q) THEN q ELSE roster.sel
           after == Selected(roster, to)
<1>1. Running /\ roster.pane # "Confirmation"
  BY KeyIsRunning DEF SelectAgent, AgentsKey
<1>2. /\ Reach(after, store.version) /\ after.sel = to /\ after.rows = roster.rows
      /\ to # roster.sel => ~Protected(mem)
      /\ to = roster.sel => after = roster
  <2>1. store.version \in Versions /\ Screen(roster, store.version) /\ mem.bound \in {None, Target(roster)}
    BY <1>1, RunningIs DEF Screens
  <2>2. /\ Reach(after, store.version) /\ after.sel = to /\ after.rows = roster.rows
        /\ to # roster.sel => ~Protected(mem)
    BY <2>1, SelectedReach
  <2> QED
    BY <2>2 DEF Selected
<1> HIDE DEF to
<1>3. /\ roster' = after
      /\ mem' = IF to # roster.sel THEN BlankMemory ELSE mem
      /\ Read(after, "detail", Retargeted(after, pending), Retarget(after, deferred))
      /\ UNCHANGED <<held, store>>
  BY DEF SelectAgent, to
<1> HIDE DEF after
<1>4. /\ Timely(pending', after) /\ "profile" \in DOMAIN deferred' /\ Timely(deferred'.profile, after)
      /\ UNCHANGED left
  BY <1>1, <1>2, <1>3, RetargetIs, ReadIs DEF Reach
<1>5. IsView(mem') /\ mem'.bound \in {None, Target(after)} /\ mem'.registered = mem.registered
  <2>1. CASE to # roster.sel
    BY <1>1, <1>2, <1>3, <2>1, UnprotectedIs, BlankIs
  <2>2. CASE to = roster.sel
    BY <1>1, <1>2, <1>3, <2>2, RunningIs DEF Screens
  <2> QED
    BY <2>1, <2>2
<1>6. SameScreen(after, after)
  BY <1>2 DEF SameScreen, Reach, Screen
<1> QED
  BY <1>1, <1>2, <1>3, <1>4, <1>5, <1>6, ListStep

LEMMA ListKeysKeep ==
  ASSUME IInv, UNCHANGED <<desk, shelf>>,
         OpenAgent \/ AwaitDetail \/ OpenHistory \/ OpenSkillPanel \/ ShowPast
  PROVE  IInv'
<1>1. Running /\ roster.pane # "Confirmation"
  BY KeyIsRunning DEF OpenAgent, AwaitDetail, OpenHistory, OpenSkillPanel, ShowPast, OnDetail, AgentsKey
<1>2. CASE OpenAgent \/ AwaitDetail
  <2>1. SameScreen(roster, roster') /\ UNCHANGED <<held, mem, store>> /\ ReadNow(roster, "detail")
    <3>1. CASE OpenAgent
      BY <1>1, <3>1, MovesAreQuiet DEF OpenAgent
    <3>2. CASE AwaitDetail
      <4>1. UNCHANGED <<held, roster, mem, store>> /\ ReadNow(roster, "detail")
        BY <3>2 DEF AwaitDetail, rosterVars
      <4> QED
        BY <1>1, <4>1, MovesAreQuiet
    <3> QED
      BY <1>2, <3>1, <3>2
  <2> QED
    BY <1>1, <2>1, ReadNowStep
<1>3. CASE OpenHistory
  <2>1. roster.detail # None
    <3>1. Target(roster) # None
      <4>1. Target(roster) \in [p : Profiles, v : Nat]
        BY <1>1, RunningIs DEF Target, Screens, Screen
      <4> QED
        BY <4>1, NoneIsNothing
    <3> QED
      BY <1>3, <3>1 DEF OpenHistory, MatchingDetail
  <2> QED
    BY <1>1, <1>3, <2>1, MovesAreQuiet, ReadNowStep DEF OpenHistory
<1>4. CASE OpenSkillPanel
  <2>1. SameScreen(roster, roster')
    BY <1>1, <1>4, RunningIs DEF OpenSkillPanel, SameScreen, RosterFields, Screens, Screen
  <2> QED
    BY <1>1, <1>4, <2>1, RunningIs, StayingStep DEF OpenSkillPanel, hostVars, Screens
<1>5. CASE ShowPast
  BY <1>1, <1>5, MovesAreQuiet, ReadNowStep DEF ShowPast, rosterVars
<1> QED
  BY <1>2, <1>3, <1>4, <1>5

LEMMA StaleTimely ==
  ASSUME NEW r, NEW x, Timely(x, r)
  PROVE  Timely(StaleTarget(x), r)
<1>1. CASE x # None /\ x.kind = "profile"
  <2> DEFINE stale == [x EXCEPT !.fresh = FALSE]
  <2>1. DOMAIN stale = ReadFields /\ ~stale.fresh /\ stale.kind = "profile"
    BY <1>1 DEF Timely, ReadFields
  <2>2. StaleTarget(x) = stale
    BY <1>1 DEF StaleTarget
  <2> HIDE DEF stale
  <2> QED
    BY <2>1, <2>2 DEF Timely, ReadFields
<1>2. CASE ~(x # None /\ x.kind = "profile")
  BY <1>2 DEF StaleTarget
<1> QED
  BY <1>1, <1>2

LEMMA PickPastKeeps ==
  ASSUME IInv, UNCHANGED <<desk, shelf>>, NEW v, PickPast(v)
  PROVE  IInv'
<1>1. Running /\ roster.pane # "Confirmation"
  BY KeyIsRunning DEF PickPast, AgentsKey
<1>2. SameScreen(roster, roster')
  BY <1>1, RunningIs DEF PickPast, SameScreen, RosterFields, Screens, Screen
<1>3. Timely(pending', roster) /\ "profile" \in DOMAIN deferred' /\ Timely(deferred'.profile, roster)
  BY <1>1, RunningIs, StaleTimely DEF PickPast, Screens
<1> QED
  BY <1>1, <1>2, <1>3, StayingStep DEF PickPast, KeepRunning

LEMMA BackKeeps ==
  ASSUME IInv, UNCHANGED <<desk, shelf>>, Back
  PROVE  IInv'
<1>1. Running /\ roster.pane # "Confirmation" /\ UNCHANGED <<hostVars, mem, store>>
  BY KeyIsRunning DEF Back
<1>2. DOMAIN roster = RosterFields /\ Screen(roster, store.version)
  BY <1>1, RunningIs DEF Screens, Screen
<1>3. CASE roster.version = None \/ roster.pane = "Detail"
  <2>1. SameScreen(roster, roster')
    BY <1>2, <1>3 DEF Back, SameScreen, RosterFields
  <2> QED
    BY <1>1, <2>1, RunningIs, StayingStep DEF hostVars, Screens
<1>4. CASE roster.version # None /\ roster.pane # "Detail"
  <2>1. /\ DOMAIN roster' = RosterFields /\ roster'.sel = roster.sel /\ roster'.rows = roster.rows
        /\ roster'.pane = roster.pane /\ roster'.detail = roster.detail
        /\ roster'.history = roster.history /\ roster'.version = None
    BY <1>2, <1>4 DEF Back, RosterFields
  <2>2. Target(roster') = Target(roster)
    BY <2>1 DEF Target
  <2>3. Reach(roster', store.version)
    BY <1>2, <2>1, <1>1, RunningIs DEF Reach, Screen, Follows, Spares, SparesSelection, Screens, Target
  <2>4. SameScreen(roster', roster') /\ \A x : Timely(x, roster) => Timely(x, roster')
    BY <2>1 DEF SameScreen, Timely
  <2> QED
    BY <1>1, <2>2, <2>3, <2>4, RunningIs, ListStep DEF hostVars, Screens
<1> QED
  BY <1>3, <1>4

LEMMA TabKeeps ==
  ASSUME IInv, UNCHANGED <<desk, shelf>>, Tab
  PROVE  IInv'
<1>1. Running /\ roster.pane # "Confirmation" /\ UNCHANGED <<mem, store>>
  BY KeyIsRunning DEF Tab
<1>2. SameScreen(roster, roster')
  <2>1. \/ roster' = [roster EXCEPT !.focus = "List"]
        \/ roster' = [roster EXCEPT !.focus = "Workspace", !.pane = "Detail"]
        \/ roster' = [roster EXCEPT !.focus = "Workspace"]
    BY DEF Tab
  <2>2. DOMAIN roster = RosterFields
    BY <1>1, RunningIs DEF Screens, Screen
  <2> QED
    BY <2>1, <2>2 DEF SameScreen, RosterFields
<1>3. UNCHANGED hostVars \/ (ReadNow(roster, "detail") /\ UNCHANGED held)
  BY DEF Tab
<1>4. CASE UNCHANGED hostVars
  BY <1>1, <1>2, <1>4, RunningIs, StayingStep DEF hostVars, Screens
<1>5. CASE ReadNow(roster, "detail") /\ UNCHANGED held
  BY <1>1, <1>2, <1>5, ReadNowStep
<1> QED
  BY <1>3, <1>4, <1>5

LEMMA RunDeferredProfileKeeps ==
  ASSUME IInv, UNCHANGED <<desk, shelf>>, RunDeferredProfile
  PROVE  IInv'
<1>1. Running /\ UNCHANGED <<stopping, ended, left, held, rosterVars>>
  BY DEF RunDeferredProfile, KeepRunning
<1>2. Timely(pending', roster) /\ "profile" \in DOMAIN deferred' /\ Timely(deferred'.profile, roster)
  BY <1>1, RunningIs DEF RunDeferredProfile, Screens, Timely
<1> QED
  BY <1>1, <1>2, MovesAreQuiet, StayingStep DEF rosterVars

LEMMA ProfileAnsweredKeeps ==
  ASSUME IInv, UNCHANGED <<desk, shelf>>, ProfileAnswered
  PROVE  IInv'
<1>1. /\ Running /\ pending # None /\ pending.kind = "profile" /\ pending' = None
      /\ UNCHANGED <<ended, left, deferred, held, store>>
  BY PendingIs DEF ProfileAnswered, KeepRunning
<1>2. /\ store.version \in Versions /\ Screen(roster, store.version)
      /\ IsView(mem) /\ mem.bound \in {None, Target(roster)} /\ mem.registered \in BOOLEAN
      /\ "profile" \in DOMAIN deferred /\ Timely(deferred.profile, roster)
      /\ Timely(pending, roster)
  BY <1>1, RunningIs DEF Screens
<1>3. CASE UNCHANGED <<roster, mem>>
  BY <1>1, <1>2, <1>3, MovesAreQuiet, StayingStep DEF Timely
<1>4. CASE pending.fresh /\ Install(pending) /\ ~UNCHANGED <<roster, mem>>
  <2> DEFINE now == [p |-> roster.sel, v |-> store.version[roster.sel]]
             old == [p |-> roster.sel, v |-> pending.past]
  <2>1. /\ pending.p = roster.sel /\ pending.v = roster.rows[roster.sel]
        /\ pending.read = "history" => roster.detail # None
        /\ pending.read = "version" => roster.history # None
    BY <1>1, <1>2, <1>4 DEF Timely
  <2>2. /\ roster.sel \in Profiles /\ store.version[roster.sel] \in Nat
        /\ roster.rows[roster.sel] \in Nat /\ DOMAIN roster = RosterFields
        /\ roster.rows[roster.sel] <= store.version[roster.sel]
    BY <1>2 DEF Screen, Versions
  <2>3. \/ /\ pending.read = "detail" /\ now = Target(roster) /\ MayReplace(now)
           /\ roster' = WithDetail(roster, now) /\ mem' = Rebound(now)
        \/ /\ pending.read = "history" /\ now = Target(roster) /\ MayReplace(now)
           /\ roster' = WithHistory(roster, now) /\ mem' = Rebound(now)
        \/ /\ pending.read = "version" /\ roster' = WithVersion(roster, old) /\ mem' = mem
    BY <1>4, <2>1 DEF Install, Target
  <2>4. now = Target(roster) /\ mem' = Rebound(now) =>
          IsView(mem') /\ mem'.bound = mem.bound /\ mem'.registered = mem.registered
    BY <1>2 DEF Rebound
  <2>5. /\ Screen(roster', store.version)
        /\ roster'.sel = roster.sel /\ roster'.rows = roster.rows /\ roster'.pane = roster.pane
        /\ roster.detail # None => roster'.detail # None
        /\ roster.history # None => roster'.history # None
        /\ roster'.detail \in {roster.detail, Target(roster)}
    <3>1. CASE pending.read = "detail" /\ roster' = WithDetail(roster, now) /\ now = Target(roster)
      <4>1. store.version[roster.sel] \in roster.rows[roster.sel] .. store.version[roster.sel]
        BY <2>2
      <4> QED
        BY <1>2, <3>1, <4>1, WithDetailIs
    <3>2. CASE pending.read = "history" /\ roster' = WithHistory(roster, now)
      BY <1>2, <2>1, <2>2, <3>2, WithHistoryIs
    <3>3. CASE pending.read = "version" /\ roster' = WithVersion(roster, old)
      BY <1>2, <2>1, <2>2, <3>3, WithVersionIs
    <3> QED
      BY <2>3, <3>1, <3>2, <3>3
  <2>6. /\ IsView(mem') /\ mem'.bound \in {None, Target(roster)} /\ mem'.registered = mem.registered
    BY <1>2, <2>3, <2>4
  <2>7. Target(roster') = Target(roster)
    BY <2>5 DEF Target
  <2>8. Reach(roster', store.version)
    BY <1>2, <2>5 DEF Reach, Follows, Spares, SparesSelection, Target
  <2>9. /\ SameScreen(roster', roster') /\ Timely(pending', roster') /\ Timely(deferred'.profile, roster')
        /\ "profile" \in DOMAIN deferred'
    BY <1>1, <1>2, <2>5 DEF SameScreen, Screen, Timely
  <2> QED
    BY <1>1, <2>5, <2>6, <2>7, <2>8, <2>9, ListStep
<1> QED
  BY <1>3, <1>4 DEF ProfileAnswered

LEMMA AgentKeysKeep ==
  ASSUME IInv, UNCHANGED <<desk, shelf>>, AgentKeys
  PROVE  IInv'
BY SelectAgentKeeps, ListKeysKeep, PickPastKeeps, BackKeeps, TabKeeps DEF AgentKeys

-----------------------------------------------------------------------------
(* The form of an agent *)

(* An edit of a form: its agent stays what it is. *)
Keeps(e, form) == Faithful(form) /\ form.mode = e.mode /\ form.of = e.of

LEMMA StepsAre ==
  /\ {E!Steps[i] : i \in 1 .. 7} = E!StepNames
  /\ {"template", "review"} \subseteq E!StepNames
<1>1. DOMAIN E!Steps = 1 .. 7 /\ E!Steps[1] = "template" /\ E!Steps[7] = "review"
  BY DEF E!Steps
<1> QED
  BY <1>1 DEF E!StepNames

LEMMA FieldStep ==
  \A field \in EditedFields : E!StepOf(field) \in E!StepNames
<1>1. \A field \in EditedFields : \E step \in E!StepNames : field \in E!FieldsOf(step)
  BY EditedFieldsAssumption DEF E!Fields
<1> QED
  BY <1>1 DEF E!StepOf

LEMMA FormIs ==
  ASSUME NEW e, Faithful(e)
  PROVE  /\ e # None
         /\ e.mode \in {"create", "edit"} /\ e.of \in Profiles \cup {None} /\ e.expected \in Nat
         /\ e.step \in E!StepNames /\ e.second \in BOOLEAN /\ e.draft \in Drafts
         /\ e.bad \in SUBSET EditedFields /\ e.review \in AgentReviews \cup {None}
         /\ e.awaited \in BOOLEAN
BY StepsAre, NoneIsNothing DEF Forms, Faithful

(* What the methods of the form are made of *)
LEMMA NoReviewKeeps ==
  ASSUME NEW e \in Forms, e.mode = "edit" => e.of \in Profiles
  PROVE  /\ Keeps(e, E!NoReview(e)) /\ E!NoReview(e).draft = e.draft /\ E!NoReview(e).review = None
         /\ E!NoReview(e).expected = e.expected
<1> DEFINE bare == [e EXCEPT !.review = None]
           form == [bare EXCEPT !.awaited = FALSE]
<1>1. /\ bare \in Forms /\ bare.mode = e.mode /\ bare.review = None /\ bare.draft = e.draft
      /\ bare.of = e.of /\ bare.expected = e.expected
  BY DEF Forms
<1> HIDE DEF bare
<1>2. /\ form \in Forms /\ form.mode = bare.mode /\ form.review = bare.review
      /\ form.draft = bare.draft /\ form.of = bare.of /\ form.expected = bare.expected
  BY <1>1 DEF Forms
<1>3. E!NoReview(e) = form
  BY DEF E!NoReview, bare
<1> HIDE DEF form
<1> QED
  BY <1>1, <1>2, <1>3 DEF Keeps, Faithful

LEMMA SetFieldKeeps ==
  ASSUME NEW e, Faithful(e), NEW field \in EditedFields, NEW says \in {"old", "new", "blank"},
         NEW taken \in BOOLEAN
  PROVE  Keeps(e, E!SetField(e, field, says, taken))
<1> DEFINE draft == [e.draft EXCEPT ![field] = says]
           bad == e.bad \ {field}
           worse == e.bad \cup {field}
           said == [e EXCEPT !.draft[field] = says]
           form == [e EXCEPT !.draft[field] = says, !.bad = @ \ {field}]
           refused == [e EXCEPT !.bad = @ \cup {field}]
<1>1. draft \in Drafts /\ bad \in SUBSET EditedFields /\ worse \in SUBSET EditedFields
  BY FormIs DEF Drafts
<1> HIDE DEF draft, bad, worse
<1>2. said = [e EXCEPT !.draft = draft]
  BY DEF draft
<1> HIDE DEF said
<1>3. said \in Forms /\ said.mode = e.mode /\ said.of = e.of /\ said.bad = e.bad
  BY <1>1, <1>2 DEF Forms, Faithful
<1>4. form = [said EXCEPT !.bad = bad] /\ refused = [e EXCEPT !.bad = worse]
  BY <1>3 DEF said, bad, worse, Forms, Faithful
<1> HIDE DEF form, refused
<1>5. form \in Forms /\ form.mode = e.mode /\ form.of = e.of
  BY <1>1, <1>3, <1>4 DEF Forms
<1>6. refused \in Forms /\ refused.mode = e.mode /\ refused.of = e.of
  BY <1>1, <1>4 DEF Forms, Faithful
<1>7. Keeps(e, E!NoReview(form)) /\ Keeps(e, E!NoReview(refused))
  BY <1>5, <1>6, NoReviewKeeps DEF Keeps, Faithful
<1> QED
  BY <1>7 DEF E!SetField, form, refused

LEMMA SelectRoleKeeps ==
  ASSUME NEW e, Faithful(e), NEW says \in {"old", "new"}
  PROVE  Keeps(e, E!SelectRole(e, says))
<1> DEFINE draft == [e.draft EXCEPT !["role"] = says]
           said == [e EXCEPT !.draft["role"] = says]
<1>1. draft \in Drafts
  BY FormIs DEF Drafts
<1> HIDE DEF draft
<1>2. said = [e EXCEPT !.draft = draft]
  BY DEF draft
<1> HIDE DEF said
<1>3. said \in Forms /\ said.mode = e.mode /\ said.of = e.of
  BY <1>1, <1>2 DEF Forms, Faithful
<1>4. Keeps(e, E!NoReview(said))
  BY <1>3, NoReviewKeeps DEF Keeps, Faithful
<1>5. Keeps(e, e)
  BY DEF Keeps
<1> QED
  BY <1>4, <1>5 DEF E!SelectRole, said

LEMMA UntouchedIs == E!Untouched \in Drafts
BY DEF E!Untouched, Drafts

LEMMA SelectTemplateKeeps ==
  ASSUME NEW e, Faithful(e)
  PROVE  Keeps(e, E!SelectTemplate(e))
<1> DEFINE blank == [e EXCEPT !.draft = E!Untouched]
           clean == [blank EXCEPT !.bad = {}]
           form == [clean EXCEPT !.second = FALSE]
<1>1. blank \in Forms /\ blank.mode = e.mode /\ blank.of = e.of
  BY UntouchedIs DEF Forms, Faithful
<1> HIDE DEF blank
<1>2. clean \in Forms /\ clean.mode = e.mode /\ clean.of = e.of
  BY <1>1 DEF Forms
<1> HIDE DEF clean
<1>3. form \in Forms /\ form.mode = e.mode /\ form.of = e.of
  BY <1>2 DEF Forms
<1>4. form = [e EXCEPT !.draft = E!Untouched, !.bad = {}, !.second = FALSE]
  BY DEF clean, blank
<1> HIDE DEF form
<1>5. Keeps(e, E!NoReview(form)) /\ Keeps(e, e)
  BY <1>3, NoReviewKeeps DEF Keeps, Faithful
<1> QED
  BY <1>4, <1>5 DEF E!SelectTemplate

LEMMA SelectStepKeeps ==
  ASSUME NEW e, Faithful(e), NEW step \in E!StepNames, NEW second \in BOOLEAN,
         NEW form, form = [e EXCEPT !.step = step, !.second = second]
  PROVE  Keeps(e, form)
<1> DEFINE there == [e EXCEPT !.step = step]
<1>1. /\ there \in Forms /\ there.mode = e.mode /\ there.review = e.review /\ there.draft = e.draft
      /\ there.of = e.of
  BY StepsAre DEF Forms, Faithful
<1>2. form = [there EXCEPT !.second = second]
  OBVIOUS
<1> HIDE DEF there
<1>3. form \in Forms /\ form.mode = there.mode /\ form.review = there.review
      /\ form.draft = there.draft /\ form.of = there.of
  BY <1>1, <1>2 DEF Forms
<1> QED
  BY <1>1, <1>3 DEF Keeps, Faithful

LEMMA SelectFieldKeeps ==
  ASSUME NEW e, Faithful(e), NEW field \in EditedFields
  PROVE  Keeps(e, E!SelectField(e, field))
<1>1. PICK step, second : step = E!StepOf(field) /\ second = (field = "description")
  OBVIOUS
<1>2. step \in E!StepNames /\ second \in BOOLEAN
  BY <1>1, FieldStep
<1> QED
  BY <1>1, <1>2, SelectStepKeeps DEF E!SelectField

LEMMA SelectReviewKeeps ==
  ASSUME NEW e, Faithful(e)
  PROVE  Keeps(e, E!SelectReview(e))
<1>1. "review" \in E!StepNames
  BY StepsAre
<1> QED
  BY <1>1, SelectStepKeeps DEF E!SelectReview

LEMMA PreviewAskedKeeps ==
  ASSUME NEW e, Faithful(e)
  PROVE  /\ Keeps(e, E!PreviewAsked(e)) /\ E!PreviewAsked(e).draft = e.draft
         /\ E!PreviewAsked(e).review = None
<1> DEFINE bare == E!NoReview(e)
           asked == [bare EXCEPT !.awaited = TRUE]
<1>1. /\ Keeps(e, bare) /\ bare.draft = e.draft /\ bare.review = None
      /\ E!PreviewAsked(e) = asked
  BY NoReviewKeeps DEF Faithful, E!PreviewAsked
<1> HIDE DEF bare
<1>2. /\ asked \in Forms /\ asked.mode = bare.mode /\ asked.draft = bare.draft
      /\ asked.review = None /\ asked.of = bare.of
  BY <1>1 DEF Forms, Keeps, Faithful
<1> HIDE DEF asked
<1> QED
  BY <1>1, <1>2 DEF Keeps, Faithful

(* A review is kept only with the draft it was asked for. *)
LEMMA ApplyPreviewKeeps ==
  ASSUME NEW e, Faithful(e), e.review = None, NEW review \in AgentReviews, review.draft = e.draft
  PROVE  Keeps(e, E!ApplyPreview(e, review))
<1> DEFINE shown == [e EXCEPT !.review = review]
           form == [e EXCEPT !.review = review, !.awaited = FALSE]
<1>1. /\ shown \in Forms /\ shown.mode = e.mode /\ shown.draft = e.draft /\ shown.review = review
      /\ shown.of = e.of
  BY DEF Forms, Faithful
<1>2. form = [shown EXCEPT !.awaited = FALSE]
  OBVIOUS
<1> HIDE DEF shown, form
<1>3. /\ form \in Forms /\ form.mode = e.mode /\ form.draft = e.draft /\ form.review = review
      /\ form.of = e.of
  BY <1>1, <1>2 DEF Forms
<1>4. Keeps(e, form)
  BY <1>3 DEF Keeps, Faithful
<1>5. E!ApplyPreview(e, review) \in {e, E!NoReview(e), form}
  BY DEF E!ApplyPreview, form
<1>6. Keeps(e, e) /\ Keeps(e, E!NoReview(e))
  BY NoReviewKeeps DEF Keeps, Faithful
<1> QED
  BY <1>4, <1>5, <1>6

LEMMA NewForms ==
  ASSUME NEW v \in Nat, NEW p \in Profiles
  PROVE  /\ Faithful(E!ForCreate) /\ E!ForCreate.mode = "create"
         /\ Faithful(E!ForEdit(p, v)) /\ E!ForEdit(p, v).mode = "edit"
<1>1. E!Untouched \in Drafts /\ "template" \in {E!Steps[i] : i \in 1 .. 7}
  BY StepsAre, UntouchedIs
<1> QED
  BY <1>1 DEF E!ForCreate, E!ForEdit, E!Draft, Faithful, Forms

-----------------------------------------------------------------------------
(* The desk of the form *)

(* A step of the desk: where the list may go, and what becomes of the form *)
LEMMA DeskStep ==
  ASSUME IInv, Running, UNCHANGED <<shelf, left>>,
         "version" \in DOMAIN store', store'.version \in Versions,
         NEW r, Reach(r, store'.version), SameScreen(r, roster'),
         IsView(mem'), mem'.bound \in {None, Target(r)}, mem'.registered = mem.registered,
         Timely(pending', r), "profile" \in DOMAIN deferred', Timely(deferred'.profile, r),
         DeskForm', DOMAIN desk' = DeskFields,
         held' \subseteq held \cup {"profile"}, held \subseteq held' \cup {"profile"},
         "profile" \in held' /\ ~desk'.unsure => desk'.editor # None /\ desk'.editor.mode = "edit"
  PROVE  IInv'
<1>1. Screens' /\ ShelfForm'
  BY RunningIs, ScreensStep, ShelfStays
<1>2. ("memory" \in held') = ("memory" \in held) /\ ("skill" \in held') = ("skill" \in held)
  OBVIOUS
<1>3. Agree' /\ held' \subseteq ReviewKinds /\ left' = left /\ shelf' = shelf
  BY <1>2, RunningIs DEF Agree, ReviewKinds
<1>4. Reviews'
  BY <1>3, RunningIs, AgreeReviews
<1> QED
  BY <1>1, <1>3, <1>4, RunningIs DEF IInv

(* The list stays where it is. *)
LEMMA FormStep ==
  ASSUME IInv, Running, UNCHANGED <<shelf, left, mem, store, pending>>,
         SameScreen(roster, roster'),
         "profile" \in DOMAIN deferred', Timely(deferred'.profile, roster),
         DeskForm', DOMAIN desk' = DeskFields,
         held' \subseteq held \cup {"profile"}, held \subseteq held' \cup {"profile"},
         "profile" \in held' /\ ~desk'.unsure => desk'.editor # None /\ desk'.editor.mode = "edit"
  PROVE  IInv'
<1>1. /\ "version" \in DOMAIN store /\ store.version \in Versions /\ Screen(roster, store.version)
      /\ IsView(mem) /\ mem.bound \in {None, Target(roster)} /\ Timely(pending, roster)
  BY RunningIs DEF Screens
<1>2. Reach(roster, store.version)
  BY <1>1, StaysInReach
<1> QED
  BY <1>1, <1>2, DeskStep

LEMMA QueueMissingIs ==
  ASSUME IInv, Running, NEW r, Follows(roster, r), QueueMissingDetail(r)
  PROVE  "profile" \in DOMAIN deferred' /\ Timely(deferred'.profile, r)
<1>1. "profile" \in DOMAIN deferred
  BY RunningIs DEF Screens
<1>2. Timely(ReadRequest(r, "detail"), r)
  BY ReadTimely
<1> QED
  BY <1>1, <1>2, RetargetIs DEF QueueMissingDetail

LEMMA QueueHereIs ==
  ASSUME IInv, Running, QueueMissingDetail(roster)
  PROVE  "profile" \in DOMAIN deferred' /\ Timely(deferred'.profile, roster)
BY QueueMissingIs DEF Follows

(* What a change of the desk leaves *)
LEMMA DeskIs ==
  ASSUME DOMAIN desk = DeskFields
  PROVE  /\ \A e, page : LET d == [desk EXCEPT !.editor = e, !.page = page]
                         IN /\ DOMAIN d = DeskFields /\ d.editor = e
                            /\ d.confirmation = desk.confirmation /\ d.unsure = desk.unsure
         /\ \A e, page, f : LET d == [desk EXCEPT !.editor = e, !.page = page, !.field = f]
                            IN /\ DOMAIN d = DeskFields /\ d.editor = e
                               /\ d.confirmation = desk.confirmation /\ d.unsure = desk.unsure
         /\ \A page : LET d == [desk EXCEPT !.page = page]
                      IN /\ DOMAIN d = DeskFields /\ d.editor = desk.editor
                         /\ d.confirmation = desk.confirmation /\ d.unsure = desk.unsure
         /\ \A e : LET d == [desk EXCEPT !.editor = e]
                   IN /\ DOMAIN d = DeskFields /\ d.editor = e
                      /\ d.confirmation = desk.confirmation /\ d.unsure = desk.unsure
         /\ \A c : LET d == [desk EXCEPT !.confirmation = c]
                   IN /\ DOMAIN d = DeskFields /\ d.editor = desk.editor
                      /\ d.confirmation = c /\ d.unsure = desk.unsure
         /\ \A e, c : LET d == [desk EXCEPT !.editor = e, !.confirmation = c]
                      IN /\ DOMAIN d = DeskFields /\ d.editor = e
                         /\ d.confirmation = c /\ d.unsure = desk.unsure
BY DEF DeskFields

LEMMA ShownIs ==
  ASSUME NEW r, DOMAIN r = RosterFields
  PROVE  \A pane, focus : /\ SameScreen(r, Shown(r, pane, focus))
                          /\ Shown(r, pane, focus).pane = pane
BY DEF Shown, SameScreen, RosterFields

LEMMA RosterIs ==
  ASSUME IInv, Running
  PROVE  /\ DOMAIN roster = RosterFields
         /\ \A pane, focus : /\ SameScreen(roster, Shown(roster, pane, focus))
                             /\ Shown(roster, pane, focus).pane = pane
BY RunningIs, ShownIs DEF Screens, Screen

(* In the form nothing waits for a yes. *)
LEMMA InFormIs ==
  ASSUME IInv, InForm \/ \E page : OnPage(page)
  PROVE  /\ Running /\ roster.pane = "Editor" /\ desk.editor # None /\ Faithful(desk.editor)
         /\ desk.confirmation = None
<1>1. Running /\ roster.pane = "Editor" /\ desk.editor # None
  BY KeyIsRunning DEF InForm, OnPage
<1> QED
  BY <1>1, RunningIs DEF DeskForm

(* A key that changes the form and nothing else *)
LEMMA EditStep ==
  ASSUME IInv, UNCHANGED <<shelf, left, mem, store, pending, deferred, held>>,
         InForm, SameScreen(roster, roster'),
         NEW form, Keeps(desk.editor, form),
         DOMAIN desk' = DeskFields, desk'.editor = form,
         desk'.confirmation = None, desk'.unsure = desk.unsure
  PROVE  IInv'
<1>1. /\ Running /\ roster.pane = "Editor" /\ desk.editor # None /\ Faithful(desk.editor)
      /\ desk.confirmation = None
  BY InFormIs
<1>2. form # None /\ Faithful(form) /\ form.mode = desk.editor.mode
  BY FormIs DEF Keeps
<1>3. DeskForm'
  BY <1>2 DEF DeskForm
<1> QED
  BY <1>1, <1>2, <1>3, RunningIs, FormStep DEF Screens, Agree

LEMMA OnPageIs ==
  ASSUME NEW page, OnPage(page)
  PROVE  InForm
BY DEF OnPage

LEMMA ChangeFormKeeps ==
  ASSUME IInv, InForm, UNCHANGED shelf, NEW form, Keeps(desk.editor, form), NEW page,
         ChangeForm(form, page)
  PROVE  IInv'
<1>1. Running /\ desk.confirmation = None
  BY InFormIs
<1>2. /\ DOMAIN desk' = DeskFields /\ desk'.editor = form
      /\ desk'.confirmation = desk.confirmation /\ desk'.unsure = desk.unsure
      /\ UNCHANGED <<left, mem, store, pending, deferred, held, roster>>
  BY <1>1, RunningIs, DeskIs DEF ChangeForm, hostVars, rosterVars
<1> QED
  BY <1>1, <1>2, MovesAreQuiet, EditStep

LEMMA TypingKeeps ==
  ASSUME IInv, UNCHANGED shelf,
         \/ ChooseTemplate \/ OpenDiscard
         \/ \E f \in EditedFields : OpenField(f)
         \/ \E says \in {"old", "new"} : ChooseRole(says) \/ \E taken \in BOOLEAN : TypeField(says, taken)
  PROVE  IInv'
<1>1. InForm
  BY OnPageIs DEF ChooseTemplate, OpenDiscard, OpenField, ChooseRole, TypeField
<1>2. Running /\ Faithful(desk.editor) /\ desk.confirmation = None
  BY <1>1, InFormIs
<1>3. CASE ChooseTemplate
  <2>1. Keeps(desk.editor, E!SelectTemplate(desk.editor))
    BY <1>2, SelectTemplateKeeps
  <2>2. /\ desk' = [desk EXCEPT !.editor = E!SelectTemplate(desk.editor), !.page = "home"]
        /\ roster' = [roster EXCEPT !.focus = "Workspace"]
        /\ UNCHANGED <<left, mem, store, pending, deferred, held>>
    BY <1>3 DEF ChooseTemplate, hostVars
  <2>3. /\ DOMAIN desk' = DeskFields /\ desk'.editor = E!SelectTemplate(desk.editor)
        /\ desk'.confirmation = None /\ desk'.unsure = desk.unsure
    BY <1>2, <2>2, RunningIs, DeskIs
  <2> QED
    BY <1>1, <1>2, <2>1, <2>2, <2>3, MovesAreQuiet, EditStep
<1>4. CASE OpenDiscard
  <2>1. Keeps(desk.editor, desk.editor)
    BY <1>2 DEF Keeps
  <2> QED
    BY <1>1, <1>4, <2>1, ChangeFormKeeps DEF OpenDiscard
<1>5. ASSUME NEW f \in EditedFields, OpenField(f)
      PROVE  IInv'
  <2>1. Keeps(desk.editor, E!SelectField(desk.editor, f))
    BY <1>2, SelectFieldKeeps
  <2>2. /\ desk' = [desk EXCEPT !.editor = E!SelectField(desk.editor, f), !.page = "section", !.field = f]
        /\ UNCHANGED <<left, mem, store, pending, deferred, held, roster>>
    BY <1>5 DEF OpenField, hostVars, rosterVars
  <2>3. /\ DOMAIN desk' = DeskFields /\ desk'.editor = E!SelectField(desk.editor, f)
        /\ desk'.confirmation = None /\ desk'.unsure = desk.unsure
    BY <1>2, <2>2, RunningIs, DeskIs
  <2> QED
    BY <1>1, <1>2, <2>1, <2>2, <2>3, MovesAreQuiet, EditStep
<1>6. ASSUME NEW says \in {"old", "new"}, ChooseRole(says)
      PROVE  IInv'
  <2>1. Keeps(desk.editor, E!SelectRole(desk.editor, says))
    BY <1>2, SelectRoleKeeps
  <2> QED
    BY <1>1, <1>6, <2>1, ChangeFormKeeps DEF ChooseRole
<1>7. ASSUME NEW says \in {"old", "new"}, NEW taken \in BOOLEAN, TypeField(says, taken)
      PROVE  IInv'
  <2>1. Keeps(desk.editor, E!SetField(desk.editor, desk.field, says, taken))
    BY <1>2, <1>7, SetFieldKeeps DEF TypeField
  <2> QED
    BY <1>1, <1>7, <2>1, ChangeFormKeeps DEF TypeField
<1> QED
  BY <1>3, <1>4, <1>5, <1>6, <1>7

LEMMA OnAgentIs ==
  ASSUME OnAgent \/ AgentsKey("History")
  PROVE  Running /\ roster.pane # "Confirmation"
BY KeyIsRunning DEF OnAgent, OnList, OnDetail, AgentsKey

LEMMA DetailIs ==
  ASSUME NEW r, NEW versions \in Versions, Screen(r, versions), r.detail # None
  PROVE  r.detail.p \in Profiles /\ r.detail.v \in Nat
BY DEF Screen, Versions

(* Opening a form where there was none *)
LEMMA OpenedFormIs ==
  ASSUME IInv, Running, desk.editor = None, NEW e, Faithful(e), NEW page, desk' = Form(e, page)
  PROVE  /\ DeskForm' /\ DOMAIN desk' = DeskFields
         /\ "profile" \in held => desk'.unsure
<1>1. /\ DOMAIN desk' = DeskFields /\ desk'.editor = e
      /\ desk'.confirmation = desk.confirmation /\ desk'.unsure = desk.unsure
  BY RunningIs, DeskIs DEF Form
<1>2. desk.confirmation = None
  BY RunningIs DEF DeskForm
<1> QED
  BY <1>1, <1>2, RunningIs DEF DeskForm, Agree

LEMMA ComingKeeps ==
  ASSUME IInv, UNCHANGED shelf, ResumeDraft \/ NewAgent \/ EditAgent
  PROVE  IInv'
<1>1. Running /\ roster.pane # "Confirmation"
  BY OnAgentIs DEF ResumeDraft, NewAgent, EditAgent
<1>2. CASE ResumeDraft
  BY <1>1, <1>2, RosterIs, RunningIs, StayingStep DEF ResumeDraft, hostVars, Screens
<1>3. CASE NewAgent
  <2>1. Faithful(E!ForCreate)
    BY NewForms, FirstAgentAssumption
  <2>2. /\ DeskForm' /\ DOMAIN desk' = DeskFields /\ ("profile" \in held => desk'.unsure)
    BY <1>1, <1>3, <2>1, OpenedFormIs DEF NewAgent
  <2>3. SameScreen(roster, roster')
    BY <1>1, <1>3, RosterIs DEF NewAgent
  <2>4. "profile" \in DOMAIN deferred' /\ Timely(deferred'.profile, roster)
    BY <1>1, <1>3, QueueHereIs DEF NewAgent
  <2> QED
    BY <1>1, <1>3, <2>2, <2>3, <2>4, FormStep DEF NewAgent, KeepRunning
<1>4. CASE EditAgent /\ ~MatchingDetail(roster)
  BY <1>1, <1>4, MovesAreQuiet, ReadNowStep DEF EditAgent
<1>5. CASE EditAgent /\ MatchingDetail(roster)
  <2>1. roster.detail.p \in Profiles /\ roster.detail.v \in Nat
    BY <1>1, <1>5, RunningIs DEF MatchingDetail, Target, Screens, Screen
  <2>2. Faithful(E!ForEdit(roster.detail.p, roster.detail.v))
    BY <2>1, NewForms
  <2>3. /\ DeskForm' /\ DOMAIN desk' = DeskFields /\ ("profile" \in held => desk'.unsure)
    BY <1>1, <1>5, <2>2, OpenedFormIs DEF EditAgent
  <2>4. SameScreen(roster, roster')
    BY <1>1, <1>5, RosterIs DEF EditAgent
  <2> QED
    BY <1>1, <1>5, <2>3, <2>4, RunningIs, FormStep DEF EditAgent, KeepRunning, Screens
<1> QED
  BY <1>2, <1>3, <1>4, <1>5

(* The list is read again, and what it shows with it. *)
LEMMA RereadStep ==
  ASSUME IInv, Running, Free, UNCHANGED <<shelf, left, pending>>,
         "version" \in DOMAIN store', store'.version \in Versions,
         NEW r, Reach(r, store'.version), NEW pane, NEW focus, roster' = Shown(r, pane, focus),
         mem' = MemoryAfter(r), QueueMissingDetail(r),
         DeskForm', DOMAIN desk' = DeskFields,
         held' \subseteq held \cup {"profile"}, held \subseteq held' \cup {"profile"},
         "profile" \in held' /\ ~desk'.unsure => desk'.editor # None /\ desk'.editor.mode = "edit"
  PROVE  IInv'
<1>1. IsView(mem') /\ mem'.bound \in {None, Target(r)} /\ mem'.registered = mem.registered
  BY RunningIs, MemoryAfterIs DEF Screens
<1>2. SameScreen(r, roster')
  BY ShownIs DEF Reach, Screen
<1>3. "profile" \in DOMAIN deferred' /\ Timely(deferred'.profile, r)
  BY QueueMissingIs DEF Reach
<1>4. Timely(pending', r)
  BY DEF Free, Timely
<1> QED
  BY <1>1, <1>2, <1>3, <1>4, DeskStep

(* Where the reads of an agent by name take the list, as the runtime has it *)
LEMMA NamedReach ==
  ASSUME IInv, Running, NEW p \in Profiles
  PROVE  LET listed == Relisted(roster, store.version)
         IN /\ "version" \in DOMAIN store /\ store.version \in Versions
            /\ \A r \in {roster, listed} : Reach(r, store.version)
            /\ \A r \in {roster, listed} : Reach(Known(r, p, store.version), store.version)
<1>1. /\ "version" \in DOMAIN store /\ store.version \in Versions /\ Screen(roster, store.version)
      /\ mem.bound \in {None, Target(roster)}
  BY RunningIs DEF Screens
<1>2. \A q \in Profiles : store.version[q] <= store.version[q]
  BY <1>1 DEF Versions
<1>3. /\ Reach(Relisted(roster, store.version), store.version)
      /\ Relisted(roster, store.version).sel = roster.sel
  BY <1>1, <1>2, RelistedReach
<1>4. Reach(roster, store.version)
  BY <1>1, StaysInReach
<1>5. Reach(Known(roster, p, store.version), store.version)
  BY <1>1, <1>4, KnownReach
<1>6. Reach(Known(Relisted(roster, store.version), p, store.version), store.version)
  BY <1>1, <1>3, KnownReach
<1> QED
  BY <1>1, <1>3, <1>4, <1>5, <1>6

LEMMA OutdatedKeeps ==
  ASSUME IInv, Running, Free, UNCHANGED <<shelf, left, pending, store>>, NEW p \in Profiles, Outdated(p)
  PROVE  IInv'
<1> DEFINE listed == Relisted(roster, store.version)
<1>1. PICK after : /\ after \in {roster, listed, Known(roster, p, store.version),
                                 Known(listed, p, store.version)}
                   /\ roster' = Shown(after, "Detail", roster.focus)
                   /\ mem' = MemoryAfter(after) /\ QueueMissingDetail(after)
  BY DEF Outdated
<1> HIDE DEF listed
<1>2. Reach(after, store.version) /\ "version" \in DOMAIN store /\ store.version \in Versions
  BY <1>1, NamedReach DEF listed
<1>3. /\ DOMAIN desk' = DeskFields /\ desk'.editor = None /\ desk'.confirmation = None
      /\ "profile" \in held' => desk'.unsure
      /\ held' \in {held \ {"profile"}, held}
  BY RunningIs DEF Outdated, DeskFields
<1>4. DeskForm'
  BY <1>3 DEF DeskForm
<1> QED
  BY <1>1, <1>2, <1>3, <1>4, RereadStep

LEMMA EditNamedAgentKeeps ==
  ASSUME IInv, UNCHANGED shelf, NEW p \in Profiles, EditNamedAgent(p)
  PROVE  IInv'
<1>1. /\ Running /\ Free /\ UNCHANGED <<pending, held, store, left>>
      /\ desk.editor = None /\ desk.confirmation = None
  BY KeyIsRunning DEF EditNamedAgent, KeepRunning, ProtectedAgents
<1> DEFINE known == Known(roster, p, store.version)
<1>2. /\ "version" \in DOMAIN store /\ store.version \in Versions
      /\ Reach(known, store.version)
  BY <1>1, NamedReach
<1> HIDE DEF known
<1>3. CASE /\ known.detail # None
           /\ desk' = Form(E!ForEdit(known.detail.p, known.detail.v), "home")
           /\ roster' = Shown(known, "Editor", "Workspace")
           /\ mem' = MemoryAfter(known)
           /\ QueueMissingDetail(known)
  <2>1. Faithful(E!ForEdit(known.detail.p, known.detail.v))
    BY <1>2, <1>3, DetailIs, NewForms DEF Reach
  <2>2. /\ DeskForm' /\ DOMAIN desk' = DeskFields /\ ("profile" \in held => desk'.unsure)
    BY <1>1, <1>3, <2>1, OpenedFormIs
  <2> QED
    BY <1>1, <1>2, <1>3, <2>2, RereadStep
<1>4. CASE /\ roster' = Shown(roster, "List", "Workspace")
           /\ QueueMissingDetail(roster)
           /\ UNCHANGED <<desk, mem>>
  <2>1. SameScreen(roster, roster')
    BY <1>1, <1>4, RosterIs
  <2>2. "profile" \in DOMAIN deferred' /\ Timely(deferred'.profile, roster)
    BY <1>1, <1>4, QueueHereIs
  <2>3. DeskForm' /\ DOMAIN desk' = DeskFields
    BY <1>1, <1>4, RunningIs DEF DeskForm
  <2> QED
    BY <1>1, <1>4, <2>1, <2>2, <2>3, RunningIs, FormStep DEF Agree
<1> QED
  BY <1>3, <1>4 DEF EditNamedAgent, known

LEMMA PreviewKeeps ==
  ASSUME IInv, InForm, UNCHANGED shelf, NEW e, Keeps(desk.editor, e), e.mode = "edit", Preview(e)
  PROVE  IInv'
<1> DEFINE asked == E!PreviewAsked(e)
           review == [of |-> e.of, expected |-> e.expected, draft |-> e.draft]
<1>1. /\ Running /\ Free /\ UNCHANGED <<pending, store, left>>
      /\ desk.editor # None /\ desk.confirmation = None
  BY InFormIs DEF Preview, KeepRunning
<1>2. Faithful(e) /\ e.of \in Profiles
  BY DEF Keeps, Faithful
<1>3. CASE Outdated(e.of)
  BY <1>1, <1>2, <1>3, OutdatedKeeps
<1>4. CASE ~Outdated(e.of)
  <2>1. review \in AgentReviews /\ review.draft = e.draft
    BY <1>2, FormIs DEF AgentReviews
  <2>2. Keeps(e, asked) /\ asked.draft = e.draft /\ asked.review = None
    BY <1>2, PreviewAskedKeeps
  <2> HIDE DEF asked, review
  <2>3. Keeps(e, asked) /\ Keeps(e, E!ApplyPreview(asked, review))
    BY <2>1, <2>2, ApplyPreviewKeeps DEF Keeps
  <2>4. PICK form : /\ Keeps(e, form)
                    /\ \/ /\ desk' = [desk EXCEPT !.editor = form, !.page = "review", !.unsure = FALSE]
                          /\ held' = held \cup {"profile"}
                       \/ desk' = [desk EXCEPT !.editor = form, !.page = "review"] /\ held' = held
    BY <1>4, <2>3 DEF Preview, asked, review
  <2>5. QueueMissingDetail(roster) /\ UNCHANGED <<roster, mem>>
    BY <1>4 DEF Preview
  <2>6. /\ DOMAIN desk' = DeskFields /\ desk'.editor = form /\ desk'.confirmation = None
        /\ \/ held' = held \cup {"profile"}
           \/ held' = held
    BY <1>1, <2>4, RunningIs DEF DeskFields
  <2>7. form # None /\ Faithful(form) /\ form.mode = "edit"
    BY <2>4, FormIs DEF Keeps
  <2>8. DeskForm'
    BY <2>6, <2>7 DEF DeskForm
  <2>9. "profile" \in DOMAIN deferred' /\ Timely(deferred'.profile, roster)
    BY <1>1, <2>5, QueueHereIs
  <2> QED
    BY <1>1, <2>5, <2>6, <2>7, <2>8, <2>9, MovesAreQuiet, FormStep
<1> QED
  BY <1>3, <1>4

LEMMA ReviewingKeeps ==
  ASSUME IInv, UNCHANGED shelf, OpenReview \/ AskAgain
  PROVE  IInv'
<1>1. InForm /\ Faithful(desk.editor)
  BY OnPageIs, InFormIs DEF OpenReview, AskAgain
<1>2. Keeps(desk.editor, E!SelectReview(desk.editor)) /\ Keeps(desk.editor, desk.editor)
  BY <1>1, SelectReviewKeeps DEF Keeps
<1>3. CASE OpenReview
  <2> DEFINE e == E!SelectReview(desk.editor)
  <2>1. \/ E!AsksForPreview(e) /\ Preview(e)
        \/ ChangeForm(e, "review")
    BY <1>3 DEF OpenReview
  <2>2. E!AsksForPreview(e) => e.mode = "edit"
    BY DEF E!AsksForPreview
  <2> HIDE DEF e
  <2> QED
    BY <1>1, <1>2, <2>1, <2>2, PreviewKeeps, ChangeFormKeeps DEF e
<1>4. CASE AskAgain
  BY <1>1, <1>2, <1>4, PreviewKeeps DEF AskAgain, E!AsksForPreview
<1> QED
  BY <1>3, <1>4

LEMMA LeavePageKeeps ==
  ASSUME IInv, UNCHANGED shelf, LeavePage
  PROVE  IInv'
<1>1. InForm /\ Running /\ Faithful(desk.editor) /\ desk.confirmation = None
  BY InFormIs DEF LeavePage
<1>2. UNCHANGED <<left, mem, store, pending, deferred, held>>
  BY DEF LeavePage, hostVars
<1>3. /\ (roster' = Shown(roster, "Detail", "Workspace") \/ roster' = roster)
      /\ (desk' = [desk EXCEPT !.page = "home"] \/ desk' = desk)
  BY DEF LeavePage
<1>4. SameScreen(roster, roster')
  <2>1. CASE roster' = Shown(roster, "Detail", "Workspace")
    BY <1>1, <2>1, RosterIs
  <2>2. CASE roster' = roster
    BY <1>1, <2>2, MovesAreQuiet
  <2> QED
    BY <1>3, <2>1, <2>2
<1>5. /\ DOMAIN desk' = DeskFields /\ desk'.editor = desk.editor
      /\ desk'.confirmation = None /\ desk'.unsure = desk.unsure
  <2>1. CASE desk' = [desk EXCEPT !.page = "home"]
    BY <1>1, <2>1, RunningIs, DeskIs
  <2>2. CASE desk' = desk
    BY <1>1, <2>2, RunningIs
  <2> QED
    BY <1>3, <2>1, <2>2
<1> QED
  BY <1>1, <1>2, <1>4, <1>5, EditStep DEF Keeps

LEMMA ProposeKeeps ==
  ASSUME IInv, UNCHANGED shelf, Propose
  PROVE  IInv'
<1>1. /\ Running /\ desk.editor # None /\ Faithful(desk.editor)
      /\ UNCHANGED <<left, mem, store, pending, deferred, held>>
  BY OnPageIs, InFormIs DEF Propose, hostVars
<1>2. SameScreen(roster, roster') /\ roster'.pane = "Confirmation"
  BY <1>1, MovesAreQuiet DEF Propose
<1>3. /\ DOMAIN desk' = DeskFields /\ desk'.editor = desk.editor
      /\ desk'.confirmation = E!CommandOf(desk.editor) /\ desk'.unsure = desk.unsure
  BY <1>1, RunningIs, DeskIs DEF Propose
<1>4. /\ E!CommandOf(desk.editor).mode = desk.editor.mode
      /\ E!CommandOf(desk.editor).of = desk.editor.of
      /\ E!CommandOf(desk.editor).review = desk.editor.review
  BY DEF E!CommandOf
<1>5. desk.editor.mode = "edit" => desk.editor.review # None
  BY DEF Propose, E!MayCreate, E!MayActivate
<1>6. DeskForm'
  BY <1>1, <1>2, <1>3, <1>4, <1>5 DEF DeskForm, Faithful
<1> QED
  BY <1>1, <1>2, <1>3, <1>6, RunningIs, FormStep DEF Screens, Agree

LEMMA DiscardKeeps ==
  ASSUME IInv, UNCHANGED shelf, Discard
  PROVE  IInv'
<1>1. /\ Running /\ desk.confirmation = None
      /\ UNCHANGED <<left, mem, store, pending>>
  BY OnPageIs, InFormIs DEF Discard
<1>2. /\ DOMAIN desk' = DeskFields /\ desk'.editor = None
      /\ desk'.confirmation = None /\ desk'.unsure = desk.unsure
  BY <1>1, RunningIs, DeskIs DEF Discard
<1>3. CASE ended' = "uncancelled" /\ held' = held
  BY <1>1, <1>2, <1>3, RunningIs, LostIs DEF IsShelf
<1>4. CASE held' = held \ {"profile"} /\ QueueMissingDetail(roster)
  <2>1. SameScreen(roster, roster') /\ DeskForm'
    BY <1>1, <1>2, MovesAreQuiet DEF Discard, DeskForm
  <2>2. "profile" \in DOMAIN deferred' /\ Timely(deferred'.profile, roster)
    BY <1>1, <1>4, QueueHereIs
  <2> QED
    BY <1>1, <1>2, <1>4, <2>1, <2>2, FormStep
<1> QED
  BY <1>3, <1>4 DEF Discard

LEMMA AskedIs ==
  ASSUME IInv, Asked
  PROVE  /\ Running /\ desk.editor # None /\ Faithful(desk.editor) /\ desk.confirmation # None
         /\ desk.confirmation.mode = desk.editor.mode /\ desk.confirmation.of = desk.editor.of
         /\ desk.editor.mode = "edit" => desk.confirmation.of \in Profiles
BY KeyIsRunning, RunningIs DEF Asked, DeskForm, Faithful

LEMMA DeclineCommandKeeps ==
  ASSUME IInv, UNCHANGED shelf, DeclineCommand
  PROVE  IInv'
<1>1. Running /\ UNCHANGED <<left, mem, store, pending, deferred, held>>
  BY AskedIs DEF DeclineCommand, hostVars
<1>2. SameScreen(roster, roster')
  BY <1>1, MovesAreQuiet DEF DeclineCommand
<1>3. /\ DOMAIN desk' = DeskFields /\ desk'.editor = desk.editor
      /\ desk'.confirmation = None /\ desk'.unsure = desk.unsure
  BY <1>1, RunningIs, DeskIs DEF DeclineCommand
<1>4. DeskForm'
  BY <1>1, <1>3, RunningIs DEF DeskForm
<1> QED
  BY <1>1, <1>2, <1>3, <1>4, RunningIs, FormStep DEF Screens, Agree

(* The runtime has a new version of one agent. *)
LEMMA NextVersion ==
  ASSUME NEW versions \in Versions, NEW p \in Profiles
  PROVE  /\ [versions EXCEPT ![p] = @ + 1] \in Versions
         /\ \A q \in Profiles : versions[q] <= [versions EXCEPT ![p] = @ + 1][q]
BY DEF Versions

LEMMA MadeKeeps ==
  ASSUME IInv, Asked, Free, UNCHANGED <<shelf, left, pending>>,
         NEW p \in Profiles, Made(desk.confirmation, p)
  PROVE  IInv'
<1> DEFINE versions == [store.version EXCEPT ![p] = @ + 1]
           shown == Refreshed(p, versions)
<1>1. Running /\ desk.editor # None /\ desk.confirmation.mode = desk.editor.mode
  BY AskedIs
<1>2. /\ "version" \in DOMAIN store /\ store.version \in Versions /\ Screen(roster, store.version)
      /\ mem.bound \in {None, Target(roster)}
  BY <1>1, RunningIs DEF Screens
<1>3. versions \in Versions /\ Reach(shown, versions)
  BY <1>2, NextVersion, RefreshedReach
<1>4. "version" \in DOMAIN store' /\ store'.version = versions
  BY <1>2 DEF Made
<1>5. /\ held' = IF desk.confirmation.mode = "edit" THEN held \ {"profile"} ELSE held
      /\ held' \subseteq held
  BY DEF Made
<1>6. CASE /\ roster' = Shown(shown, "Detail", roster.focus)
           /\ mem' = MemoryAfter(shown)
           /\ QueueMissingDetail(shown)
           /\ desk' = [desk EXCEPT !.editor = None, !.confirmation = None]
  <2>1. /\ DOMAIN desk' = DeskFields /\ desk'.editor = None
        /\ desk'.confirmation = None /\ desk'.unsure = desk.unsure
    BY <1>1, <1>6, RunningIs, DeskIs
  <2>2. DeskForm'
    BY <2>1 DEF DeskForm
  <2>3. "profile" \in held' => desk'.unsure
    BY <1>1, <1>5, <2>1, RunningIs DEF Agree
  <2> HIDE DEF shown, versions
  <2> QED
    BY <1>1, <1>3, <1>4, <1>5, <1>6, <2>1, <2>2, <2>3, RereadStep
<1>7. CASE ended' = "failed" /\ UNCHANGED <<roster, mem, desk>>
  <2>1. /\ held' \subseteq ReviewKinds /\ IsShelf(shelf)' /\ DOMAIN desk' = DeskFields
        /\ ("memory" \in held => mem.registered)' /\ ("skill" \in held => shelf.registered)'
        /\ ("profile" \in held => desk.unsure \/ desk.editor # None)'
    BY <1>1, <1>5, <1>7, RunningIs DEF Agree, IsShelf
  <2> QED
    BY <1>1, <1>7, <2>1, EndedIs
<1> QED
  BY <1>6, <1>7 DEF Made

LEMMA ConfirmCommandKeeps ==
  ASSUME IInv, UNCHANGED shelf, ConfirmCommand
  PROVE  IInv'
<1>1. /\ Asked /\ Free /\ Running /\ UNCHANGED <<shelf, left, pending>>
      /\ desk.editor.mode = "edit" => desk.confirmation.of \in Profiles
      /\ desk.confirmation.mode = desk.editor.mode
  BY AskedIs DEF ConfirmCommand
<1>2. CASE \E p \in Profiles : Made(desk.confirmation, p)
  BY <1>1, <1>2, MadeKeeps
<1>3. CASE /\ desk.confirmation.of \in Profiles
           /\ Outdated(desk.confirmation.of) /\ UNCHANGED store
  BY <1>1, <1>3, OutdatedKeeps
<1>4. CASE /\ held' \in {held, IF desk.confirmation.mode = "edit" THEN held \ {"profile"} ELSE held}
           /\ QueueMissingDetail(roster)
           /\ UNCHANGED <<store, ended, roster, mem, desk>>
  <2>1. "profile" \in DOMAIN deferred' /\ Timely(deferred'.profile, roster)
    BY <1>1, <1>4, QueueHereIs
  <2>2. DeskForm' /\ DOMAIN desk' = DeskFields
    BY <1>1, <1>4, RunningIs, DeskStays
  <2> QED
    BY <1>1, <1>4, <2>1, <2>2, RunningIs, MovesAreQuiet, FormStep DEF Agree
<1> QED
  BY <1>1, <1>2, <1>3, <1>4 DEF ConfirmCommand

LEMMA DeskKeysKeep ==
  ASSUME IInv, UNCHANGED shelf, DeskForms \/ DeskTyping
  PROVE  IInv'
BY ComingKeeps, LeavePageKeeps, TypingKeeps, DiscardKeeps, ReviewingKeeps, ProposeKeeps,
   DeclineCommandKeeps, ConfirmCommandKeeps, EditNamedAgentKeeps
   DEF DeskForms, DeskTyping

-----------------------------------------------------------------------------
(* The form of a skill *)

LEMMA SkillEdits ==
  ASSUME NEW e, SkillFaithful(e)
  PROVE  /\ SkillFaithful(K!NoReview(e)) /\ K!NoReview(e).review = None /\ K!NoReview(e).mode = e.mode
         /\ \A f, says : SkillFaithful(K!SetField(e, f, says))
         /\ \A f : SkillFaithful(K!SelectField(e, f))
         /\ \A what : SkillFaithful(K!OpenNote(e, what))
         /\ SkillFaithful(K!WriteNote(e)) /\ SkillFaithful(K!RemoveNote(e))
         /\ \A taken : SkillFaithful(K!PutNote(e, taken))
         /\ \A taken, f : SkillFaithful(K!SelectField(K!PutNote(e, taken), f))
         /\ SkillFaithful(K!AtReview(e)) /\ SkillFaithful(K!PreviewAsked(K!AtReview(e)))
         /\ K!AtReview(e).draft = e.draft /\ K!AtReview(e).review = e.review
         /\ K!AtReview(e).mode = e.mode
         /\ K!PreviewAsked(K!AtReview(e)).draft = e.draft
<1>1. SkillFaithful(K!NoReview(e)) /\ K!NoReview(e).review = None /\ K!NoReview(e).mode = e.mode
  BY DEF SkillFaithful, K!NoReview
<1>2. \A f, says : SkillFaithful(K!SetField(e, f, says))
  <2>1. \A f, says : LET d == [K!NoReview(e) EXCEPT !.draft[f] = says]
                     IN DOMAIN d = DOMAIN K!NoReview(e) /\ d.review = None /\ d.mode = e.mode
    BY <1>1 DEF SkillFaithful
  <2> QED
    BY <1>1, <2>1 DEF SkillFaithful, K!SetField
<1>3. ASSUME NEW d, SkillFaithful(d) PROVE \A f : SkillFaithful(K!SelectField(d, f))
  BY <1>3 DEF SkillFaithful, K!SelectField
<1>4. \A what : SkillFaithful(K!OpenNote(e, what))
  BY DEF SkillFaithful, K!OpenNote
<1>5. SkillFaithful(K!WriteNote(e))
  BY <1>1 DEF SkillFaithful, K!WriteNote
<1>6. SkillFaithful(K!RemoveNote(e))
  <2>1. LET d == [K!NoReview(e) EXCEPT !.draft["references"] = "new"]
        IN DOMAIN d = DOMAIN K!NoReview(e) /\ d.review = None /\ d.mode = e.mode
    BY <1>1 DEF SkillFaithful
  <2> QED
    BY <1>1, <2>1 DEF SkillFaithful, K!RemoveNote
<1>7. \A taken : SkillFaithful(K!PutNote(e, taken))
  <2> DEFINE d == [K!NoReview(e) EXCEPT !.draft["references"] = "new"]
             n == [d EXCEPT !.note = "none"]
             p == [n EXCEPT !.field = "reference name"]
  <2>1. DOMAIN d = DOMAIN K!NoReview(e) /\ d.review = None /\ d.mode = e.mode
    BY <1>1 DEF SkillFaithful
  <2> HIDE DEF d
  <2>2. DOMAIN p = DOMAIN d /\ p.review = None /\ p.mode = e.mode
    BY <1>1, <2>1 DEF SkillFaithful
  <2>3. SkillFaithful(p)
    BY <1>1, <2>1, <2>2 DEF SkillFaithful
  <2>4. p = [K!NoReview(e) EXCEPT !.draft["references"] = "new", !.note = "none", !.field = "reference name"]
    BY DEF d
  <2> QED
    BY <2>3, <2>4 DEF K!PutNote
<1>8. /\ SkillFaithful(K!AtReview(e)) /\ SkillFaithful(K!PreviewAsked(K!AtReview(e)))
      /\ K!AtReview(e).draft = e.draft /\ K!AtReview(e).review = e.review
      /\ K!AtReview(e).mode = e.mode
      /\ K!PreviewAsked(K!AtReview(e)).draft = e.draft
  BY DEF SkillFaithful, K!AtReview, K!PreviewAsked
<1> QED
  BY <1>1, <1>2, <1>3, <1>4, <1>5, <1>6, <1>7, <1>8

(* A review is kept only with the draft it was asked for. *)
LEMMA PreviewedKeeps ==
  ASSUME NEW e, SkillFaithful(e), NEW review, review.draft = e.draft
  PROVE  SkillFaithful(K!Previewed(e, review))
BY DEF SkillFaithful, K!Previewed

LEMMA NewSkillForms ==
  /\ \A seeded : SkillFaithful(K!ForCreate(seeded))
  /\ \A s, v : SkillFaithful(K!ForVersion(s, v))
BY DEF SkillFaithful, K!ForCreate, K!ForVersion, K!Opened

-----------------------------------------------------------------------------
(* The skills tab *)

(* Where a step takes the list of agents *)
Arrives(r) ==
    /\ "version" \in DOMAIN store' /\ store'.version \in Versions
    /\ Reach(r, store'.version) /\ SameScreen(r, roster')
    /\ desk.confirmation # None => roster'.pane = "Confirmation"
    /\ IsView(mem') /\ mem'.bound \in {None, Target(r)} /\ mem'.registered = mem.registered
    /\ Timely(pending', r) /\ "profile" \in DOMAIN deferred' /\ Timely(deferred'.profile, r)

Shelved(k) == IsShelf(k) /\ ShelfSound(k)

LEMMA ShelfStep ==
  ASSUME IInv, Running, UNCHANGED <<desk, left>>, NEW r, Arrives(r), Shelved(shelf'),
         held' \subseteq held \cup {"skill"}, held \subseteq held' \cup {"skill"},
         shelf'.registered = ("skill" \in held') \/ ended' = "uncancelled"
  PROVE  IInv'
<1>1. held' \subseteq ReviewKinds /\ left' = left /\ DOMAIN desk' = DeskFields /\ IsShelf(shelf)'
  BY RunningIs DEF ReviewKinds, Shelved
<1>2. CASE ended' = "uncancelled"
  BY <1>1, <1>2, LostIs
<1>3. CASE shelf'.registered = ("skill" \in held')
  <2>1. Screens' /\ ShelfForm'
    BY RunningIs, ScreensStep DEF Arrives, Shelved, ShelfForm
  <2>2. DeskForm'
    BY RunningIs DEF Arrives, DeskForm
  <2>3. ("memory" \in held') = ("memory" \in held) /\ ("profile" \in held') = ("profile" \in held)
    OBVIOUS
  <2>4. Agree'
    BY <1>3, <2>3, RunningIs DEF Arrives, Agree
  <2>5. Reviews'
    BY <1>1, <2>4, RunningIs, AgreeReviews
  <2> QED
    BY <1>1, <2>1, <2>2, <2>5, RunningIs DEF IInv
<1> QED
  BY <1>2, <1>3

LEMMA SameIs ==
  ASSUME NEW s, NEW r, SameScreen(s, r)
  PROVE  /\ SameScreen(r, r) /\ Target(r) = Target(s)
         /\ \A x : Timely(x, r) <=> Timely(x, s)
         /\ \A q : Follows(q, s) => Follows(q, r)
         /\ \A versions : Screen(s, versions) => Screen(r, versions)
BY DEF SameScreen, Target, Timely, Follows, Screen

(* The list as it is, whatever the tab *)
LEMMA StayingArrives ==
  ASSUME IInv, Running, UNCHANGED mem, SameScreen(roster, roster'),
         roster.pane = "Confirmation" => roster'.pane = "Confirmation",
         "version" \in DOMAIN store', store'.version = store.version,
         Timely(pending', roster), "profile" \in DOMAIN deferred', Timely(deferred'.profile, roster)
  PROVE  Arrives(roster)
BY RunningIs, StaysInReach DEF Arrives, Screens, DeskForm

(* Tabs and panes of tabs *)
LEMMA TabIs ==
  ASSUME IInv, Running
  PROVE  \A tab : /\ SameScreen(roster, [roster EXCEPT !.tab = tab])
                  /\ [roster EXCEPT !.tab = tab].pane = roster.pane
BY MovesAreQuiet

(* What waits for the slot, but for a preview *)
LEMMA LookedIs ==
  ASSUME NEW queue, "profile" \in DOMAIN queue, NEW k, NEW tab
  PROVE  /\ "profile" \in DOMAIN Looked(queue, k, tab)
         /\ Looked(queue, k, tab).profile = queue.profile
         /\ "profile" \in DOMAIN QueueMissing(queue, k, tab)
         /\ QueueMissing(queue, k, tab).profile = queue.profile
         /\ \A s, starter : /\ "profile" \in DOMAIN QueuePreview(queue, k, s, starter, tab)
                            /\ QueuePreview(queue, k, s, starter, tab).profile = queue.profile
<1>1. \A s, starter : /\ "profile" \in DOMAIN QueuePreview(queue, k, s, starter, tab)
                      /\ QueuePreview(queue, k, s, starter, tab).profile = queue.profile
  BY DEF QueuePreview
<1>2. /\ "profile" \in DOMAIN QueueMissing(queue, k, tab)
      /\ QueueMissing(queue, k, tab).profile = queue.profile
  BY <1>1 DEF QueueMissing
<1> QED
  BY <1>1, <1>2 DEF Looked

LEMMA ShelveStep ==
  ASSUME IInv, Running, NEW k, Shelved(k), k.registered = shelf.registered, shelf' = k,
         UNCHANGED <<left, pending, held, rosterVars, deskVars>>,
         "profile" \in DOMAIN deferred', deferred'.profile = deferred.profile
  PROVE  IInv'
<1>1. Arrives(roster)
  BY RunningIs, MovesAreQuiet, StayingArrives DEF rosterVars, Screens
<1> QED
  BY <1>1, RunningIs, ShelfStep DEF deskVars, Agree

LEMMA ShelveKeeps ==
  ASSUME IInv, Running, NEW k, Shelved(k), k.registered = shelf.registered, Shelve(k)
  PROVE  IInv'
<1>1. "profile" \in DOMAIN deferred' /\ deferred'.profile = deferred.profile
  BY RunningIs, LookedIs DEF Shelve, Screens
<1> QED
  BY <1>1, ShelveStep DEF Shelve, KeepRunning

(* What a change of the view leaves alone *)
Alike(k, j) ==
    /\ IsShelf(j) /\ j.registered = k.registered /\ j.editor = k.editor
    /\ j.confirmation = k.confirmation /\ j.agent = k.agent

LEMMA AlikeIs ==
  ASSUME NEW k, Shelved(k), NEW j, Alike(k, j), k.confirmation = None \/ j.pane = k.pane
  PROVE  Shelved(j) /\ j.registered = k.registered
BY DEF Alike, Shelved, ShelfSound

LEMMA ViewsAre ==
  ASSUME NEW k, IsShelf(k)
  PROVE  /\ \A versions : Alike(k, WithSkills(k, versions)) /\ WithSkills(k, versions).pane = k.pane
         /\ \A ref : Alike(k, Found(k, ref)) /\ Found(k, ref).pane = k.pane
         /\ \A ref : Alike(k, WithSkill(k, ref)) /\ Alike(k, WithSkillVersion(k, ref))
         /\ \A ref : Alike(k, WithSkillHistory(k, ref)) /\ Alike(k, NoContext(k))
         /\ \A pane : Alike(k, Presented(k, pane))
         /\ \A e : LET j == WithForm(k, e)
                   IN /\ IsShelf(j) /\ j.registered = k.registered /\ j.editor = e /\ j.confirmation = None
                      /\ j.agent = k.agent
<1>1. \A ref : Alike(k, Found(k, ref)) /\ Found(k, ref).pane = k.pane
  BY DEF IsShelf, Alike, Found
<1>2. \A ref : Alike(k, WithSkill(k, ref)) /\ Alike(k, WithSkillVersion(k, ref))
  BY <1>1 DEF IsShelf, Alike, WithSkill, WithSkillVersion
<1>3. \A versions : Alike(k, WithSkills(k, versions)) /\ WithSkills(k, versions).pane = k.pane
  BY DEF IsShelf, Alike, WithSkills
<1>4. \A ref : Alike(k, WithSkillHistory(k, ref)) /\ Alike(k, NoContext(k))
  BY DEF IsShelf, Alike, WithSkillHistory, NoContext
<1>5. \A pane : Alike(k, Presented(k, pane))
  BY DEF IsShelf, Alike, Presented
<1>6. \A e : LET j == WithForm(k, e)
             IN /\ IsShelf(j) /\ j.registered = k.registered /\ j.editor = e /\ j.confirmation = None
                /\ j.agent = k.agent
  BY DEF IsShelf, WithForm
<1> QED
  BY <1>1, <1>2, <1>3, <1>4, <1>5, <1>6

LEMMA AlikeChain ==
  ASSUME NEW k, NEW j, Alike(k, j), NEW i, Alike(j, i)
  PROVE  Alike(k, i)
BY DEF Alike

(* Fields that say only what is shown *)
LEMMA ShelfFields ==
  ASSUME NEW k, IsShelf(k)
  PROVE  /\ \A x : /\ Alike(k, [k EXCEPT !.focus = x]) /\ Alike(k, [k EXCEPT !.sel = x])
                   /\ Alike(k, [k EXCEPT !.past = x]) /\ Alike(k, [k EXCEPT !.made = x])
                   /\ Alike(k, [k EXCEPT !.origin = x]) /\ Alike(k, [k EXCEPT !.page = x])
                   /\ Alike(k, [k EXCEPT !.from = x])
                   /\ Alike(k, [k EXCEPT !.pane = x]) /\ Alike(k, [k EXCEPT !.sample = x])
                   /\ Alike(k, [k EXCEPT !.detail = x])
                   /\ [k EXCEPT !.focus = x].pane = k.pane /\ [k EXCEPT !.sample = x].pane = k.pane
                   /\ [k EXCEPT !.detail = x].pane = k.pane /\ [k EXCEPT !.origin = x].pane = k.pane
                   /\ [k EXCEPT !.past = x].pane = k.pane
         /\ \A x, y : /\ Alike(k, [k EXCEPT !.source = x, !.sample = y])
                      /\ Alike(k, [k EXCEPT !.pane = x, !.focus = y])
                      /\ Alike(k, [k EXCEPT !.focus = x, !.pane = y])
                      /\ Alike(k, [k EXCEPT !.origin = x, !.focus = y])
                      /\ [k EXCEPT !.origin = x, !.focus = y].pane = k.pane
         /\ \A x, y, z : Alike(k, [k EXCEPT !.pane = x, !.page = y, !.focus = z])
         /\ \A x, y, z, w : Alike(k, [k EXCEPT !.pane = x, !.source = y, !.sample = z, !.focus = w])
         /\ \A x, y, z : Alike(k, [k EXCEPT !.origin = x, !.from = y, !.focus = z])
BY DEF IsShelf, Alike

(* What a key of the tab meets *)
LEMMA OnShelfIs ==
  ASSUME IInv
  PROVE  /\ OnShelf => Running
         /\ \A pane : ShelfKey(pane) => Running /\ OnShelf /\ shelf.confirmation = None
         /\ OnSkill => Running /\ shelf.confirmation = None /\ shelf.editor = None
         /\ \A page : SkillPage(page) =>
               /\ Running /\ OnShelf /\ shelf.confirmation = None /\ shelf.editor # None
               /\ SkillFaithful(shelf.editor)
<1>1. OnShelf => Running
  BY KeyIsRunning DEF OnShelf
<1>2. Running => Shelved(shelf)
  BY RunningIs DEF Shelved, ShelfForm
<1>3. \A pane : ShelfKey(pane) => Running /\ OnShelf /\ shelf.confirmation = None
  BY <1>1, <1>2 DEF ShelfKey, Asking, Shelved, ShelfSound
<1>4. OnSkill => Running /\ shelf.confirmation = None /\ shelf.editor = None
  BY <1>3 DEF OnSkill
<1>5. \A page : SkillPage(page) =>
               /\ Running /\ OnShelf /\ shelf.confirmation = None /\ shelf.editor # None
               /\ SkillFaithful(shelf.editor)
  BY <1>1, <1>2 DEF SkillPage, InSkillForm, Shelved, ShelfSound
<1> QED
  BY <1>1, <1>3, <1>4, <1>5

LEMMA ShelfIs ==
  ASSUME IInv, Running
  PROVE  Shelved(shelf) /\ IsShelf(shelf) /\ "profile" \in DOMAIN deferred
BY RunningIs DEF Shelved, ShelfForm, Screens

(* A key of the tab that changes what is shown *)
LEMMA BrowseStep ==
  ASSUME IInv, Running, NEW k, Alike(shelf, k), shelf.confirmation = None \/ k.pane = shelf.pane,
         Shelve(k)
  PROVE  IInv'
BY ShelfIs, AlikeIs, ShelveKeeps

LEMMA BrowsingKeeps ==
  ASSUME IInv,
         \/ OpenSkill \/ TabOnShelf \/ OpenSkillHistory \/ OpenSkillVersion
         \/ ResumeSkillDraft \/ OpenSources
         \/ \E i \in 0 .. MaxSkillVersion : PickSkillVersion(i)
  PROVE  IInv'
<1>1. CASE OpenSkill
  <2>1. Running /\ shelf.confirmation = None
    BY <1>1, OnShelfIs DEF OpenSkill
  <2> DEFINE there == [shelf EXCEPT !.focus = "Workspace"]
             shown == WithSkill(there, Ref(shelf.sel, store.skills[shelf.sel]))
             read == [shown EXCEPT !.made = IF @ = shelf.sel THEN None ELSE @]
  <2>2. Alike(shelf, there)
    BY <2>1, ShelfIs, ShelfFields
  <2> HIDE DEF there
  <2>3. Alike(there, shown)
    BY <2>2, ViewsAre DEF Alike
  <2> HIDE DEF shown
  <2>4. Alike(shown, read)
    BY <2>3 DEF Alike, IsShelf
  <2> HIDE DEF read
  <2>5. Alike(read, Presented(read, "Detail"))
    BY <2>4, ViewsAre DEF Alike
  <2>6. Alike(shelf, Presented(read, "Detail"))
    BY <2>2, <2>3, <2>4, <2>5, AlikeChain
  <2>7. Shelve(Presented(read, "Detail"))
    BY <1>1 DEF OpenSkill, Fetched, there, shown, read
  <2> QED
    BY <2>1, <2>6, <2>7, BrowseStep
<1>2. CASE TabOnShelf
  <2>1. Running
    BY <1>2, OnShelfIs DEF TabOnShelf
  <2> DEFINE focus == IF shelf.focus = "List" THEN "Workspace" ELSE "List"
             pane == IF shelf.pane = "List" /\ shelf.focus = "List" THEN "Detail" ELSE shelf.pane
             k == [shelf EXCEPT !.focus = focus, !.pane = pane]
  <2>2. Shelve(k)
    BY <1>2 DEF TabOnShelf
  <2>3. Alike(shelf, k)
    BY <2>1, ShelfIs, ShelfFields
  <2>4. k.pane = pane
    BY <2>1, ShelfIs DEF IsShelf
  <2>5. shelf.confirmation = None \/ k.pane = shelf.pane
    BY <2>1, <2>4, ShelfIs DEF Shelved, ShelfSound
  <2> HIDE DEF k
  <2> QED
    BY <2>1, <2>2, <2>3, <2>5, BrowseStep
<1>3. CASE OpenSkillHistory
  <2>1. Running /\ shelf.confirmation = None
    BY <1>3, OnShelfIs DEF OpenSkillHistory
  <2> DEFINE read == WithSkillHistory(shelf, Ref(shelf.detail.s, store.skills[shelf.detail.s]))
  <2>2. Alike(shelf, read)
    BY <2>1, ShelfIs, ViewsAre
  <2>3. Shelve(Presented(read, "History"))
    BY <1>3 DEF OpenSkillHistory, Fetched
  <2> HIDE DEF read
  <2>4. Alike(shelf, Presented(read, "History"))
    BY <2>2, ViewsAre, AlikeChain DEF Alike
  <2> QED
    BY <2>1, <2>3, <2>4, BrowseStep
<1>4. CASE OpenSkillVersion
  <2>1. Running /\ shelf.confirmation = None
    BY <1>4, OnShelfIs DEF OpenSkillVersion
  <2> DEFINE read == WithSkillVersion(shelf, SelectedRef(shelf))
  <2>2. Alike(shelf, read)
    BY <2>1, ShelfIs, ViewsAre
  <2>3. Shelve(Presented(read, "Detail"))
    BY <1>4 DEF OpenSkillVersion, Fetched
  <2> HIDE DEF read
  <2>4. Alike(shelf, Presented(read, "Detail"))
    BY <2>2, ViewsAre, AlikeChain DEF Alike
  <2> QED
    BY <2>1, <2>3, <2>4, BrowseStep
<1>5. CASE ResumeSkillDraft
  <2>1. Running /\ shelf.confirmation = None
    BY <1>5, OnShelfIs DEF ResumeSkillDraft
  <2> QED
    BY <1>5, <2>1, ShelfIs, ShelfFields, BrowseStep DEF ResumeSkillDraft
<1>6. CASE OpenSources
  <2>1. Running /\ shelf.confirmation = None
    BY <1>6, OnShelfIs DEF OpenSources
  <2> QED
    BY <1>6, <2>1, ShelfIs, ShelfFields, BrowseStep DEF OpenSources
<1>7. ASSUME NEW i, PickSkillVersion(i)
      PROVE  IInv'
  <2>1. Running /\ shelf.confirmation = None
    BY <1>7, OnShelfIs DEF PickSkillVersion
  <2> QED
    BY <1>7, <2>1, ShelfIs, ShelfFields, BrowseStep DEF PickSkillVersion
<1> QED
  BY <1>1, <1>2, <1>3, <1>4, <1>5, <1>6, <1>7

-----------------------------------------------------------------------------
(* The keys of the skills tab *)

LEMMA PickingSkillsKeeps ==
  ASSUME IInv,
         \/ \E s \in Skills : PickSkill(s)
         \/ \E s \in Skills \cup {None} : PickSource(s)
  PROVE  IInv'
<1>1. ASSUME NEW s, PickSkill(s) PROVE IInv'
  <2>1. Running /\ shelf.confirmation = None
    BY <1>1, OnShelfIs DEF PickSkill
  <2> DEFINE there == [shelf EXCEPT !.sel = s]
             k == NoContext(there)
  <2>2. Alike(shelf, there)
    BY <2>1, ShelfIs, ShelfFields
  <2>3. shelf' = k /\ deferred' = QueuePreview(deferred, k, s, FALSE, "skills")
    BY <1>1 DEF PickSkill
  <2> HIDE DEF there
  <2>4. Alike(there, k)
    BY <2>2, ViewsAre DEF Alike
  <2> HIDE DEF k
  <2>5. Shelved(k) /\ k.registered = shelf.registered
    BY <2>1, <2>2, <2>4, ShelfIs, AlikeChain, AlikeIs
  <2>6. "profile" \in DOMAIN deferred' /\ deferred'.profile = deferred.profile
    BY <2>1, <2>3, ShelfIs DEF QueuePreview
  <2> QED
    BY <1>1, <2>1, <2>3, <2>5, <2>6, ShelveStep DEF PickSkill, KeepRunning
<1>2. ASSUME NEW s, PickSource(s) PROVE IInv'
  <2>1. Running /\ shelf.confirmation = None
    BY <1>2, OnShelfIs DEF PickSource
  <2> DEFINE k == [shelf EXCEPT !.source = s, !.sample = None]
  <2>2. Alike(shelf, k)
    BY <2>1, ShelfIs, ShelfFields
  <2>3. shelf' = k /\ deferred' = IF s = None THEN deferred ELSE QueuePreview(deferred, k, s, TRUE, "skills")
    BY <1>2 DEF PickSource
  <2> HIDE DEF k
  <2>4. Shelved(k) /\ k.registered = shelf.registered
    BY <2>1, <2>2, ShelfIs, AlikeIs
  <2>5. "profile" \in DOMAIN deferred' /\ deferred'.profile = deferred.profile
    BY <2>1, <2>3, ShelfIs DEF QueuePreview
  <2> QED
    BY <1>2, <2>1, <2>3, <2>4, <2>5, ShelveStep DEF PickSource, KeepRunning
<1> QED
  BY <1>1, <1>2

LEMMA FormShelved ==
  ASSUME NEW k, IsShelf(k), k.agent # None => k.agent.p \in Profiles, NEW e, SkillFaithful(e)
  PROVE  Shelved(WithForm(k, e)) /\ WithForm(k, e).registered = k.registered
BY ViewsAre DEF Shelved, ShelfSound

LEMMA NewSkillKeeps ==
  ASSUME IInv, StartSkill \/ StartVersion
  PROVE  IInv'
<1> DEFINE there == [shelf EXCEPT !.focus = "Workspace"]
<1>1. Running /\ shelf.confirmation = None
  BY OnShelfIs DEF StartSkill, StartVersion
<1>2. Alike(shelf, there)
  BY <1>1, ShelfIs, ShelfFields
<1>3. PICK k, e : /\ k = there \/ \E ref : k = WithSkillVersion(there, ref)
                  /\ SkillFaithful(e) /\ Shelve(WithForm(k, e))
  BY NewSkillForms DEF StartSkill, StartVersion, Fetched
<1> HIDE DEF there
<1>4. IsShelf(k) /\ k.registered = shelf.registered /\ (k.agent # None => k.agent.p \in Profiles)
  BY <1>1, <1>2, <1>3, ShelfIs, ViewsAre DEF Alike, Shelved, ShelfSound
<1>5. Shelved(WithForm(k, e)) /\ WithForm(k, e).registered = shelf.registered
  BY <1>3, <1>4, FormShelved
<1> QED
  BY <1>1, <1>3, <1>5, ShelveKeeps

LEMMA PreviewsKeep ==
  ASSUME IInv, StartPreview \/ PreviewAnswered
  PROVE  IInv'
<1>1. CASE StartPreview
  <2>1. Running
    BY <1>1, KeyIsRunning DEF StartPreview
  <2>2. Timely(pending', roster)
    BY <1>1, <2>1, RunningIs DEF StartPreview, Timely, Screens
  <2>3. "profile" \in DOMAIN deferred' /\ deferred'.profile = deferred.profile
    BY <1>1, <2>1, RunningIs DEF StartPreview, Screens
  <2>4. Arrives(roster)
    BY <1>1, <2>1, <2>2, <2>3, RunningIs, MovesAreQuiet, StayingArrives DEF StartPreview, rosterVars, Screens
  <2> QED
    BY <1>1, <2>1, <2>4, RunningIs, ShelfIs, ShelfStep DEF StartPreview, deskVars, KeepRunning, Agree
<1>2. CASE PreviewAnswered
  <2>1. Running /\ pending' = None
    BY <1>2 DEF PreviewAnswered, Pending
  <2>2. Timely(pending', roster)
    BY <2>1 DEF Timely
  <2>3. Arrives(roster)
    BY <1>2, <2>1, <2>2, RunningIs, MovesAreQuiet, StayingArrives DEF PreviewAnswered, rosterVars, Screens
  <2>4. Alike(shelf, shelf') /\ shelf'.pane = shelf.pane
    <3>1. \/ shelf' = shelf
          \/ \E ref : shelf' = [shelf EXCEPT !.sample = ref]
          \/ \E ref : shelf' = [shelf EXCEPT !.detail = ref]
      BY <1>2 DEF PreviewAnswered
    <3> QED
      BY <2>1, <3>1, ShelfIs DEF Alike, IsShelf
  <2>5. Shelved(shelf') /\ shelf'.registered = shelf.registered
    BY <2>1, <2>4, ShelfIs, AlikeIs
  <2> QED
    BY <1>2, <2>1, <2>3, <2>5, RunningIs, ShelfStep DEF PreviewAnswered, deskVars, KeepRunning, Agree
<1> QED
  BY <1>1, <1>2

-----------------------------------------------------------------------------
(* The form *)

LEMMA ShelveFormKeeps ==
  ASSUME IInv, Running, shelf.confirmation = None, NEW e, SkillFaithful(e), NEW page, ShelveForm(e, page)
  PROVE  IInv'
<1> DEFINE k == [shelf EXCEPT !.editor = e, !.page = page]
<1>1. Shelved(k) /\ k.registered = shelf.registered
  BY ShelfIs DEF Shelved, IsShelf, ShelfSound
<1>2. Shelve(k)
  BY DEF ShelveForm
<1> HIDE DEF k
<1> QED
  BY <1>1, <1>2, ShelveKeeps

LEMMA WritingKeeps ==
  ASSUME IInv,
         \/ OpenSkillDiscard \/ NoteForms
         \/ \E f \in EditedSkillFields : OpenSkillField(f)
         \/ \E says \in {"old", "new", "bad"} : TypeSkill(says)
  PROVE  IInv'
<1>1. Running /\ shelf.confirmation = None /\ SkillFaithful(shelf.editor)
  BY OnShelfIs DEF OpenSkillDiscard, NoteForms, OpenSkillField, TypeSkill, WriteSkillNote,
                   RemoveSkillNote, OpenSkillNote, PutSkillNote, OnNotes
<1>2. PICK e, page : SkillFaithful(e) /\ ShelveForm(e, page)
  BY <1>1, SkillEdits DEF OpenSkillDiscard, NoteForms, OpenSkillField, TypeSkill, WriteSkillNote,
                   RemoveSkillNote, OpenSkillNote, PutSkillNote, OnNotes
<1> QED
  BY <1>1, <1>2, ShelveFormKeeps

-----------------------------------------------------------------------------
(* Cancelled reviews of skills, and where the operator is left *)

LEMMA CancelledIs ==
  ASSUME IInv, Running, NEW k, Shelved(k), Cancelled(k)
  PROVE  /\ Shelved(shelf')
         /\ held' \subseteq held \cup {"skill"} /\ held \subseteq held' \cup {"skill"}
         /\ shelf'.registered = ("skill" \in held') \/ ended' = "uncancelled"
<1>1. shelf' = [k EXCEPT !.registered = FALSE]
  BY DEF Cancelled
<1>2. Shelved(shelf') /\ shelf'.registered = FALSE
  BY <1>1 DEF Shelved, IsShelf, ShelfSound
<1>3. CASE /\ held' = IF shelf.registered THEN held \ {"skill"} ELSE held
           /\ UNCHANGED ended
  <2>1. "skill" \notin held'
    BY <1>3, RunningIs DEF Agree
  <2>2. ("skill" \in held') = FALSE
    BY <2>1
  <2>3. shelf'.registered = ("skill" \in held')
    BY <1>2, <2>2
  <2> QED
    BY <1>2, <1>3, <2>3
<1>4. CASE ended' = "uncancelled" /\ UNCHANGED held
  BY <1>2, <1>4
<1> QED
  BY <1>3, <1>4 DEF Cancelled

LEMMA RecoveredIs ==
  ASSUME NEW k, Shelved(k)
  PROVE  Shelved(Recovered(k)) /\ Recovered(k).confirmation = None
<1> DEFINE bare == [k EXCEPT !.confirmation = None]
           shown == IF k.editor # None
                    THEN [bare EXCEPT !.editor = K!NoReview(@), !.pane = "Editor"]
                    ELSE [bare EXCEPT !.pane = "Detail"]
<1>1. IsShelf(bare) /\ bare.editor = k.editor /\ bare.confirmation = None /\ bare.agent = k.agent
  BY DEF Shelved, IsShelf
<1>2. k.editor # None => SkillFaithful(K!NoReview(k.editor))
  BY SkillEdits DEF Shelved, ShelfSound
<1> HIDE DEF bare
<1>3. IsShelf(shown) /\ shown.confirmation = None /\ shown.agent = k.agent /\ (shown.editor # None => SkillFaithful(shown.editor))
  <2>1. CASE k.editor # None
    <3>1. shown = [bare EXCEPT !.editor = K!NoReview(k.editor), !.pane = "Editor"]
      BY <1>1, <2>1
    <3> QED
      BY <1>1, <1>2, <2>1, <3>1 DEF IsShelf
  <2>2. CASE k.editor = None
    BY <1>1, <2>2 DEF IsShelf
  <2> QED
    BY <2>1, <2>2
<1> HIDE DEF shown
<1>4. /\ IsShelf([shown EXCEPT !.origin = None])
      /\ [shown EXCEPT !.origin = None].confirmation = None
      /\ [shown EXCEPT !.origin = None].editor = shown.editor
      /\ [shown EXCEPT !.origin = None].agent = shown.agent
  BY <1>3 DEF IsShelf
<1>5. Recovered(k) \in {shown, [shown EXCEPT !.origin = None]}
  BY DEF Recovered, shown, bare
<1> QED
  BY <1>3, <1>4, <1>5 DEF Shelved, ShelfSound

(* The tab of an agent, for an agent that may be selected *)
LEMMA GoingToAgent ==
  ASSUME IInv, Running, UNCHANGED <<desk, store>>, NEW p \in Profiles,
         LET to == IF MaySelect(p) THEN p ELSE roster.sel
         IN /\ roster' = [Selected(roster, to) EXCEPT !.tab = "agents", !.skillPanel = TRUE]
            /\ mem' = IF MaySelect(p) /\ p # roster.sel THEN BlankMemory ELSE mem,
         NEW slot, Timely(slot, roster), pending' = Retargeted(roster', slot),
         NEW sk, deferred' = Looked(Retarget(roster', deferred), sk, roster'.tab)
  PROVE  \E r : Arrives(r)
<1> DEFINE to == IF MaySelect(p) THEN p ELSE roster.sel
           after == Selected(roster, to)
<1>1. /\ Reach(after, store.version) /\ after.sel = to /\ after.rows = roster.rows
      /\ to # roster.sel => ~Protected(mem)
      /\ to = roster.sel => after = roster
  <2>1. store.version \in Versions /\ Screen(roster, store.version) /\ mem.bound \in {None, Target(roster)}
    BY RunningIs DEF Screens
  <2>2. /\ Reach(after, store.version) /\ after.sel = to /\ after.rows = roster.rows
        /\ to # roster.sel => ~Protected(mem)
    BY <2>1, SelectedReach
  <2> QED
    BY <2>2 DEF Selected
<1>2. mem' = IF to # roster.sel THEN BlankMemory ELSE mem
  BY DEF MaySelect
<1> HIDE DEF to
<1>3. roster' = [after EXCEPT !.tab = "agents", !.skillPanel = TRUE]
  BY DEF to
<1> HIDE DEF after
<1>4. SameScreen(after, roster') /\ roster'.pane = after.pane
  BY <1>1, <1>3 DEF SameScreen, Reach, Screen, RosterFields
<1>5. Follows(roster, roster')
  BY <1>1, <1>4, SameIs DEF Reach
<1>6. Timely(pending', after)
  BY <1>4, <1>5, SameIs, RetargetedTimely
<1>7. "profile" \in DOMAIN deferred' /\ Timely(deferred'.profile, after)
  BY <1>4, <1>5, SameIs, RetargetIs, LookedIs
<1>8. IsView(mem') /\ mem'.bound \in {None, Target(after)} /\ mem'.registered = mem.registered
  <2>1. CASE to # roster.sel
    BY <1>1, <1>2, <2>1, UnprotectedIs, BlankIs
  <2>2. CASE to = roster.sel
    BY <1>1, <1>2, <2>2, RunningIs DEF Screens
  <2> QED
    BY <2>1, <2>2
<1>9. desk.confirmation # None => roster'.pane = "Confirmation"
  BY <1>1, <1>4, RunningIs DEF DeskForm, Reach
<1> QED
  BY <1>1, <1>4, <1>6, <1>7, <1>8, <1>9, RunningIs DEF Arrives, Screens

(* Back to the agent, or nowhere *)
LEMMA ReturnIs ==
  ASSUME IInv, Running, Free, UNCHANGED <<desk, store, pending>>, NEW k, Return(k),
         NEW sk, deferred' = Looked(Retarget(roster', deferred), sk, roster'.tab)
  PROVE  \E r : Arrives(r)
<1>1. Timely(pending, roster) /\ pending' = Retargeted(roster', pending)
  BY DEF Free, Timely, Retargeted, StaleTarget
<1>2. CASE BackAtAgent(k)
  BY <1>1, <1>2, GoingToAgent DEF Return, AgentTab, BackAtAgent
<1>3. CASE UNCHANGED <<roster, mem>>
  <2>1. Timely(pending', roster)
    BY <1>1
  <2>2. "profile" \in DOMAIN deferred' /\ deferred'.profile = deferred.profile
    BY <1>3, RunningIs, LookedIs DEF Screens, Retarget, Retargeted
  <2> QED
    BY <1>3, <2>1, <2>2, RunningIs, MovesAreQuiet, StayingArrives DEF Screens
<1> QED
  BY <1>2, <1>3 DEF Return

LEMMA RecoverKeeps ==
  ASSUME IInv, Running, Free, UNCHANGED <<desk, pending, left>>, NEW k, Shelved(k), Recover(k),
         deferred' = Looked(Retarget(roster', deferred), shelf', roster'.tab)
  PROVE  IInv'
<1>1. /\ Shelved(shelf')
      /\ held' \subseteq held \cup {"skill"} /\ held \subseteq held' \cup {"skill"}
      /\ shelf'.registered = ("skill" \in held') \/ ended' = "uncancelled"
  BY RecoveredIs, CancelledIs DEF Recover
<1>2. PICK r : Arrives(r)
  BY ReturnIs DEF Recover
<1> QED
  BY <1>1, <1>2, ShelfStep

-----------------------------------------------------------------------------
(* Out of the tab, out of a page, and out of the form *)

LEMMA UnwindShelfKeeps ==
  ASSUME IInv, UnwindShelf
  PROVE  IInv'
<1> DEFINE leaves == ShelfInteraction = "List" \/ (ShelfInteraction = "Detail" /\ shelf.origin \in Profiles)
           to == CASE ShelfInteraction \in {"CreateSource", "Detail"} -> "List"
                   [] ShelfInteraction = "AssignmentReview" -> "AgentPicker"
                   [] OTHER -> "Detail"
           slot == IF leaves THEN Moved(pending) ELSE pending
           p == shelf.origin
<1>1. Running /\ shelf.confirmation = None
  BY OnShelfIs, ShelfIs DEF UnwindShelf, Asking, Shelved, ShelfSound
<1>2. Alike(shelf, shelf')
  <2>1. shelf' = IF leaves THEN [shelf EXCEPT !.origin = None]
                 ELSE [shelf EXCEPT !.pane = to, !.focus = IF ShelfInteraction = "CreateSource" THEN "List" ELSE @]
    BY DEF UnwindShelf
  <2> HIDE DEF to, leaves
  <2> QED
    BY <1>1, <2>1, ShelfIs DEF Alike, IsShelf
<1>3. Shelved(shelf') /\ shelf'.registered = shelf.registered
  BY <1>1, <1>2, ShelfIs, AlikeIs
<1>4. /\ pending' = Retargeted(roster', slot)
      /\ deferred' = Looked(Retarget(roster', deferred), shelf', roster'.tab)
      /\ UNCHANGED <<stopping, ended, left, held, store, desk>>
  BY DEF UnwindShelf, KeepRunning, deskVars
<1>5. Timely(slot, roster)
  BY <1>1, RunningIs DEF Screens, Moved, Timely
<1>6. \E r : Arrives(r)
  <2>1. CASE leaves /\ p \in Profiles
    <3>1. LET q == IF MaySelect(p) THEN p ELSE roster.sel
          IN /\ roster' = [Selected(roster, q) EXCEPT !.tab = "agents", !.skillPanel = TRUE]
             /\ mem' = IF MaySelect(p) /\ p # roster.sel THEN BlankMemory ELSE mem
      BY <2>1 DEF UnwindShelf
    <3> HIDE DEF leaves, p, slot
    <3> QED
      BY <1>1, <1>4, <1>5, <2>1, <3>1, GoingToAgent
  <2>2. CASE ~(leaves /\ p \in Profiles)
    <3>1. roster' = [roster EXCEPT !.tab = IF leaves THEN "overview" ELSE @] /\ UNCHANGED mem
      BY <2>2 DEF UnwindShelf
    <3>2. PICK tab : roster' = [roster EXCEPT !.tab = tab]
      BY <3>1
    <3> HIDE DEF leaves, p, slot
    <3>3. SameScreen(roster, roster') /\ roster'.pane = roster.pane
      BY <1>1, <3>2, TabIs
    <3>4. pending' = slot /\ Retarget(roster', deferred).profile = deferred.profile
          /\ "profile" \in DOMAIN Retarget(roster', deferred)
      BY <1>1, <1>4, <3>3, SameIs, RunningIs DEF Retarget, Retargeted, Screens
    <3>5. "profile" \in DOMAIN deferred' /\ deferred'.profile = deferred.profile
      BY <1>4, <3>4, LookedIs
    <3> QED
      BY <1>1, <1>4, <1>5, <3>1, <3>3, <3>4, <3>5, RunningIs, StayingArrives DEF Screens
  <2> QED
    BY <2>1, <2>2
<1>7. shelf'.registered = ("skill" \in held')
  BY <1>1, <1>3, <1>4, RunningIs DEF Agree
<1> QED
  BY <1>1, <1>3, <1>4, <1>6, <1>7, RunningIs, ShelfStep

(* A review is cancelled, and the list of agents stays as it is. *)
LEMMA CancelStep ==
  ASSUME IInv, Running, NEW k, Shelved(k), Cancelled(k),
         UNCHANGED <<pending, left, rosterVars, deskVars>>,
         "profile" \in DOMAIN deferred', deferred'.profile = deferred.profile
  PROVE  IInv'
<1>1. Arrives(roster)
  BY RunningIs, MovesAreQuiet, StayingArrives DEF rosterVars, Screens
<1> QED
  BY <1>1, CancelledIs, ShelfStep DEF deskVars

LEMMA LeaveSkillPageKeeps ==
  ASSUME IInv, LeaveSkillPage
  PROVE  IInv'
<1>1. Running /\ shelf.confirmation = None /\ shelf.editor # None /\ SkillFaithful(shelf.editor)
  BY OnShelfIs, ShelfIs DEF LeaveSkillPage, InSkillForm, Shelved, ShelfSound
<1>2. IsShelf(shelf)
  BY <1>1, ShelfIs
<1>3. CASE shelf.page = "review"
  <2> DEFINE k == [shelf EXCEPT !.page = "home", !.editor = K!NoReview(@)]
  <2>1. Cancelled(k) /\ UNCHANGED <<pending, left, deferred, rosterVars, deskVars>>
    BY <1>3 DEF LeaveSkillPage
  <2>2. /\ IsShelf(k) /\ k.editor = K!NoReview(shelf.editor) /\ k.confirmation = None
         /\ k.agent = shelf.agent
    BY <1>1, <1>2 DEF IsShelf
  <2>3. Shelved(k)
    BY <1>1, <2>2, ShelfIs, SkillEdits DEF Shelved, ShelfSound
  <2> HIDE DEF k
  <2> QED
    BY <1>1, <2>1, <2>3, ShelfIs, CancelStep
<1>4. CASE shelf.page # "review"
  <2>1. PICK k : /\ \/ k = [shelf EXCEPT !.pane = "Detail"]
                    \/ k = [shelf EXCEPT !.page = "section", !.editor = K!SelectField(@, "references")]
                    \/ k = [shelf EXCEPT !.page = "home"]
                 /\ Shelve(k)
    BY <1>4 DEF LeaveSkillPage
  <2>2. /\ IsShelf(k) /\ k.confirmation = None /\ k.registered = shelf.registered
        /\ k.agent = shelf.agent
        /\ k.editor \in {shelf.editor, K!SelectField(shelf.editor, "references")}
    BY <1>1, <1>2, <2>1 DEF IsShelf
  <2>3. Shelved(k)
    BY <1>1, <2>2, ShelfIs, SkillEdits DEF Shelved, ShelfSound
  <2> QED
    BY <1>1, <2>1, <2>2, <2>3, ShelveKeeps
<1> QED
  BY <1>3, <1>4

LEMMA DiscardSkillKeeps ==
  ASSUME IInv, DiscardSkill
  PROVE  IInv'
<1>1. Running
  BY OnShelfIs DEF DiscardSkill
<1> DEFINE k == [shelf EXCEPT !.editor = None, !.confirmation = None, !.pane = "Detail"]
<1>2. Cancelled(k) /\ UNCHANGED <<pending, left, rosterVars, deskVars>>
      /\ deferred' = Looked(deferred, shelf', roster.tab)
  BY DEF DiscardSkill
<1>3. Shelved(k)
  BY <1>1, ShelfIs DEF Shelved, ShelfSound, IsShelf
<1> HIDE DEF k
<1>4. "profile" \in DOMAIN deferred' /\ deferred'.profile = deferred.profile
  BY <1>1, <1>2, ShelfIs, LookedIs
<1> QED
  BY <1>1, <1>2, <1>3, <1>4, CancelStep

-----------------------------------------------------------------------------
(* Where the list of agents is after a step of the skills tab *)

LEMMA LookedTimely ==
  ASSUME IInv, Running, NEW r, Follows(roster, r), SameScreen(r, roster'),
         NEW sk, NEW tab, deferred' = Looked(Retarget(roster', deferred), sk, tab)
  PROVE  "profile" \in DOMAIN deferred' /\ Timely(deferred'.profile, r)
<1>1. Follows(roster, roster')
  BY SameIs
<1> QED
  BY <1>1, SameIs, RetargetIs, LookedIs

LEMMA ReachArrives ==
  ASSUME IInv, Running, UNCHANGED desk,
         "version" \in DOMAIN store', store'.version \in Versions,
         NEW r, Reach(r, store'.version), SameScreen(r, roster'),
         desk.confirmation # None => roster'.pane = r.pane,
         mem' = MemoryAfter(r), Timely(pending', r),
         "profile" \in DOMAIN deferred', Timely(deferred'.profile, r)
  PROVE  Arrives(r)
<1>1. IsView(mem') /\ mem'.bound \in {None, Target(r)} /\ mem'.registered = mem.registered
  BY RunningIs, MemoryAfterIs DEF Screens
<1>2. desk.confirmation # None => roster'.pane = "Confirmation"
  BY RunningIs DEF DeskForm, Reach
<1> QED
  BY <1>1, <1>2 DEF Arrives

LEMMA TabArrives ==
  ASSUME IInv, Running, UNCHANGED <<desk, mem>>, "version" \in DOMAIN store', store'.version = store.version,
         roster' = roster \/ \E tab : roster' = [roster EXCEPT !.tab = tab],
         Timely(pending', roster), NEW sk, NEW tab, deferred' = Looked(Retarget(roster', deferred), sk, tab)
  PROVE  Arrives(roster)
<1>1. SameScreen(roster, roster') /\ roster'.pane = roster.pane
  BY RosterIs DEF SameScreen, RosterFields
<1>2. Follows(roster, roster)
  BY DEF Follows
<1>3. "profile" \in DOMAIN deferred' /\ Timely(deferred'.profile, roster)
  BY <1>1, <1>2, LookedTimely
<1> QED
  BY <1>1, <1>3, StayingArrives

-----------------------------------------------------------------------------
(* Assignments *)

LEMMA RequestAssignmentKeeps ==
  ASSUME IInv, Running, UNCHANGED desk, NEW k, Shelved(k), NEW r, r.p \in Profiles, RequestAssignment(k, r)
  PROVE  IInv'
<1>1. /\ Free /\ UNCHANGED <<pending, left>>
      /\ deferred' = Looked(Retarget(roster', deferred), shelf', roster'.tab)
  BY DEF RequestAssignment
<1>2. CASE Recover(k)
  BY <1>1, <1>2, RecoverKeeps
<1>3. CASE /\ shelf' = Installed(k, r)
           /\ held' = held \cup {"skill"}
           /\ roster' = [roster EXCEPT !.tab = "skills"]
           /\ UNCHANGED <<ended, mem, store>>
  <2>1. Timely(pending', roster)
    BY <1>1 DEF Free, Timely
  <2>2. Arrives(roster)
    BY <1>1, <1>3, <2>1, TabArrives, RunningIs DEF Screens
  <2>3. Shelved(shelf') /\ shelf'.registered = TRUE
    BY <1>3 DEF Installed, Shelved, IsShelf, ShelfSound
  <2>4. ("skill" \in held') = TRUE
    BY <1>3
  <2>5. shelf'.registered = ("skill" \in held')
    BY <2>3, <2>4
  <2> QED
    BY <1>1, <1>3, <2>2, <2>3, <2>5, ShelfStep
<1> QED
  BY <1>2, <1>3 DEF RequestAssignment

LEMMA AssigningKeeps ==
  ASSUME IInv,
         \/ ReviewAssignment
         \/ \E row, kind : ChangeAssigned(row, kind)
  PROVE  IInv'
<1>1. CASE ReviewAssignment
  <2> DEFINE k == [shelf EXCEPT !.from = IF shelf.origin \in Profiles THEN shelf.origin ELSE "skills"]
  <2>1. Running /\ shelf.confirmation = None
    BY <1>1, OnShelfIs DEF ReviewAssignment
  <2>2. Alike(shelf, k)
    BY <2>1, ShelfIs DEF Alike, IsShelf
  <2>3. Shelved(k)
    BY <2>1, <2>2, ShelfIs, AlikeIs
  <2>4. Requested(shelf).p \in Profiles
    BY <1>1, <2>1, ShelfIs DEF ReviewAssignment, Requested, Shelved, ShelfSound
  <2>5. RequestAssignment(k, Requested(shelf)) /\ UNCHANGED desk
    BY <1>1 DEF ReviewAssignment, RequestAssignment, deskVars
  <2> HIDE DEF k
  <2> QED
    BY <2>1, <2>3, <2>4, <2>5, RequestAssignmentKeeps
<1>2. ASSUME NEW row, NEW kind, ChangeAssigned(row, kind)
      PROVE  IInv'
  <2> DEFINE p == roster.detail.p
             k == [shelf EXCEPT !.from = p]
  <2>1. Running /\ roster.detail # None /\ shelf.confirmation = None
    BY <1>2, KeyIsRunning DEF ChangeAssigned, OnAgentSkills, AgentsKey, ProtectedSkills
  <2>2. p \in Profiles
    BY <2>1, RunningIs, DetailIs DEF Screens
  <2>3. Alike(shelf, k)
    BY <2>1, ShelfIs DEF Alike, IsShelf
  <2>4. Shelved(k)
    BY <2>1, <2>3, ShelfIs, AlikeIs
  <2>5. PICK r : r.p = p /\ RequestAssignment(k, r)
    BY <1>2 DEF ChangeAssigned
  <2>6. UNCHANGED desk
    BY <2>5 DEF RequestAssignment, deskVars
  <2> HIDE DEF k, p
  <2> QED
    BY <2>1, <2>2, <2>4, <2>5, <2>6, RequestAssignmentKeeps
<1> QED
  BY <1>1, <1>2

LEMMA AssignToKeeps ==
  ASSUME IInv, NEW p \in Profiles, AssignTo(p)
  PROVE  IInv'
<1>1. Running /\ shelf.confirmation = None
  BY OnShelfIs DEF AssignTo
<1>2. PICK x : Shelve(Presented([shelf EXCEPT !.agent = ServedAs(p), !.assignment = x], "AssignmentReview"))
  BY DEF AssignTo, Fetched
<1> DEFINE k == [shelf EXCEPT !.agent = ServedAs(p), !.assignment = x]
           j == Presented(k, "AssignmentReview")
<1>3. /\ IsShelf(k) /\ k.registered = shelf.registered /\ k.editor = shelf.editor
      /\ k.confirmation = None /\ k.agent = ServedAs(p)
  BY <1>1, ShelfIs DEF IsShelf
<1> HIDE DEF k
<1>4. Alike(k, j)
  BY <1>3, ViewsAre
<1> HIDE DEF j
<1>5. Shelved(j) /\ j.registered = shelf.registered
  BY <1>1, <1>3, <1>4, ShelfIs DEF Alike, ServedAs, Shelved, ShelfSound
<1> QED
  BY <1>1, <1>2, <1>5, ShelveKeeps DEF j, k

LEMMA CloseSkillPanelKeeps ==
  ASSUME IInv, CloseSkillPanel
  PROVE  IInv'
<1>1. Running
  BY KeyIsRunning DEF CloseSkillPanel, AgentsKey
<1>2. SameScreen(roster, roster') /\ roster'.pane = roster.pane
  BY <1>1, RosterIs DEF CloseSkillPanel, SameScreen, RosterFields
<1> QED
  BY <1>1, <1>2, RunningIs, StayingStep DEF CloseSkillPanel, hostVars, deskVars, Screens

LEMMA ViewAssignedKeeps ==
  ASSUME IInv, NEW row, ViewAssigned(row)
  PROVE  IInv'
<1> DEFINE there == [shelf EXCEPT !.origin = roster.detail.p]
           plain == NoContext(there)
           shown == WithSkillVersion(plain, row)
           k == [shown EXCEPT !.pane = "Detail"]
<1>1. Running /\ shelf.confirmation = None
  BY KeyIsRunning DEF ViewAssigned, OnAgentSkills, AgentsKey, ProtectedSkills
<1>2. /\ shelf' = k /\ roster' = [roster EXCEPT !.tab = "skills"]
      /\ deferred' = Looked(deferred, shelf', "skills")
      /\ UNCHANGED <<stopping, ended, left, pending, held, mem, store, desk>>
  BY DEF ViewAssigned, KeepRunning, deskVars
<1>3. Alike(shelf, there)
  BY <1>1, ShelfIs, ShelfFields
<1> HIDE DEF there
<1>4. Alike(there, plain)
  BY <1>3, ViewsAre DEF Alike
<1> HIDE DEF plain
<1>5. Alike(plain, shown)
  BY <1>4, ViewsAre DEF Alike
<1> HIDE DEF shown
<1>6. Alike(shown, k)
  BY <1>5 DEF Alike, IsShelf
<1> HIDE DEF k
<1>7. Shelved(k) /\ k.registered = shelf.registered
  BY <1>1, <1>3, <1>4, <1>5, <1>6, ShelfIs, AlikeChain, AlikeIs
<1>8. "profile" \in DOMAIN deferred' /\ deferred'.profile = deferred.profile
  BY <1>1, <1>2, ShelfIs, LookedIs
<1>9. Arrives(roster)
  BY <1>1, <1>2, <1>8, RunningIs, TabIs, StayingArrives DEF Screens
<1> QED
  BY <1>1, <1>2, <1>7, <1>9, RunningIs, ShelfStep DEF Agree

-----------------------------------------------------------------------------
(* Reviews of skills *)

LEMMA ReviewSkillKeeps ==
  ASSUME IInv, ReviewSkill
  PROVE  IInv'
<1> DEFINE e == K!AtReview(shelf.editor)
           asked == [shelf EXCEPT !.editor = K!PreviewAsked(e), !.page = "review"]
           review == [op |-> e.mode, s |-> e.of, expected |-> e.expected, draft |-> e.draft]
           previewed == K!Previewed(K!PreviewAsked(e), review)
<1>1. /\ Running /\ shelf.confirmation = None /\ shelf.editor # None /\ SkillFaithful(shelf.editor)
      /\ IsShelf(shelf) /\ Shelved(shelf)
  BY OnShelfIs, ShelfIs DEF ReviewSkill
<1>2. /\ SkillFaithful(e) /\ SkillFaithful(K!PreviewAsked(e))
      /\ K!PreviewAsked(e).draft = e.draft
  BY <1>1, SkillEdits
<1>3. SkillFaithful(previewed)
  BY <1>2, PreviewedKeeps
<1> HIDE DEF e, previewed
<1>4. /\ IsShelf(asked) /\ asked.editor = K!PreviewAsked(e) /\ asked.confirmation = None
      /\ asked.agent = shelf.agent /\ asked.registered = shelf.registered
  BY <1>1 DEF IsShelf
<1>5. Shelved(asked)
  BY <1>1, <1>2, <1>4 DEF Shelved, ShelfSound
<1> HIDE DEF asked
<1>6. CASE Shelve([shelf EXCEPT !.page = "review"])
  BY <1>1, <1>6, ShelfFields, BrowseStep
<1>7. ASSUME K!MayExecute(e),
             Shelve([shelf EXCEPT !.editor = e, !.page = "review", !.from = "skills",
                        !.confirmation = [command |-> K!CommandOf(e), by |-> "editor"],
                        !.pane = "Confirmation"])
      PROVE  IInv'
  <2> DEFINE k == [shelf EXCEPT !.editor = e, !.page = "review", !.from = "skills",
                        !.confirmation = [command |-> K!CommandOf(e), by |-> "editor"],
                        !.pane = "Confirmation"]
  <2>1. /\ IsShelf(k) /\ k.editor = e /\ k.pane = "Confirmation" /\ k.agent = shelf.agent
        /\ k.registered = shelf.registered
        /\ k.confirmation = [command |-> K!CommandOf(e), by |-> "editor"]
    BY <1>1 DEF IsShelf
  <2>2. /\ K!CommandOf(e).review = e.review /\ e.review # None /\ K!CommandOf(e).op = e.mode
    BY <1>7 DEF K!CommandOf, K!MayExecute
  <2>3. /\ k.confirmation.command.review.draft = e.draft
        /\ k.confirmation.command.op # "assign"
    BY <1>2, <2>1, <2>2 DEF SkillFaithful
  <2>4. Shelve(k)
    BY <1>7
  <2> HIDE DEF k
  <2>5. Shelved(k)
    BY <1>1, <1>2, <2>1, <2>3 DEF Shelved, ShelfSound
  <2> QED
    BY <1>1, <2>1, <2>4, <2>5, ShelveKeeps
<1>8. ASSUME Free, UNCHANGED <<pending, stopping, left, desk>>,
             deferred' = Looked(Retarget(roster', deferred), shelf', roster'.tab),
             \/ /\ shelf' = [asked EXCEPT !.editor = K!Previewed(@, review), !.registered = TRUE]
                /\ held' = held \cup {"skill"}
                /\ UNCHANGED <<ended, roster, mem, store>>
             \/ Recover(asked)
      PROVE  IInv'
  <2>1. CASE Recover(asked)
    BY <1>1, <1>5, <1>8, <2>1, RecoverKeeps
  <2>2. CASE /\ shelf' = [asked EXCEPT !.editor = K!Previewed(@, review), !.registered = TRUE]
             /\ held' = held \cup {"skill"}
             /\ UNCHANGED <<ended, roster, mem, store>>
    <3>1. shelf' = [asked EXCEPT !.editor = previewed, !.registered = TRUE]
      BY <1>4, <2>2 DEF previewed
    <3>2. /\ IsShelf(shelf') /\ shelf'.editor = previewed /\ shelf'.registered = TRUE
          /\ shelf'.confirmation = None /\ shelf'.agent = shelf.agent
      BY <1>4, <3>1 DEF IsShelf
    <3>3. Shelved(shelf')
      BY <1>1, <1>3, <3>2 DEF Shelved, ShelfSound
    <3>4. ("skill" \in held') = TRUE
      BY <2>2
    <3>5. shelf'.registered = ("skill" \in held')
      BY <3>2, <3>4
    <3>6. Timely(pending', roster)
      BY <1>8 DEF Free, Timely
    <3>7. Arrives(roster)
      BY <1>1, <1>8, <2>2, <3>6, TabArrives, RunningIs DEF Screens
    <3> QED
      BY <1>1, <1>8, <2>2, <3>3, <3>5, <3>7, ShelfStep
  <2> QED
    BY <1>8, <2>1, <2>2
<1> QED
  BY <1>6, <1>7, <1>8 DEF ReviewSkill, e, asked, deskVars

(* What waits for a yes on this tab *)
LEMMA SkillAskedIs ==
  ASSUME IInv, SkillAsked
  PROVE  /\ Running /\ shelf.confirmation # None /\ IsShelf(shelf) /\ Shelved(shelf)
BY OnShelfIs, ShelfIs DEF SkillAsked, Asking

LEMMA DeclineSkillKeeps ==
  ASSUME IInv, DeclineSkill
  PROVE  IInv'
<1> DEFINE bare == [shelf EXCEPT !.confirmation = None]
<1>1. /\ Running /\ Free /\ IsShelf(shelf) /\ Shelved(shelf)
      /\ deferred' = Looked(Retarget(roster', deferred), shelf', roster'.tab)
      /\ UNCHANGED <<pending, left, store, desk>>
  BY SkillAskedIs DEF DeclineSkill, deskVars
<1>2. IsShelf(bare) /\ bare.editor = shelf.editor /\ bare.confirmation = None /\ bare.agent = shelf.agent
  BY <1>1 DEF IsShelf
<1>3. PICK k : /\ \/ k = [bare EXCEPT !.pane = "Editor", !.page = "review",
                                       !.editor = IF @ = None THEN None ELSE K!NoReview(@)]
                  \/ k = [bare EXCEPT !.pane = "Detail", !.origin = None]
                  \/ k = [bare EXCEPT !.pane = "AssignmentReview"]
               /\ Cancelled(k)
  BY DEF DeclineSkill
<1> HIDE DEF bare
<1>4. /\ IsShelf(k) /\ k.confirmation = None /\ k.agent = shelf.agent
      /\ k.editor = shelf.editor \/ (shelf.editor # None /\ k.editor = K!NoReview(shelf.editor))
  <2>1. CASE k = [bare EXCEPT !.pane = "Editor", !.page = "review",
                              !.editor = IF @ = None THEN None ELSE K!NoReview(@)]
    <3> DEFINE e == IF shelf.editor = None THEN None ELSE K!NoReview(shelf.editor)
    <3>1. k = [bare EXCEPT !.pane = "Editor", !.page = "review", !.editor = e]
      BY <1>2, <2>1
    <3>2. e = shelf.editor \/ (shelf.editor # None /\ e = K!NoReview(shelf.editor))
      OBVIOUS
    <3> HIDE DEF e
    <3> QED
      BY <1>2, <3>1, <3>2 DEF IsShelf
  <2>2. CASE k = [bare EXCEPT !.pane = "Detail", !.origin = None]
    BY <1>2, <2>2 DEF IsShelf
  <2>3. CASE k = [bare EXCEPT !.pane = "AssignmentReview"]
    BY <1>2, <2>3 DEF IsShelf
  <2> QED
    BY <1>3, <2>1, <2>2, <2>3
<1>5. Shelved(k)
  BY <1>1, <1>4, SkillEdits DEF Shelved, ShelfSound
<1>6. \E r : Arrives(r)
  <2>1. CASE Return(shelf)
    BY <1>1, <2>1, ReturnIs
  <2>2. CASE UNCHANGED <<roster, mem>>
    <3>1. Timely(pending', roster)
      BY <1>1 DEF Free, Timely
    <3> QED
      BY <1>1, <2>2, <3>1, TabArrives, RunningIs DEF Screens
  <2> QED
    BY <2>1, <2>2 DEF DeclineSkill
<1> QED
  BY <1>1, <1>3, <1>5, <1>6, CancelledIs, ShelfStep

LEMMA SpentIs ==
  ASSUME NEW k, Shelved(k)
  PROVE  /\ \A s : Shelved([Spent(k) EXCEPT !.made = s]) /\ [Spent(k) EXCEPT !.made = s].registered = FALSE
         /\ \A p \in Profiles : \A v : LET j == [Spent(k) EXCEPT !.agent = [p |-> p, v |-> v]]
                                   IN Shelved(j) /\ j.registered = FALSE
<1> DEFINE j == Spent(k)
<1>1. /\ IsShelf(j) /\ j.registered = FALSE /\ j.editor = None /\ j.confirmation = None /\ j.agent = k.agent
  BY DEF Shelved, IsShelf, Spent
<1> HIDE DEF j
<1>2. \A s : Shelved([j EXCEPT !.made = s]) /\ [j EXCEPT !.made = s].registered = FALSE
  BY <1>1 DEF Shelved, IsShelf, ShelfSound
<1>3. \A p \in Profiles : \A v : LET i == [j EXCEPT !.agent = [p |-> p, v |-> v]]
                             IN Shelved(i) /\ i.registered = FALSE
  BY <1>1 DEF Shelved, IsShelf, ShelfSound
<1> QED
  BY <1>2, <1>3 DEF j

(* An agent has a new version: the list and its details are read again. *)
LEMMA AssignmentDoneIs ==
  ASSUME IInv, SkillAsked, Free, UNCHANGED <<desk, pending>>,
         shelf.confirmation.command.op = "assign", AssignmentDone(shelf.confirmation.command),
         deferred' = Looked(Retarget(roster', deferred), shelf', roster'.tab)
  PROVE  (\E r : Arrives(r)) /\ Shelved(shelf') /\ shelf'.registered = FALSE
<1> DEFINE p == shelf.confirmation.command.request.p
           versions == [store.version EXCEPT ![p] = @ + 1]
           listed == Relisted(roster, versions)
           known == Known(listed, p, versions)
<1>1. Running /\ shelf.confirmation # None /\ Shelved(shelf)
  BY SkillAskedIs
<1>2. p \in Profiles
  BY <1>1 DEF Shelved, ShelfSound
<1>3. PICK v : shelf' = [Spent(shelf) EXCEPT !.agent = [p |-> p, v |-> v]]
  BY DEF AssignmentDone
<1>4. /\ "version" \in DOMAIN store' /\ store'.version = versions
      /\ roster' = [known EXCEPT !.tab = "skills"] /\ mem' = MemoryAfter(known)
  <2>1. "version" \in DOMAIN store
    BY <1>1, RunningIs DEF Screens
  <2> QED
    BY <2>1 DEF AssignmentDone
<1> HIDE DEF p
<1>5. versions \in Versions /\ \A q \in Profiles : store.version[q] <= versions[q]
  BY <1>1, <1>2, NextVersion, RunningIs DEF Screens
<1> HIDE DEF versions
<1>6. Reach(listed, versions) /\ listed.sel = roster.sel
  BY <1>1, <1>5, RelistedReach, RunningIs DEF Screens
<1> HIDE DEF listed
<1>7. Reach(known, versions)
  BY <1>1, <1>2, <1>5, <1>6, KnownReach, RunningIs DEF Screens
<1> HIDE DEF known
<1>8. SameScreen(known, roster') /\ roster'.pane = known.pane
  BY <1>4, <1>7 DEF SameScreen, Reach, Screen, RosterFields
<1>9. "profile" \in DOMAIN deferred' /\ Timely(deferred'.profile, known)
  BY <1>1, <1>7, <1>8, LookedTimely DEF Reach
<1>10. Timely(pending', known)
  BY DEF Free, Timely
<1>11. Arrives(known)
  BY <1>1, <1>4, <1>5, <1>7, <1>8, <1>9, <1>10, ReachArrives
<1> QED
  BY <1>1, <1>2, <1>3, <1>11, SpentIs

LEMMA ConfirmSkillKeeps ==
  ASSUME IInv, ConfirmSkill
  PROVE  IInv'
<1> DEFINE c == shelf.confirmation.command
<1>1. /\ Running /\ Free /\ IsShelf(shelf) /\ Shelved(shelf)
      /\ deferred' = Looked(Retarget(roster', deferred), shelf', roster'.tab)
      /\ UNCHANGED <<pending, left, desk>>
  BY SkillAskedIs DEF ConfirmSkill, deskVars
<1>2. "version" \in DOMAIN store
  BY <1>1, RunningIs DEF Screens
<1>3. Timely(pending', roster)
  BY <1>1 DEF Free, Timely
<1>4. CASE Recover(shelf)
  BY <1>1, <1>4, RecoverKeeps
<1>5. CASE UNCHANGED <<shelf, held, ended, roster, mem, store>>
  <2>1. Arrives(roster)
    BY <1>1, <1>2, <1>3, <1>5, TabArrives
  <2> QED
    BY <1>1, <1>5, <2>1, RunningIs, ShelfStep DEF Agree
<1>6. ASSUME held' = held \ {"skill"}, UNCHANGED ended,
             Shelved(shelf'), shelf'.registered = FALSE, \E r : Arrives(r)
      PROVE  IInv'
  <2>1. ("skill" \in held') = FALSE
    BY <1>6
  <2>2. shelf'.registered = ("skill" \in held')
    BY <1>6, <2>1
  <2> QED
    BY <1>1, <1>6, <2>2, ShelfStep
<1>7. ASSUME c.op = "assign", AssignmentDone(c), held' = held \ {"skill"}, UNCHANGED ended
      PROVE  IInv'
  <2>1. (\E r : Arrives(r)) /\ Shelved(shelf') /\ shelf'.registered = FALSE
    BY <1>1, <1>7, AssignmentDoneIs DEF ConfirmSkill
  <2> QED
    BY <1>6, <1>7, <2>1
<1>8. ASSUME NEW s, store' = [store EXCEPT !.skills[s] = @ + 1], shelf' = [Spent(shelf) EXCEPT !.made = s],
             UNCHANGED <<roster, mem, ended>>, held' = held \ {"skill"}
      PROVE  IInv'
  <2>1. "version" \in DOMAIN store' /\ store'.version = store.version
    BY <1>2, <1>8
  <2>2. Arrives(roster)
    BY <1>1, <1>3, <1>8, <2>1, TabArrives
  <2>3. Shelved(shelf') /\ shelf'.registered = FALSE
    BY <1>1, <1>8, SpentIs
  <2> QED
    BY <1>6, <1>8, <2>2, <2>3
<1> QED
  BY <1>4, <1>5, <1>7, <1>8 DEF ConfirmSkill

LEMMA SkillKeysKeep ==
  ASSUME IInv, SkillKeys
  PROVE  IInv'
BY BrowsingKeeps, UnwindShelfKeeps, PickingSkillsKeeps, NewSkillKeeps, WritingKeeps,
   LeaveSkillPageKeeps, DiscardSkillKeeps, ReviewSkillKeeps, AssigningKeeps, AssignToKeeps,
   CloseSkillPanelKeeps, ViewAssignedKeeps, DeclineSkillKeeps, ConfirmSkillKeeps
   DEF SkillKeys, ShelfBrowsing, ShelfVersions, ShelfForms, ShelfAssignments, ShelfConfirmations

-----------------------------------------------------------------------------
(* Refreshes *)

LEMMA ReachSame ==
  ASSUME NEW s, NEW versions, Reach(s, versions), NEW r, SameScreen(s, r), r.pane = s.pane
  PROVE  Reach(r, versions) /\ MemoryAfter(r) = MemoryAfter(s)
BY DEF Reach, SameScreen, Screen, Follows, Spares, SparesSelection, Target, MemoryAfter

LEMMA RelistedSame ==
  ASSUME NEW s, NEW r, DOMAIN s = RosterFields, SameScreen(s, r), r.pane = s.pane, NEW versions
  PROVE  /\ SameScreen(Relisted(s, versions), Relisted(r, versions))
         /\ Relisted(r, versions).pane = Relisted(s, versions).pane
<1>1. CASE ~KeepsWork(versions)
  BY <1>1 DEF Relisted
<1>2. CASE KeepsWork(versions)
  <2> DEFINE ls == [s EXCEPT !.rows = versions]
             lr == [r EXCEPT !.rows = versions]
  <2>1. SameScreen(ls, lr) /\ lr.pane = ls.pane /\ DOMAIN ls = RosterFields
    BY DEF SameScreen, RosterFields
  <2> HIDE DEF ls, lr
  <2>2. MatchingDetail(ls) <=> MatchingDetail(lr)
    BY <2>1 DEF SameScreen, MatchingDetail, Target
  <2>3. /\ SameScreen([ls EXCEPT !.detail = None, !.history = None, !.version = None],
                      [lr EXCEPT !.detail = None, !.history = None, !.version = None])
        /\ [lr EXCEPT !.detail = None, !.history = None, !.version = None].pane
             = [ls EXCEPT !.detail = None, !.history = None, !.version = None].pane
    BY <2>1 DEF SameScreen, RosterFields
  <2> QED
    BY <1>2, <2>1, <2>2, <2>3 DEF Relisted, ls, lr
<1> QED
  BY <1>1, <1>2

LEMMA RefreshIs ==
  ASSUME IInv, Running, UNCHANGED <<desk, store>>, pending' = None,
         NEW nav, NEW k, NEW r, SameScreen(roster, r), r.pane = roster.pane,
         NEW queue, "profile" \in DOMAIN queue, Timely(queue.profile, roster),
         Refresh(nav, k, r, queue)
  PROVE  (\E s : Arrives(s)) /\ shelf' = WithSkills(k, store.skills)
<1> DEFINE listed == IF nav = "profiles" THEN Relisted(r, store.version) ELSE r
<1>1. /\ "version" \in DOMAIN store /\ store.version \in Versions /\ Screen(roster, store.version)
      /\ mem.bound \in {None, Target(roster)}
  BY RunningIs DEF Screens
<1>2. Reach(listed, store.version)
  <2>1. CASE nav = "profiles"
    <3>1. \A p \in Profiles : store.version[p] <= store.version[p]
      BY <1>1 DEF Versions
    <3>2. Reach(Relisted(roster, store.version), store.version)
      BY <1>1, <3>1, RelistedReach
    <3>3. /\ SameScreen(Relisted(roster, store.version), Relisted(r, store.version))
          /\ Relisted(r, store.version).pane = Relisted(roster, store.version).pane
      BY <1>1, RelistedSame DEF Screen
    <3> QED
      BY <2>1, <3>2, <3>3, ReachSame
  <2>2. CASE nav # "profiles"
    BY <1>1, <2>2, StaysInReach, ReachSame
  <2> QED
    BY <2>1, <2>2
<1>3. /\ roster' = listed /\ mem' = MemoryAfter(listed) /\ shelf' = WithSkills(k, store.skills)
      /\ \/ /\ nav = "skills" /\ listed = r
            /\ \E sk : deferred' = QueueMissing(queue, sk, r.tab)
         \/ deferred' = Retarget(listed, queue)
         \/ deferred' = [queue EXCEPT !.profile = ReadRequest(listed, "detail")]
  BY DEF Refresh
<1> HIDE DEF listed
<1>4. "profile" \in DOMAIN deferred' /\ Timely(deferred'.profile, listed)
  <2>1. CASE listed = r /\ \E sk : deferred' = QueueMissing(queue, sk, r.tab)
    BY <2>1, SameIs, LookedIs
  <2>2. CASE deferred' = Retarget(listed, queue)
    BY <1>2, <2>2, RetargetedTimely DEF Retarget, Reach
  <2>3. CASE deferred' = [queue EXCEPT !.profile = ReadRequest(listed, "detail")]
    BY <2>3, ReadTimely
  <2> QED
    BY <1>3, <2>1, <2>2, <2>3
<1>5. SameScreen(listed, roster')
  BY <1>2, <1>3 DEF SameScreen, Reach, Screen
<1>6. Timely(pending', listed)
  BY DEF Timely
<1>7. Arrives(listed)
  BY <1>1, <1>2, <1>3, <1>4, <1>5, <1>6, ReachArrives
<1> QED
  BY <1>3, <1>7

LEMMA RefreshKeeps ==
  ASSUME IInv, Running, UNCHANGED <<desk, store, held, left>>, pending' = None,
         NEW nav, NEW k, Shelved(k), k.registered = shelf.registered,
         NEW r, SameScreen(roster, r), r.pane = roster.pane,
         NEW queue, "profile" \in DOMAIN queue, Timely(queue.profile, roster),
         Refresh(nav, k, r, queue)
  PROVE  IInv'
<1>1. (\E s : Arrives(s)) /\ shelf' = WithSkills(k, store.skills)
  BY RefreshIs
<1>2. Alike(k, shelf') /\ shelf'.pane = k.pane
  BY <1>1, ViewsAre DEF Shelved
<1>3. Shelved(shelf') /\ shelf'.registered = shelf.registered
  BY <1>2, AlikeIs
<1> QED
  BY <1>1, <1>3, RunningIs, ShelfStep DEF Agree

LEMMA MovedTimely ==
  ASSUME NEW r, NEW x, Timely(x, r)
  PROVE  Timely(Moved(x), r)
BY DEF Timely, Moved

LEMMA CockpitKeysKeep ==
  ASSUME IInv, RunDeferredRefresh \/ CockpitKeys
  PROVE  IInv'
<1>1. CASE RunDeferredRefresh
  <2> DEFINE queue == [deferred EXCEPT !.nav = "none"]
  <2>1. Running /\ pending' = None
    BY <1>1 DEF RunDeferredRefresh, Free
  <2>2. "profile" \in DOMAIN queue /\ Timely(queue.profile, roster)
    BY <2>1, RunningIs DEF Screens
  <2>3. Refresh(deferred.nav, shelf, roster, queue) /\ UNCHANGED <<desk, store, held, left>>
    BY <1>1 DEF RunDeferredRefresh, KeepRunning, deskVars
  <2> HIDE DEF queue
  <2> QED
    BY <2>1, <2>2, <2>3, ShelfIs, MovesAreQuiet, RefreshKeeps
<1>2. ASSUME NEW tab, SwitchTab(tab)
      PROVE  IInv'
  <2> DEFINE nav == IF shelf.loaded THEN "none" ELSE
                    CASE tab = "agents" -> "profiles" [] tab = "skills" -> "skills" [] OTHER -> "none"
             k == IF tab # "skills" THEN shelf
                  ELSE [shelf EXCEPT !.origin = IF @ \in Profiles THEN @ ELSE Cockpit,
                                     !.focus = IF shelf.pane = "List" THEN "List" ELSE @]
             r == [roster EXCEPT !.tab = tab]
  <2>1. Running /\ pending' = Moved(pending) /\ UNCHANGED <<desk, store, held, left>>
    BY <1>2, KeyIsRunning DEF SwitchTab, KeepRunning, deskVars
  <2>2. Alike(shelf, k) /\ k.pane = shelf.pane
    BY <2>1, ShelfIs DEF Alike, IsShelf
  <2>3. Shelved(k) /\ k.registered = shelf.registered
    BY <2>1, <2>2, ShelfIs, AlikeIs
  <2>4. \/ Free /\ Refresh(nav, k, r, deferred)
        \/ /\ shelf' = k /\ roster' = r /\ UNCHANGED mem
           /\ deferred' = Looked(IF nav = "none" THEN deferred ELSE Wait(nav), k, tab)
    BY <1>2 DEF SwitchTab
  <2> HIDE DEF k, nav
  <2>5. SameScreen(roster, r) /\ r.pane = roster.pane
    BY <2>1, TabIs
  <2>6. CASE Free /\ Refresh(nav, k, r, deferred)
    <3>1. pending' = None
      BY <2>1, <2>6 DEF Free, Moved
    <3> QED
      BY <2>1, <2>3, <2>5, <2>6, <3>1, RunningIs, RefreshKeeps DEF Screens
  <2>7. CASE /\ shelf' = k /\ roster' = r /\ UNCHANGED mem
             /\ deferred' = Looked(IF nav = "none" THEN deferred ELSE Wait(nav), k, tab)
    <3>1. /\ "profile" \in DOMAIN Wait(nav) /\ Wait(nav).profile = deferred.profile
      BY <2>1, ShelfIs DEF Wait
    <3>2. "profile" \in DOMAIN deferred' /\ deferred'.profile = deferred.profile
      BY <2>1, <2>7, <3>1, ShelfIs, LookedIs
    <3>3. Timely(pending', roster)
      BY <2>1, RunningIs, MovedTimely DEF Screens
    <3>4. Arrives(roster)
      BY <2>1, <2>5, <2>7, <3>2, <3>3, RunningIs, StayingArrives DEF Screens
    <3> QED
      BY <2>1, <2>3, <2>7, <3>4, RunningIs, ShelfStep DEF Agree
  <2> QED
    BY <2>4, <2>6, <2>7
<1>3. CASE ReloadLibrary
  <2>1. Running /\ UNCHANGED <<pending, desk, store, held, left>>
    BY <1>3, KeyIsRunning DEF ReloadLibrary, AgentsKey, KeepRunning, deskVars
  <2>2. CASE Free /\ Refresh("library", shelf, roster, deferred)
    <3>1. pending' = None
      BY <2>1, <2>2 DEF Free
    <3> QED
      BY <2>1, <2>2, <3>1, ShelfIs, MovesAreQuiet, RunningIs, RefreshKeeps DEF Screens
  <2>3. CASE deferred' = Wait("library") /\ UNCHANGED <<shelf, roster, mem>>
    <3>1. "profile" \in DOMAIN deferred' /\ deferred'.profile = deferred.profile
      BY <2>1, <2>3, ShelfIs DEF Wait
    <3> QED
      BY <2>1, <2>3, <3>1, ShelfIs, ShelveStep DEF rosterVars, deskVars
  <2> QED
    BY <1>3, <2>2, <2>3 DEF ReloadLibrary
<1>4. CASE ShowMade
  <2>1. Running /\ UNCHANGED <<deferred, held, rosterVars, deskVars, shelf, left>>
        /\ pending' = Request("skills", None, TRUE)
    BY <1>4, OnShelfIs DEF ShowMade, KeepRunning
  <2>2. Timely(pending', roster)
    BY <2>1 DEF Timely, Request
  <2>3. Arrives(roster)
    BY <2>1, <2>2, RunningIs, MovesAreQuiet, StayingArrives DEF rosterVars, Screens
  <2> QED
    BY <2>1, <2>3, ShelfIs, RunningIs, ShelfStep DEF deskVars, Agree
<1> QED
  BY <1>1, <1>2, <1>3, <1>4 DEF CockpitKeys

-----------------------------------------------------------------------------
(* The command line *)

LEMMA TypeCommandKeeps ==
  ASSUME IInv, NEW what \in {"agents", "agent", "skills", "skill"}, NEW key,
         what = "agent" => key \in Profiles, TypeCommand(what, key)
  PROVE  IInv'
<1>1. Running /\ UNCHANGED <<deferred, held, mem, store, desk, left>> /\ pending' = Request(what, key, TRUE)
  BY KeyIsRunning DEF TypeCommand, Line, KeepRunning, deskVars
<1>2. Timely(pending', roster)
  BY <1>1 DEF Timely, Request
<1>3. SameScreen(roster, roster') /\ roster'.pane = roster.pane
  <2>1. roster' = roster \/ roster' = [roster EXCEPT !.focus = "Workspace"]
    BY DEF TypeCommand
  <2> QED
    BY <1>1, <2>1, MovesAreQuiet
<1>4. Arrives(roster)
  BY <1>1, <1>2, <1>3, RunningIs, StayingArrives DEF Screens
<1>5. Alike(shelf, shelf') /\ shelf'.pane = shelf.pane
  <2>1. shelf' = shelf \/ shelf' = [shelf EXCEPT !.focus = "Workspace"]
    BY DEF TypeCommand
  <2> QED
    BY <1>1, <2>1, ShelfIs DEF Alike, IsShelf
<1>6. Shelved(shelf') /\ shelf'.registered = shelf.registered
  BY <1>1, <1>5, ShelfIs, AlikeIs
<1> QED
  BY <1>1, <1>4, <1>6, RunningIs, ShelfStep DEF Agree

LEMMA CockpitLineKeeps ==
  ASSUME IInv, CockpitLine
  PROVE  IInv'
BY TypeCommandKeeps DEF CockpitLine

(* A workflow begins only where no other work is protected. *)
LEMMA WorkflowIs ==
  ASSUME IInv, Workflow
  PROVE  /\ Running /\ Alike(shelf, StartedAt)
         /\ shelf.editor = None /\ shelf.confirmation = None
<1>1. Running /\ shelf.editor = None /\ shelf.confirmation = None
  BY KeyIsRunning DEF Workflow, Line, ProtectedSkills
<1> DEFINE k == NoContext(shelf)
<1>2. Alike(shelf, k)
  BY <1>1, ShelfIs, ViewsAre
<1> HIDE DEF k
<1>3. Alike(k, StartedAt)
  BY <1>2 DEF Alike, IsShelf, StartedAt, k
<1> QED
  BY <1>1, <1>2, <1>3, AlikeChain

LEMMA GoToShelfKeeps ==
  ASSUME IInv, Running, NEW k, Shelved(k), k.registered = shelf.registered, GoToShelf(k)
  PROVE  IInv'
<1>1. /\ shelf' = k /\ roster' = [roster EXCEPT !.tab = "skills"]
      /\ deferred' = Looked(deferred, k, "skills")
      /\ UNCHANGED <<stopping, ended, left, pending, held, mem, store, desk>>
  BY DEF GoToShelf, KeepRunning, deskVars
<1>2. "profile" \in DOMAIN deferred' /\ deferred'.profile = deferred.profile
  BY <1>1, ShelfIs, LookedIs
<1>3. Arrives(roster)
  BY <1>1, <1>2, RunningIs, TabIs, StayingArrives DEF Screens
<1> QED
  BY <1>1, <1>3, RunningIs, ShelfStep DEF Agree

LEMMA WorkflowsKeep ==
  ASSUME IInv, CockpitWorkflows
  PROVE  IInv'
<1> DEFINE k == StartedAt
<1>1. Workflow
  BY DEF CockpitWorkflows, TypeAdd, TypeAssign, TypeUnassign
<1>2. Running /\ IsShelf(k) /\ k.editor = None /\ k.confirmation = None /\ k.registered = shelf.registered
      /\ Alike(shelf, k)
  BY <1>1, WorkflowIs DEF Alike
<1>3. k.agent # None => k.agent.p \in Profiles
  BY <1>2, ShelfIs DEF Alike, Shelved, ShelfSound
<1>4. CASE TypeAdd
  <2>1. GoToShelf(WithForm(k, K!ForCreate(FALSE)))
    BY <1>4 DEF TypeAdd
  <2> HIDE DEF k
  <2>2. Shelved(WithForm(k, K!ForCreate(FALSE))) /\ WithForm(k, K!ForCreate(FALSE)).registered = shelf.registered
    BY <1>2, <1>3, NewSkillForms, FormShelved
  <2> QED
    BY <1>2, <2>1, <2>2, GoToShelfKeeps
<1>5. ASSUME NEW s \in Skills, NEW p \in Profiles, TypeAssign(s, p)
      PROVE  IInv'
  <2> DEFINE target == Ref(s, store.skills[s])
             shown == WithSkill(k, target)
  <2>1. \/ \E x : GoToShelf([shown EXCEPT !.agent = ServedAs(p), !.pane = "AssignmentReview", !.assignment = x])
        \/ GoToShelf([k EXCEPT !.pane = "List"])
    BY <1>5 DEF TypeAssign
  <2> HIDE DEF k, target
  <2>2. Alike(k, shown)
    BY <1>2, ViewsAre
  <2> HIDE DEF shown
  <2>3. ASSUME NEW x, GoToShelf([shown EXCEPT !.agent = ServedAs(p), !.pane = "AssignmentReview", !.assignment = x])
        PROVE  IInv'
    <3>1. ServedAs(p).p \in Profiles
      BY DEF ServedAs
    <3>2. /\ Shelved([shown EXCEPT !.agent = ServedAs(p), !.pane = "AssignmentReview", !.assignment = x])
          /\ [shown EXCEPT !.agent = ServedAs(p), !.pane = "AssignmentReview", !.assignment = x].registered
               = shelf.registered
      BY <1>2, <2>2, <3>1 DEF Alike, Shelved, IsShelf, ShelfSound
    <3> QED
      BY <1>2, <2>3, <3>2, GoToShelfKeeps
  <2>4. CASE GoToShelf([k EXCEPT !.pane = "List"])
    <3>1. Shelved([k EXCEPT !.pane = "List"]) /\ [k EXCEPT !.pane = "List"].registered = shelf.registered
      BY <1>2, <1>3 DEF Shelved, IsShelf, ShelfSound
    <3> QED
      BY <1>2, <2>4, <3>1, GoToShelfKeeps
  <2> QED
    BY <2>1, <2>3, <2>4
<1>6. ASSUME NEW s \in Skills, NEW p \in Profiles, TypeUnassign(s, p)
      PROVE  IInv'
  <2> DEFINE target == Ref(s, store.skills[s])
             pinned == Ref(s, Pinned(p, s))
             shown == WithSkill(k, target)
             old == WithSkillVersion(shown, pinned)
  <2>1. \/ \E x : GoToShelf([old EXCEPT !.agent = ServedAs(p), !.pane = "AssignmentReview", !.assignment = x])
        \/ GoToShelf([shown EXCEPT !.agent = ServedAs(p)])
    BY <1>6 DEF TypeUnassign
  <2> HIDE DEF k, target, pinned
  <2>2. Alike(k, shown)
    BY <1>2, ViewsAre
  <2> HIDE DEF shown
  <2>3. Alike(shown, old)
    BY <2>2, ViewsAre DEF Alike
  <2> HIDE DEF old
  <2>4. ServedAs(p).p \in Profiles
    BY DEF ServedAs
  <2>5. ASSUME NEW x, GoToShelf([old EXCEPT !.agent = ServedAs(p), !.pane = "AssignmentReview", !.assignment = x])
        PROVE  IInv'
    <3>1. /\ Shelved([old EXCEPT !.agent = ServedAs(p), !.pane = "AssignmentReview", !.assignment = x])
          /\ [old EXCEPT !.agent = ServedAs(p), !.pane = "AssignmentReview", !.assignment = x].registered
               = shelf.registered
      BY <1>2, <2>2, <2>3, <2>4 DEF Alike, Shelved, IsShelf, ShelfSound
    <3> QED
      BY <1>2, <2>5, <3>1, GoToShelfKeeps
  <2>6. CASE GoToShelf([shown EXCEPT !.agent = ServedAs(p)])
    <3>1. /\ Shelved([shown EXCEPT !.agent = ServedAs(p)])
          /\ [shown EXCEPT !.agent = ServedAs(p)].registered = shelf.registered
      BY <1>2, <2>2, <2>4 DEF Alike, Shelved, IsShelf, ShelfSound
    <3> QED
      BY <1>2, <2>6, <3>1, GoToShelfKeeps
  <2> QED
    BY <2>1, <2>5, <2>6
<1> QED
  BY <1>4, <1>5, <1>6 DEF CockpitWorkflows

-----------------------------------------------------------------------------
(* What a command shows *)

LEMMA AnsweredStep ==
  ASSUME IInv, Running, UNCHANGED <<desk, held, left>>, NEW r, Arrives(r),
         Alike(shelf, shelf'), shelf.confirmation = None \/ shelf'.pane = shelf.pane
  PROVE  IInv'
<1>1. Shelved(shelf') /\ shelf'.registered = shelf.registered
  BY ShelfIs, AlikeIs
<1> QED
  BY <1>1, RunningIs, ShelfStep DEF Agree

LEMMA RetargetTimely ==
  ASSUME IInv, Running, NEW r, Follows(roster, r), SameScreen(r, roster'),
         deferred' = Retarget(roster', deferred)
  PROVE  "profile" \in DOMAIN deferred' /\ Timely(deferred'.profile, r)
<1>1. Follows(roster, roster')
  BY SameIs
<1> QED
  BY <1>1, SameIs, RetargetIs

LEMMA ShowAgentsKeeps ==
  ASSUME IInv, Running, UNCHANGED <<desk, store, held, left>>, NEW presents, ShowAgents(presents),
         deferred' = Retarget(roster', deferred)
  PROVE  IInv'
<1> DEFINE listed == Relisted(roster, store.version)
<1>1. /\ "version" \in DOMAIN store /\ store.version \in Versions /\ Screen(roster, store.version)
      /\ mem.bound \in {None, Target(roster)}
  BY RunningIs DEF Screens
<1>2. Reach(listed, store.version)
  <2>1. \A p \in Profiles : store.version[p] <= store.version[p]
    BY <1>1 DEF Versions
  <2> QED
    BY <1>1, <2>1, RelistedReach
<1>3. /\ \/ roster' = listed
         \/ roster' = [listed EXCEPT !.tab = "agents",
                                     !.pane = IF ProtectedAgents THEN @ ELSE "List",
                                     !.focus = IF ProtectedAgents THEN @ ELSE "Workspace"]
      /\ mem' = MemoryAfter(listed) /\ pending' = None /\ UNCHANGED shelf
  BY DEF ShowAgents
<1> HIDE DEF listed
<1>4. SameScreen(listed, roster') /\ (desk.confirmation # None => roster'.pane = listed.pane)
  BY <1>2, <1>3 DEF SameScreen, Reach, Screen, RosterFields, ProtectedAgents
<1>5. "profile" \in DOMAIN deferred' /\ Timely(deferred'.profile, listed)
  BY <1>2, <1>4, RetargetTimely DEF Reach
<1>6. Timely(pending', listed)
  BY <1>3 DEF Timely
<1>7. Arrives(listed)
  BY <1>1, <1>2, <1>3, <1>4, <1>5, <1>6, ReachArrives
<1> QED
  BY <1>3, <1>7, ShelfIs, AnsweredStep DEF Alike

LEMMA ShowAgentKeeps ==
  ASSUME IInv, Running, UNCHANGED <<desk, store, held, left>>, NEW p \in Profiles, NEW presents,
         ShowAgent(p, presents), deferred' = Retarget(roster', deferred)
  PROVE  IInv'
<1> DEFINE known == Known(roster, p, store.version)
<1>1. /\ "version" \in DOMAIN store /\ store.version \in Versions
      /\ Reach(known, store.version) /\ Reach(roster, store.version)
  BY NamedReach
<1>2. /\ \/ /\ roster' = [known EXCEPT !.tab = "agents",
                                       !.pane = IF ProtectedAgents THEN @ ELSE "Detail",
                                       !.focus = IF ProtectedAgents THEN @ ELSE "Workspace"]
            /\ mem' = MemoryAfter(known)
         \/ UNCHANGED <<roster, mem>>
      /\ pending' = None
      /\ shelf' \in {shelf, WithSkills(shelf, store.skills)}
  BY DEF ShowAgent
<1> HIDE DEF known
<1>3. Alike(shelf, shelf') /\ shelf'.pane = shelf.pane
  BY <1>2, ShelfIs, ViewsAre DEF Alike
<1>4. CASE /\ roster' = [known EXCEPT !.tab = "agents",
                                      !.pane = IF ProtectedAgents THEN @ ELSE "Detail",
                                      !.focus = IF ProtectedAgents THEN @ ELSE "Workspace"]
           /\ mem' = MemoryAfter(known)
  <2>1. SameScreen(known, roster') /\ (desk.confirmation # None => roster'.pane = known.pane)
    BY <1>1, <1>4 DEF SameScreen, Reach, Screen, RosterFields, ProtectedAgents
  <2>2. "profile" \in DOMAIN deferred' /\ Timely(deferred'.profile, known)
    BY <1>1, <2>1, RetargetTimely DEF Reach
  <2>3. Timely(pending', known)
    BY <1>2 DEF Timely
  <2>4. Arrives(known)
    BY <1>1, <1>4, <2>1, <2>2, <2>3, ReachArrives
  <2> QED
    BY <1>3, <2>4, AnsweredStep
<1>5. CASE UNCHANGED <<roster, mem>>
  <2>1. SameScreen(roster, roster') /\ Follows(roster, roster)
    BY <1>5, MovesAreQuiet DEF Follows
  <2>2. "profile" \in DOMAIN deferred' /\ Timely(deferred'.profile, roster)
    BY <2>1, RetargetTimely
  <2>3. Timely(pending', roster)
    BY <1>2 DEF Timely
  <2>4. Arrives(roster)
    BY <1>1, <1>5, <2>1, <2>2, <2>3, StayingArrives
  <2> QED
    BY <1>3, <2>4, AnsweredStep
<1> QED
  BY <1>2, <1>4, <1>5

LEMMA ShowSkillsKeep ==
  ASSUME IInv, Running, UNCHANGED <<desk, store, held, left>>, NEW presents,
         ShowSkills(presents) \/ \E s : ShowSkill(s, presents),
         deferred' = Retarget(roster', deferred)
  PROVE  IInv'
<1>1. /\ \/ UNCHANGED roster
         \/ roster' = [roster EXCEPT !.tab = "skills"]
      /\ UNCHANGED mem
      /\ pending' = None \/ \E key, x : pending' = Request("skill", key, x)
  BY DEF ShowSkills, ShowSkill
<1>2. SameScreen(roster, roster') /\ roster'.pane = roster.pane /\ Follows(roster, roster)
  BY <1>1, MovesAreQuiet DEF Follows
<1>3. "profile" \in DOMAIN deferred' /\ Timely(deferred'.profile, roster)
  BY <1>2, RetargetTimely
<1>4. Timely(pending', roster)
  BY <1>1 DEF Timely, Request
<1>5. Arrives(roster)
  BY <1>1, <1>2, <1>3, <1>4, RunningIs, StayingArrives DEF Screens
<1>6. CASE ShowSkills(presents)
  <2> DEFINE k == WithSkills(shelf, store.skills)
             pane == IF presents /\ ~ProtectedSkills THEN "List" ELSE k.pane
             origin == IF presents /\ roster.tab # "skills" /\ ~ProtectedSkills THEN Cockpit ELSE k.origin
  <2>1. Alike(shelf, k) /\ k.pane = shelf.pane
    BY ShelfIs, ViewsAre
  <2>2. shelf' = [k EXCEPT !.pane = pane, !.origin = origin]
    BY <1>6 DEF ShowSkills
  <2>3. shelf.confirmation = None \/ pane = shelf.pane
    BY <2>1 DEF ProtectedSkills
  <2> HIDE DEF k, pane, origin
  <2>4. Alike(k, shelf') /\ shelf'.pane = pane
    BY <2>1, <2>2 DEF Alike, IsShelf
  <2> QED
    BY <1>5, <2>1, <2>3, <2>4, AlikeChain, AnsweredStep
<1>7. ASSUME NEW s, ShowSkill(s, presents)
      PROVE  IInv'
  <2> DEFINE ref == Ref(s, store.skills[s])
             staged == ~presents /\ shelf.made = s /\ shelf.pane = "Result" /\ ~ProtectedSkills
             found == IF presents \/ staged THEN WithSkill(shelf, ref) ELSE shelf
             made == IF found.made = s THEN None ELSE found.made
             pane == IF ProtectedSkills \/ ~presents THEN shelf.pane ELSE found.pane
             origin == IF presents /\ roster.tab # "skills" /\ ~ProtectedSkills THEN Cockpit ELSE found.origin
  <2>1. Alike(shelf, found)
    BY ShelfIs, ViewsAre DEF Alike
  <2>2. shelf' = [found EXCEPT !.made = made, !.pane = pane, !.origin = origin]
    BY <1>7 DEF ShowSkill
  <2>3. shelf.confirmation = None \/ pane = shelf.pane
    BY DEF ProtectedSkills
  <2> HIDE DEF found, made, pane, origin
  <2>4. Alike(found, shelf') /\ shelf'.pane = pane
    BY <2>1, <2>2 DEF Alike, IsShelf
  <2> QED
    BY <1>5, <2>1, <2>3, <2>4, AlikeChain, AnsweredStep
<1> QED
  BY <1>6, <1>7

LEMMA CommandAnsweredKeeps ==
  ASSUME IInv, CommandAnswered
  PROVE  IInv'
<1>1. Running /\ pending # None /\ pending.kind = "command"
  BY PendingIs DEF CommandAnswered
<1>2. /\ pending.what \in {"agents", "agent", "skills", "skill"}
      /\ pending.what = "agent" => pending.key \in Profiles
  BY <1>1, RunningIs DEF Screens, Timely
<1>3. UNCHANGED <<desk, store, held, left>> /\ deferred' = Retarget(roster', deferred)
  BY DEF CommandAnswered, KeepRunning, deskVars
<1>4. CASE pending.what = "agents"
  BY <1>1, <1>3, <1>4, ShowAgentsKeeps DEF CommandAnswered
<1>5. CASE pending.what = "agent"
  BY <1>1, <1>2, <1>3, <1>5, ShowAgentKeeps DEF CommandAnswered
<1>6. CASE pending.what = "skills"
  BY <1>1, <1>3, <1>6, ShowSkillsKeep DEF CommandAnswered
<1>7. CASE pending.what = "skill"
  BY <1>1, <1>3, <1>7, ShowSkillsKeep DEF CommandAnswered
<1> QED
  BY <1>2, <1>4, <1>5, <1>6, <1>7

-----------------------------------------------------------------------------
(* The end of the loop, and after it *)

LEMMA ShutdownKeeps ==
  ASSUME IInv, UNCHANGED <<rosterVars, deskVars, shelf>>, Quit \/ SubmitQueuedShutdown
  PROVE  IInv'
<1>1. Running /\ UNCHANGED <<held, left, ended>>
  BY KeyIsRunning DEF Quit, SubmitQueuedShutdown
<1>2. "profile" \in DOMAIN deferred' /\ deferred'.profile = deferred.profile
  BY <1>1, ShelfIs DEF Quit, SubmitQueuedShutdown
<1>3. Timely(pending', roster)
  <2>1. pending' = pending \/ pending' = [kind |-> "shutdown"]
    BY DEF Quit, SubmitQueuedShutdown
  <2> QED
    BY <1>1, <2>1, RunningIs DEF Screens, Timely
<1> QED
  BY <1>1, <1>2, <1>3, RunningIs, MovesAreQuiet, StayingStep DEF rosterVars, deskVars, Screens

(* What is dropped says nothing of what is registered. *)
LEMMA DroppedIs ==
  ASSUME DOMAIN desk = DeskFields, IsShelf(shelf), Dropped
  PROVE  /\ DOMAIN desk' = DeskFields /\ IsShelf(shelf')
         /\ desk'.editor = desk.editor /\ desk'.confirmation = desk.confirmation
         /\ desk'.unsure = desk.unsure
         /\ mem'.registered = mem.registered /\ shelf'.registered = shelf.registered
<1>1. mem'.registered = mem.registered
  BY DEF Dropped, BlankMemory
<1>2. shelf'.registered = shelf.registered /\ IsShelf(shelf')
  BY DEF Dropped, BlankShelf, IsShelf
<1>3. /\ DOMAIN desk' = DeskFields
      /\ desk'.editor = desk.editor /\ desk'.confirmation = desk.confirmation /\ desk'.unsure = desk.unsure
  BY DEF Dropped, DeskFields
<1> QED
  BY <1>1, <1>2, <1>3

LEMMA ExitsKeep ==
  ASSUME IInv, Dropped, ShutdownAnswered \/ Interrupt \/ LoopFails
  PROVE  IInv'
<1>1. PICK why \in {"quit", "interrupted", "failed"} : Close(why)
  BY DEF ShutdownAnswered, Interrupt, LoopFails
<1>2. Running /\ ended' # "no" /\ UNCHANGED <<held, left>>
  BY <1>1 DEF Close
<1>3. /\ DOMAIN desk' = DeskFields /\ IsShelf(shelf')
      /\ desk'.editor = desk.editor /\ desk'.unsure = desk.unsure
      /\ mem'.registered = mem.registered /\ shelf'.registered = shelf.registered
  BY <1>2, RunningIs, DroppedIs
<1>4. /\ "memory" \in held' => mem'.registered
      /\ "skill" \in held' => shelf'.registered
      /\ "profile" \in held' => desk'.unsure \/ desk'.editor # None
  BY <1>2, <1>3, RunningIs DEF Agree
<1> QED
  BY <1>2, <1>3, <1>4, RunningIs, EndedIs

LEMMA TeardownKeeps ==
  ASSUME IInv, Teardown
  PROVE  IInv'
<1>1. /\ ~Running /\ left = None /\ ended' = ended
      /\ \E failed \in SUBSET (Owned \cup {"screen", "runtime"}) :
            held' = held \ (Owned \ failed) /\ left'.failed = failed
  BY DEF Teardown, TearDown
<1>2. DOMAIN desk = DeskFields /\ IsShelf(shelf) /\ Reviews
  BY DEF IInv
<1>3. /\ DOMAIN desk' = DeskFields /\ IsShelf(shelf')
      /\ desk'.editor = desk.editor /\ desk'.confirmation = desk.confirmation
      /\ desk'.unsure = desk.unsure
      /\ mem'.registered = mem.registered /\ shelf'.registered = shelf.registered
  BY <1>2, DroppedIs DEF Teardown
<1>4. Owned' = Owned /\ Unsure' = Unsure
  BY <1>3 DEF Owned, Unsure
<1>5. held' \subseteq held /\ ~Running'
  BY <1>1 DEF Running
<1>6. ended # "uncancelled" => held' \subseteq left'.failed \cup Unsure
  BY <1>1, <1>2 DEF Reviews
<1>7. Reviews'
  BY <1>1, <1>2, <1>4, <1>5, <1>6 DEF Reviews
<1> QED
  BY <1>3, <1>5, <1>7 DEF IInv

LEMMA StutterKeeps ==
  ASSUME IInv, UNCHANGED <<hostVars, rosterVars, deskVars, shelfVars>>
  PROVE  IInv'
<1>1. UNCHANGED <<pending, deferred, ended, held, left, roster, mem, store, desk, shelf>>
  BY DEF hostVars, rosterVars, deskVars, shelfVars
<1>2. Running' = Running /\ Owned' = Owned /\ Unsure' = Unsure
  BY <1>1 DEF Running, Owned, Unsure
<1>3. CASE Running
  <2>1. Arrives(roster)
    BY <1>1, <1>3, RunningIs, MovesAreQuiet, StayingArrives DEF Screens
  <2> QED
    BY <1>1, <1>3, <2>1, RunningIs, ShelfIs, ShelfStep DEF Agree
<1>4. CASE ~Running
  <2>1. Reviews'
    BY <1>1, <1>2, <1>4 DEF IInv, Reviews
  <2> QED
    BY <1>1, <1>2, <1>4, <2>1 DEF IInv
<1> QED
  BY <1>3, <1>4

-----------------------------------------------------------------------------
(* The invariant *)

LEMMA InitInv == Init => IInv
<1> SUFFICES ASSUME Init PROVE IInv
  OBVIOUS
<1>1. InitStore.version \in Versions /\ "version" \in DOMAIN InitStore
  BY DEF InitStore, Versions
<1>2. /\ store = InitStore /\ mem = BlankMemory /\ RosterInit(InitStore.version) /\ DeskInit
      /\ pending = None /\ deferred = NothingDeferred /\ ended = "no" /\ held = {} /\ left = None
      /\ \E s : shelf = BlankShelf(s)
  BY DEF Init, HostInit
<1>3. Screen(roster, store.version)
  <2>1. /\ DOMAIN roster = RosterFields /\ roster.sel = FirstAgent /\ roster.rows = store.version
        /\ roster.detail = None /\ roster.history = None /\ roster.version = None
    BY <1>2 DEF RosterInit, RosterFields
  <2> QED
    BY <1>1, <1>2, <2>1, FirstAgentAssumption DEF Screen, Versions
<1>4. Screens
  <2>1. "profile" \in DOMAIN deferred /\ deferred.profile = None
    BY <1>2 DEF NothingDeferred
  <2> QED
    BY <1>1, <1>2, <1>3, <2>1, BlankIs DEF Screens, Timely
<1>5. DOMAIN desk = DeskFields /\ desk.editor = None /\ desk.confirmation = None
  BY <1>2 DEF DeskInit, DeskFields
<1>6. /\ IsShelf(shelf) /\ shelf.registered = FALSE /\ shelf.editor = None
      /\ shelf.confirmation = None /\ shelf.agent = None
  BY <1>2 DEF BlankShelf, IsShelf
<1>7. DeskForm /\ ShelfForm
  BY <1>5, <1>6 DEF DeskForm, ShelfForm, ShelfSound
<1>8. Agree
  <2>1. ("memory" \in held) = FALSE /\ ("skill" \in held) = FALSE /\ "profile" \notin held
    BY <1>2
  <2> QED
    BY <1>2, <1>6, <2>1, BlankIs DEF Agree
<1>9. Reviews
  BY <1>2, <1>8 DEF Reviews, ReviewKinds
<1> QED
  BY <1>4, <1>5, <1>6, <1>7, <1>9 DEF IInv

LEMMA StepInv == IInv /\ [Next]_vars => IInv'
<1> SUFFICES ASSUME IInv, [Next]_vars PROVE IInv'
  OBVIOUS
<1>1. CASE Keys
  <2>1. CASE (AgentKeys \/ NoteKeys) /\ UNCHANGED <<desk, shelf>>
    BY <2>1, AgentKeysKeep, NoteKeysKeep
  <2>2. CASE (DeskForms \/ DeskTyping) /\ UNCHANGED shelf
    BY <2>2, DeskKeysKeep
  <2>3. CASE SkillKeys
    BY <2>3, SkillKeysKeep
  <2>4. CASE TabKeys
    BY <2>4, CockpitKeysKeep, CockpitLineKeeps, WorkflowsKeep DEF TabKeys
  <2>5. CASE Quit /\ UNCHANGED <<rosterVars, deskVars, shelf>>
    BY <2>5, ShutdownKeeps
  <2> QED
    BY <1>1, <2>1, <2>2, <2>3, <2>4, <2>5 DEF Keys
<1>2. CASE Answers
  BY <1>2, NoteKeysKeep, ProfileAnsweredKeeps, PreviewsKeep, CommandAnsweredKeeps, ExitsKeep DEF Answers
<1>3. CASE Catching
  BY <1>3, RunDeferredMemoryKeeps, RunDeferredProfileKeeps, CockpitKeysKeep, PreviewsKeep,
     ShutdownKeeps DEF Catching
<1>4. CASE Exits
  BY <1>4, ExitsKeep DEF Exits
<1>5. CASE Teardown
  BY <1>5, TeardownKeeps
<1>6. CASE Done
  BY <1>6, StutterKeeps DEF Done
<1>7. CASE UNCHANGED vars
  BY <1>7, StutterKeeps DEF vars
<1> QED
  BY <1>1, <1>2, <1>3, <1>4, <1>5, <1>6, <1>7 DEF Next

THEOREM Invariance == Spec => []IInv
BY InitInv, StepInv, PTL DEF Spec

-----------------------------------------------------------------------------
(* The properties *)

(* A review that the runtime has registered for the terminal (the preview   *)
(* calls of src/ui/tui/host.rs) is known to a screen that will cancel it, or  *)
(* the operator was told; the teardown leaves none behind but those it tried  *)
(* to cancel and could not.                                                  *)
THEOREM NoReviewIsForgotten == Spec => []NothingHeldIsForgotten
<1>1. IInv => NothingHeldIsForgotten
  BY DEF IInv, Reviews, Agree, NothingHeldIsForgotten, Owned, Unsure, ReviewKinds
<1> QED
  BY <1>1, Invariance, PTL

(* What the memory and the skill screens take for a registered review the    *)
(* runtime has registered: no confirmation is offered of one it has given up. *)
THEOREM OfferedReviewsExist == Spec => []OfferedIsRegistered
<1>1. ConfirmedCommand(mem) # None => mem.registered
  BY DEF ConfirmedCommand, ReviewCommand, EditAuthentic, ResolutionAuthentic
<1>2. IInv => OfferedIsRegistered
  BY <1>1 DEF IInv, Reviews, Agree, OfferedIsRegistered
<1> QED
  BY <1>2, Invariance, PTL

(* The details, the history and the memory on the screen are those of the    *)
(* selected agent, whatever order the reads of src/ui/tui/host.rs are         *)
(* answered in and whatever moved the selection meanwhile.                  *)
THEOREM WhatIsShownIsSelected == Spec => []ShownIsSelected
<1>1. IInv => ShownIsSelected
  BY DEF IInv, Screens, Screen, Target, ShownIsSelected
<1> QED
  BY <1>1, Invariance, PTL

(* What the operator confirms is what was reviewed: no key of the two forms   *)
(* (src/ui/profile_editor.rs, src/ui/skill_editor.rs) changes a draft and      *)
(* leaves its review in force.                                              *)
THEOREM WhatIsConfirmedWasReviewed == Spec => []ReviewIsOfTheDraft
<1>1. IInv => ReviewIsOfTheDraft
  BY DEF IInv, DeskForm, ShelfForm, ShelfSound, Faithful, SkillFaithful, ReviewIsOfTheDraft
<1> QED
  BY <1>1, Invariance, PTL
=============================================================================
