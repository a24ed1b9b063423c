-------------------------- MODULE AssignmentProofs --------------------------
(***************************************************************************)
(* The desks of the terminal: an assignment that waits for a yes is what was *)
(* promised, unless the agent has changed since, and begun work is kept.    *)
(*                                                                         *)
(* AInv rests on the invariant of TerminalProofs.  What the tab of the       *)
(* skills shows there is or was (Shows), so what an assignment is made of    *)
(* exists; and what is recorded only grows (Grows), so a promise about       *)
(* one version of an agent stays one (Promises).                            *)
(*                                                                         *)
(* WInv rests on both.  It says what each desk may have begun: the form of   *)
(* an agent (DeskWork), the form of a skill (ShelfWork), and the draft, the  *)
(* review and the answer to a suggestion in the memory (Penned).            *)
(***************************************************************************)
EXTENDS TerminalProofs

(* The versions of the skills that there are *)
Offers(skills) == {ref \in [s : Skills, v : Nat] : ref.v \in 1 .. skills[ref.s]}

Stocked(stock) ==
    /\ {"version", "skills", "uses"} \subseteq DOMAIN stock
    /\ stock.version \in Versions /\ stock.skills \in [Skills -> Nat]
    /\ stock.uses \in [Profiles -> [Skills -> Nat]]
    /\ \A p \in Profiles : \A s \in Skills : stock.uses[p][s] <= stock.skills[s]

LibraryFields == {"sel", "rows", "detail", "history", "past", "source", "made", "assignment", "confirmation"}

(* What the tab shows of the library there is, or there was. *)
Shows(k, skills) ==
    /\ LibraryFields \subseteq DOMAIN k
    /\ k.sel \in Skills
    /\ k.rows \in [Skills -> Nat] /\ \A s \in Skills : k.rows[s] <= skills[s]
    /\ k.detail # None => k.detail \in Offers(skills)
    /\ k.history # None => k.history \in Offers(skills) /\ k.past \in 0 .. k.history.v - 1
    /\ k.source # None => k.source \in Skills /\ k.rows[k.source] > 0
    /\ k.made # None => k.made \in Skills /\ skills[k.made] > 0

Pins == [s : Skills, v : Nat \ {0}]
Classified(k) ==
    k.assignment # None /\ k.assignment.kind # "add" => k.assignment.pinned \in Pins

(* What waits for a yes was so when it was reviewed, and still is unless the *)
(* agent has another version since.                                         *)
Promises(r, stock) ==
    /\ r.p \in Profiles /\ r.expected \in Nat /\ r.expected <= stock.version[r.p]
    /\ r.kind # "unassign" => r.target \in Offers(stock.skills)
    /\ r.kind # "add" => r.pinned \in Pins
    /\ r.kind \in {"upgrade", "reassign"} => r.target.s = r.pinned.s /\ r.target # r.pinned
    /\ stock.version[r.p] = r.expected =>
          IF r.kind = "add" THEN stock.uses[r.p][r.target.s] = 0
          ELSE stock.uses[r.p][r.pinned.s] = r.pinned.v
Promised(k, stock) ==
    k.confirmation # None =>
        /\ k.confirmation.by = "assignment" => k.confirmation.command.op = "assign"
        /\ k.confirmation.command.op = "assign" => Promises(k.confirmation.command.request, stock)

Tells(k, stock) == Shows(k, stock.skills) /\ Classified(k) /\ Promised(k, stock)

(* A preview is of a skill that was listed, a skill asked for by name is there. *)
Wanted(t) == t.s \in Skills /\ t.v \in Nat \ {0}
Awaited(t) == t # None => Wanted(t)
Slot(x, skills) ==
    x # None =>
        /\ "kind" \in DOMAIN x
        /\ x.kind = "preview" => Wanted(x.target)
        /\ x.kind = "command" =>
              /\ {"what", "key"} \subseteq DOMAIN x
              /\ x.what = "skill" => x.key \in Skills /\ skills[x.key] > 0
ReadOnly(x) == x # None => "kind" \in DOMAIN x /\ x.kind = "profile"
(* What a change of the memory leaves to do is to read its lists again. *)
Backlog(reads) == \E whose : reads \in Seq([what : {"entries", "proposals"}, p : whose])
Waits(queue) ==
    /\ {"preview", "profile", "memory"} \subseteq DOMAIN queue
    /\ Awaited(queue.preview) /\ ReadOnly(queue.profile) /\ Backlog(queue.memory)

AInv == Running => Stocked(store) /\ Tells(shelf, store) /\ Slot(pending, store.skills) /\ Waits(deferred)

-----------------------------------------------------------------------------
(* What is recorded grows: versions are added, and what an agent uses        *)
(* changes only with its version.                                           *)
Grows(old, new) ==
    /\ Stocked(new)
    /\ \A p \in Profiles : old.version[p] <= new.version[p]
    /\ \A s \in Skills : old.skills[s] <= new.skills[s]
    /\ \A p \in Profiles : new.version[p] = old.version[p] => new.uses[p] = old.uses[p]

LEMMA OffersGrow ==
  ASSUME NEW old, Stocked(old), NEW new, Grows(old, new)
  PROVE  \A ref : ref \in Offers(old.skills) => ref \in Offers(new.skills)
<1> SUFFICES ASSUME NEW ref \in Offers(old.skills) PROVE ref \in Offers(new.skills)
  OBVIOUS
<1>1. ref \in [s : Skills, v : Nat] /\ ref.v \in 1 .. old.skills[ref.s]
  BY DEF Offers
<1>2. ref.s \in Skills /\ ref.v \in Nat /\ old.skills[ref.s] \in Nat /\ new.skills[ref.s] \in Nat
      /\ old.skills[ref.s] <= new.skills[ref.s]
  BY <1>1 DEF Stocked, Grows
<1>3. ref.v \in 1 .. new.skills[ref.s]
  BY <1>1, <1>2
<1> QED
  BY <1>1, <1>3 DEF Offers

LEMMA ShowsGrow ==
  ASSUME NEW old, Stocked(old), NEW new, Grows(old, new), NEW k, Shows(k, old.skills)
  PROVE  Shows(k, new.skills)
<1>1. \A s \in Skills : /\ old.skills[s] \in Nat /\ new.skills[s] \in Nat /\ old.skills[s] <= new.skills[s]
                        /\ k.rows[s] \in Nat /\ k.rows[s] <= old.skills[s]
  BY DEF Stocked, Grows, Shows
<1>2. \A s \in Skills : k.rows[s] <= new.skills[s]
  BY <1>1
<1>3. k.made # None => k.made \in Skills /\ new.skills[k.made] > 0
  BY <1>1 DEF Shows
<1> QED
  BY <1>2, <1>3, OffersGrow DEF Shows

LEMMA PromisesGrow ==
  ASSUME NEW old, Stocked(old), NEW new, Grows(old, new), NEW r, Promises(r, old)
  PROVE  Promises(r, new)
<1>1. /\ r.p \in Profiles /\ r.expected \in Nat
      /\ old.version[r.p] \in Nat /\ new.version[r.p] \in Nat
      /\ r.expected <= old.version[r.p] /\ old.version[r.p] <= new.version[r.p]
  BY DEF Promises, Stocked, Grows, Versions
<1>2. r.expected <= new.version[r.p]
  BY <1>1
<1>3. new.version[r.p] = r.expected => old.version[r.p] = r.expected /\ new.version[r.p] = old.version[r.p]
  BY <1>1
<1>4. new.version[r.p] = r.expected => old.version[r.p] = r.expected /\ new.uses[r.p] = old.uses[r.p]
  BY <1>1, <1>3 DEF Grows
<1> QED
  BY <1>1, <1>2, <1>4, OffersGrow DEF Promises

LEMMA TellsGrow ==
  ASSUME NEW old, Stocked(old), NEW new, Grows(old, new), NEW k, Tells(k, old)
  PROVE  Tells(k, new)
BY ShowsGrow, PromisesGrow DEF Tells, Promised

LEMMA SlotGrows ==
  ASSUME NEW old, Stocked(old), NEW new, Grows(old, new), NEW x, Slot(x, old.skills)
  PROVE  Slot(x, new.skills)
<1>1. \A s \in Skills : old.skills[s] \in Nat /\ new.skills[s] \in Nat /\ old.skills[s] <= new.skills[s]
  BY DEF Stocked, Grows
<1>2. \A s \in Skills : old.skills[s] > 0 => new.skills[s] > 0
  BY <1>1
<1> QED
  BY <1>2 DEF Slot

LEMMA StaysGrown ==
  ASSUME NEW old, Stocked(old)
  PROVE  Grows(old, old)
<1>1. \A p \in Profiles : old.version[p] \in Nat
  BY DEF Stocked, Versions
<1>2. \A s \in Skills : old.skills[s] \in Nat
  BY DEF Stocked
<1> QED
  BY <1>1, <1>2 DEF Grows

(* A step, judged by what there was before it *)
LEMMA AssignmentStep ==
  ASSUME AInv, Running, UNCHANGED store \/ Grows(store, store'), Tells(shelf', store),
         Slot(pending', store.skills), Waits(deferred')
  PROVE  AInv'
<1>1. Stocked(store)
  BY DEF AInv
<1>2. Grows(store, store')
  BY <1>1, StaysGrown
<1>3. Stocked(store')
  BY <1>2 DEF Grows
<1> QED
  BY <1>1, <1>2, <1>3, TellsGrow, SlotGrows DEF AInv

LEMMA ThereIs ==
  ASSUME AInv, Running
  PROVE  Stocked(store) /\ Tells(shelf, store) /\ Slot(pending, store.skills) /\ Waits(deferred)
BY DEF AInv

-----------------------------------------------------------------------------
(* What a step does to the tab *)

(* The tab with no more of the library on it than there was *)
Agrees(k, j) ==
    /\ LibraryFields \subseteq DOMAIN j
    /\ j.sel = k.sel /\ j.rows = k.rows /\ j.detail \in {k.detail, None}
    /\ j.history = None \/ (j.history = k.history /\ j.past = k.past)
    /\ j.source \in {k.source, None} /\ j.made \in {k.made, None}
    /\ j.assignment \in {k.assignment, None} /\ j.confirmation \in {k.confirmation, None}

LEMMA AgreesTells ==
  ASSUME NEW stock, NEW k, Tells(k, stock), NEW j, Agrees(k, j)
  PROVE  Tells(j, stock)
<1>1. Shows(j, stock.skills)
  BY DEF Agrees, Tells, Shows
<1>2. Classified(j) /\ Promised(j, stock)
  BY DEF Agrees, Tells, Classified, Promised
<1> QED
  BY <1>1, <1>2 DEF Tells

LEMMA AgreesChain ==
  ASSUME NEW k, NEW j, Agrees(k, j), NEW i, Agrees(j, i)
  PROVE  Agrees(k, i)
BY DEF Agrees

LEMMA OffersAre ==
  ASSUME NEW skills \in [Skills -> Nat], NEW s \in Skills, NEW v, v \in 1 .. skills[s]
  PROVE  Ref(s, v) \in Offers(skills) /\ Ref(s, v).s = s /\ Ref(s, v).v = v
<1>1. skills[s] \in Nat
  OBVIOUS
<1>2. v \in Nat
  BY <1>1
<1> QED
  BY <1>2 DEF Ref, Offers

LEMMA ChosenIs ==
  ASSUME NEW stock, Stocked(stock), NEW k, Tells(k, stock),
         SelectedRef(k) # None \/ (k.pane = "History" /\ k.history # None)
  PROVE  SelectedRef(k) \in Offers(stock.skills)
<1>1. CASE k.pane = "History"
  <2>1. k.history \in Offers(stock.skills) /\ k.past \in 0 .. k.history.v - 1
        /\ SelectedRef(k) = Ref(k.history.s, k.history.v - k.past)
    BY <1>1 DEF SelectedRef, Tells, Shows
  <2> DEFINE s == k.history.s
             v == k.history.v
  <2>2. s \in Skills /\ v \in Nat /\ v \in 1 .. stock.skills[s] /\ stock.skills[s] \in Nat
        /\ k.past \in 0 .. v - 1
    BY <2>1 DEF Offers, Stocked
  <2> HIDE DEF v
  <2>3. v - k.past \in 1 .. stock.skills[s]
    BY <2>2
  <2> HIDE DEF s
  <2>4. Ref(s, v - k.past) \in Offers(stock.skills)
    BY <2>2, <2>3, OffersAre DEF Stocked
  <2> QED
    BY <2>1, <2>4 DEF s, v
<1>2. CASE k.pane # "History" /\ k.detail # None
  BY <1>2 DEF SelectedRef, Tells, Shows
<1>3. CASE k.pane # "History" /\ k.detail = None
  <2>1. k.rows[k.sel] > 0 /\ SelectedRef(k) = Ref(k.sel, k.rows[k.sel])
    BY <1>3 DEF SelectedRef
  <2>2. k.sel \in Skills /\ k.rows[k.sel] \in Nat /\ k.rows[k.sel] <= stock.skills[k.sel]
        /\ stock.skills[k.sel] \in Nat
    BY DEF Tells, Shows, Stocked
  <2>3. k.rows[k.sel] \in 1 .. stock.skills[k.sel]
    BY <2>1, <2>2
  <2> QED
    BY <2>1, <2>2, <2>3, OffersAre DEF Stocked
<1> QED
  BY <1>1, <1>2, <1>3

(* What is listed is there. *)
LEMMA ListedIs ==
  ASSUME NEW stock, Stocked(stock), NEW k, Tells(k, stock), NEW s \in Skills, InLibrary(k, s)
  PROVE  /\ Ref(s, k.rows[s]) \in Offers(stock.skills)
         /\ Ref(s, stock.skills[s]) \in Offers(stock.skills)
         /\ k.rows[s] \in Nat \ {0}
<1>1. k.rows[s] \in Nat /\ k.rows[s] > 0 /\ k.rows[s] <= stock.skills[s] /\ stock.skills[s] \in Nat
  BY DEF Tells, Shows, Stocked, InLibrary
<1>2. k.rows[s] \in 1 .. stock.skills[s] /\ stock.skills[s] \in 1 .. stock.skills[s] /\ k.rows[s] \in Nat \ {0}
  BY <1>1
<1> QED
  BY <1>2, OffersAre DEF Stocked

LEMMA ShownTells ==
  ASSUME NEW stock, NEW k, Tells(k, stock), NEW ref \in Offers(stock.skills)
  PROVE  /\ Tells(Found(k, ref), stock) /\ Tells(WithSkill(k, ref), stock)
         /\ Tells(WithSkillVersion(k, ref), stock) /\ Tells(WithSkillHistory(k, ref), stock)
<1>0. ref.s \in Skills /\ ref.v \in Nat /\ 1 <= ref.v
  <2>1. ref.s \in Skills /\ ref.v \in Nat /\ ref.v \in 1 .. stock.skills[ref.s]
    BY DEF Offers
  <2> QED
    BY <2>1
<1> DEFINE j == Found(k, ref)
           i == WithSkillHistory(k, ref)
<1>1. /\ LibraryFields \subseteq DOMAIN j
      /\ j.sel \in {k.sel, ref.s} /\ j.rows = k.rows
      /\ j.detail = ref /\ j.history \in {k.history, None}
      /\ j.past = k.past /\ j.source = k.source
      /\ j.made = k.made /\ j.assignment = k.assignment
      /\ j.confirmation = k.confirmation
  BY DEF Found, Tells, Shows, LibraryFields
<1>2. Agrees(j, WithSkill(k, ref)) /\ Agrees(j, WithSkillVersion(k, ref))
  BY <1>1 DEF Agrees, WithSkill, WithSkillVersion, LibraryFields
<1>3. /\ LibraryFields \subseteq DOMAIN i
      /\ i.sel = k.sel /\ i.rows = k.rows /\ i.detail = k.detail /\ i.history = ref
      /\ i.past = 0 /\ i.source = k.source /\ i.made = k.made
      /\ i.assignment = k.assignment /\ i.confirmation = k.confirmation
  BY DEF WithSkillHistory, Tells, Shows, LibraryFields
<1> HIDE DEF j, i
<1>4. Tells(j, stock)
  <2>1. Shows(j, stock.skills)
    BY <1>0, <1>1 DEF Tells, Shows
  <2>2. Classified(j) /\ Promised(j, stock)
    BY <1>1 DEF Tells, Classified, Promised
  <2> QED
    BY <2>1, <2>2 DEF Tells
<1>5. Tells(i, stock)
  <2>1. 0 \in 0 .. ref.v - 1
    BY <1>0
  <2>2. Shows(i, stock.skills)
    BY <1>0, <1>3, <2>1 DEF Tells, Shows
  <2>3. Classified(i) /\ Promised(i, stock)
    BY <1>3 DEF Tells, Classified, Promised
  <2> QED
    BY <2>2, <2>3 DEF Tells
<1> QED
  BY <1>2, <1>4, <1>5, AgreesTells DEF j, i

LEMMA ListedTells ==
  ASSUME NEW stock, Stocked(stock), NEW k, Tells(k, stock)
  PROVE  Tells(WithSkills(k, stock.skills), stock)
<1> DEFINE i == WithSkills(k, stock.skills)
<1>1. /\ LibraryFields \subseteq DOMAIN i
      /\ i.sel = k.sel /\ i.rows = stock.skills /\ i.detail = k.detail /\ i.history = k.history
      /\ i.past = k.past /\ i.source = k.source /\ i.made = k.made
      /\ i.assignment = k.assignment /\ i.confirmation = k.confirmation
  BY DEF WithSkills, Tells, Shows, LibraryFields
<1> HIDE DEF i
<1>2. \A s \in Skills : /\ stock.skills[s] \in Nat /\ stock.skills[s] <= stock.skills[s]
                        /\ k.rows[s] \in Nat /\ k.rows[s] <= stock.skills[s]
  BY DEF Stocked, Tells, Shows
<1>3. k.source # None => k.source \in Skills /\ stock.skills[k.source] > 0
  BY <1>2 DEF Tells, Shows
<1>4. Shows(i, stock.skills)
  BY <1>1, <1>2, <1>3 DEF Tells, Shows, Stocked
<1>5. Classified(i) /\ Promised(i, stock)
  BY <1>1 DEF Tells, Classified, Promised
<1> QED
  BY <1>4, <1>5 DEF Tells, i

(* Fields that say nothing of the library, and what is taken off the tab *)
LEMMA FieldsAgree ==
  ASSUME NEW k, LibraryFields \subseteq DOMAIN k
  PROVE  /\ Agrees(k, k) /\ Agrees(k, NoContext(k))
         /\ \A x : /\ Agrees(k, [k EXCEPT !.focus = x]) /\ Agrees(k, [k EXCEPT !.origin = x])
                   /\ Agrees(k, [k EXCEPT !.page = x]) /\ Agrees(k, [k EXCEPT !.from = x])
                   /\ Agrees(k, [k EXCEPT !.pane = x]) /\ Agrees(k, [k EXCEPT !.sample = x])
                   /\ Agrees(k, [k EXCEPT !.registered = x]) /\ Agrees(k, [k EXCEPT !.agent = x])
                   /\ Agrees(k, Presented(k, x)) /\ Agrees(k, WithForm(k, x))
         /\ \A x, y : /\ Agrees(k, [k EXCEPT !.pane = x, !.focus = y])
                      /\ Agrees(k, [k EXCEPT !.focus = x, !.pane = y])
                      /\ Agrees(k, [k EXCEPT !.origin = x, !.focus = y])
                      /\ Agrees(k, [k EXCEPT !.editor = x, !.page = y])
                      /\ Agrees(k, [k EXCEPT !.page = x, !.editor = y])
                      /\ Agrees(k, [k EXCEPT !.pane = x, !.origin = y])
         /\ \A x, y, z : /\ Agrees(k, [k EXCEPT !.pane = x, !.page = y, !.focus = z])
                         /\ Agrees(k, [k EXCEPT !.origin = x, !.from = y, !.focus = z])
<1>1. Agrees(k, k) /\ Agrees(k, NoContext(k))
  BY DEF Agrees, LibraryFields, NoContext
<1>2. \A x : /\ Agrees(k, [k EXCEPT !.focus = x]) /\ Agrees(k, [k EXCEPT !.origin = x])
             /\ Agrees(k, [k EXCEPT !.page = x]) /\ Agrees(k, [k EXCEPT !.from = x])
             /\ Agrees(k, [k EXCEPT !.pane = x]) /\ Agrees(k, [k EXCEPT !.sample = x])
             /\ Agrees(k, [k EXCEPT !.registered = x]) /\ Agrees(k, [k EXCEPT !.agent = x])
  BY DEF Agrees, LibraryFields
<1>3. \A x : Agrees(k, Presented(k, x)) /\ Agrees(k, WithForm(k, x))
  BY DEF Agrees, LibraryFields, Presented, WithForm
<1>4. \A x, y : /\ Agrees(k, [k EXCEPT !.pane = x, !.focus = y])
                /\ Agrees(k, [k EXCEPT !.focus = x, !.pane = y])
                /\ Agrees(k, [k EXCEPT !.origin = x, !.focus = y])
                /\ Agrees(k, [k EXCEPT !.editor = x, !.page = y])
                /\ Agrees(k, [k EXCEPT !.page = x, !.editor = y])
                /\ Agrees(k, [k EXCEPT !.pane = x, !.origin = y])
  BY DEF Agrees, LibraryFields
<1>5. \A x, y, z : /\ Agrees(k, [k EXCEPT !.pane = x, !.page = y, !.focus = z])
                   /\ Agrees(k, [k EXCEPT !.origin = x, !.from = y, !.focus = z])
  BY DEF Agrees, LibraryFields
<1> QED
  BY <1>1, <1>2, <1>3, <1>4, <1>5

-----------------------------------------------------------------------------
(* What waits for the slot, and what is in it *)

LEMMA ReadsAre ==
  /\ \A r, read : /\ ReadOnly(ReadRequest(r, read))
                  /\ \A skills : Slot(ReadRequest(r, read), skills)
  /\ \A x : ReadOnly(x) => /\ \A r : ReadOnly(Retargeted(r, x))
                           /\ ReadOnly(StaleTarget(x))
                           /\ \A skills : Slot(x, skills)
  /\ \A x, skills : Slot(x, skills) =>
        /\ Slot(StaleTarget(x), skills) /\ Slot(Moved(x), skills)
        /\ \A r : Slot(Retargeted(r, x), skills)
  /\ \A skills : Slot(None, skills) /\ Slot([kind |-> "shutdown"], skills)
<1>1. \A r, read : /\ ReadOnly(ReadRequest(r, read))
                   /\ \A skills : Slot(ReadRequest(r, read), skills)
  BY DEF ReadRequest, ReadOnly, Slot
<1>2. \A x : ReadOnly(x) => ReadOnly(StaleTarget(x)) /\ \A skills : Slot(x, skills)
  BY DEF ReadOnly, StaleTarget, Slot
<1>3. \A x, skills : Slot(x, skills) => Slot(StaleTarget(x), skills)
  <2> SUFFICES ASSUME NEW x, NEW skills, Slot(x, skills)
               PROVE  Slot(StaleTarget(x), skills)
    OBVIOUS
  <2>1. CASE x # None /\ x.kind = "profile"
    <3> DEFINE y == [x EXCEPT !.fresh = FALSE]
    <3>1. "kind" \in DOMAIN y /\ y.kind = "profile"
      BY <2>1 DEF Slot
    <3> HIDE DEF y
    <3>2. StaleTarget(x) = y
      BY <2>1 DEF StaleTarget, y
    <3> QED
      BY <3>1, <3>2 DEF Slot
  <2>2. CASE ~(x # None /\ x.kind = "profile")
    BY <2>2 DEF StaleTarget
  <2> QED
    BY <2>1, <2>2
<1>4. \A x, skills : Slot(x, skills) => Slot(Moved(x), skills)
  <2> SUFFICES ASSUME NEW x, NEW skills, Slot(x, skills)
               PROVE  Slot(Moved(x), skills)
    OBVIOUS
  <2>1. CASE x # None /\ x.kind = "command"
    <3> DEFINE y == [x EXCEPT !.presents = FALSE]
    <3>1. /\ {"kind", "what", "key"} \subseteq DOMAIN y /\ y.kind = "command" /\ y.what = x.what /\ y.key = x.key
      BY <2>1 DEF Slot
    <3> HIDE DEF y
    <3>2. Moved(x) = y
      BY <2>1 DEF Moved, y
    <3> QED
      BY <2>1, <3>1, <3>2 DEF Slot
  <2>2. CASE ~(x # None /\ x.kind = "command")
    BY <2>2 DEF Moved
  <2> QED
    BY <2>1, <2>2
<1>5. \A skills : Slot(None, skills) /\ Slot([kind |-> "shutdown"], skills)
  BY DEF Slot
<1> QED
  BY <1>1, <1>2, <1>3, <1>4, <1>5 DEF Retargeted

LEMMA QueuesAre ==
  ASSUME NEW queue, Waits(queue)
  PROVE  /\ \A r : Waits(Retarget(r, queue))
         /\ \A x : ReadOnly(x) => Waits([queue EXCEPT !.profile = x])
         /\ \A x : Waits([queue EXCEPT !.nav = x]) /\ Waits([queue EXCEPT !.again = x])
                   /\ Waits([queue EXCEPT !.quit = x])
         /\ \A reads : Backlog(reads) => Waits([queue EXCEPT !.memory = reads])
         /\ \A x : Awaited(x) => Waits([queue EXCEPT !.preview = x])
<1>1. \A x : ReadOnly(x) => Waits([queue EXCEPT !.profile = x])
  BY DEF Waits
<1>2. \A r : Waits(Retarget(r, queue))
  BY <1>1, ReadsAre DEF Retarget, Waits
<1>3. \A x : Waits([queue EXCEPT !.nav = x]) /\ Waits([queue EXCEPT !.again = x])
             /\ Waits([queue EXCEPT !.quit = x])
  BY DEF Waits
<1>5. \A reads : Backlog(reads) => Waits([queue EXCEPT !.memory = reads])
  BY DEF Waits
<1>4. \A x : Awaited(x) => Waits([queue EXCEPT !.preview = x])
  BY DEF Waits
<1> QED
  BY <1>1, <1>2, <1>3, <1>4, <1>5

LEMMA BacklogsAre ==
  /\ Backlog(<<>>)
  /\ \A reads : Backlog(reads) /\ reads # <<>> =>
        Head(reads).what \in {"entries", "proposals"} /\ Backlog(Tail(reads))
  /\ \A reads : Backlog(reads) => \A m, command : Backlog(reads \o Refreshes(m, command))
<1>1. Backlog(<<>>)
  BY DEF Backlog
<1>2. ASSUME NEW reads, Backlog(reads), reads # <<>>
      PROVE  Head(reads).what \in {"entries", "proposals"} /\ Backlog(Tail(reads))
  <2> DEFINE Of(whose) == [what : {"entries", "proposals"}, p : whose]
  <2>1. PICK whose : reads \in Seq(Of(whose))
    BY <1>2 DEF Backlog
  <2>2. Head(reads) \in Of(whose)
    <3> HIDE DEF Of
    <3> QED
      BY <1>2, <2>1
  <2>3. Tail(reads) \in Seq(Of(whose))
    <3> HIDE DEF Of
    <3> QED
      BY <1>2, <2>1
  <2> QED
    BY <2>2, <2>3 DEF Backlog
<1>3. ASSUME NEW reads, Backlog(reads), NEW m, NEW command
      PROVE  Backlog(reads \o Refreshes(m, command))
  <2> DEFINE Of(whose) == [what : {"entries", "proposals"}, p : whose]
             more == Refreshes(m, command)
  <2>1. PICK whose : reads \in Seq(Of(whose))
    BY <1>3 DEF Backlog
  <2> DEFINE all == whose \cup {m.bound.p}
  <2>2. \A x \in Of(whose) : x \in Of(all)
    OBVIOUS
  <2>3. more \in Seq(Of(all))
    <3>1. /\ [what |-> "entries", p |-> m.bound.p] \in Of(all)
          /\ [what |-> "proposals", p |-> m.bound.p] \in Of(all)
      OBVIOUS
    <3> HIDE DEF Of, all
    <3>2. /\ <<[what |-> "entries", p |-> m.bound.p]>> \in Seq(Of(all))
          /\ <<[what |-> "proposals", p |-> m.bound.p]>> \in Seq(Of(all))
      BY <3>1
    <3>3. <<[what |-> "entries", p |-> m.bound.p]>> \o <<[what |-> "proposals", p |-> m.bound.p]>> \in Seq(Of(all))
      BY <3>2
    <3> QED
      BY <3>2, <3>3 DEF Refreshes
  <2> HIDE DEF Of, all, more
  <2>4. reads \in Seq(Of(all))
    BY <2>1, <2>2
  <2>5. reads \o more \in Seq(Of(all))
    BY <2>3, <2>4
  <2> QED
    BY <2>5 DEF Backlog, Of, more
<1> QED
  BY <1>1, <1>2, <1>3

LEMMA LooksAre ==
  ASSUME NEW queue, Waits(queue), NEW stock, Stocked(stock), NEW k, Tells(k, stock), NEW tab
  PROVE  /\ Waits(Looked(queue, k, tab)) /\ Waits(QueueMissing(queue, k, tab))
         /\ \A s \in Skills : \A starter : Waits(QueuePreview(queue, k, s, starter, tab))
<1>1. ASSUME NEW s \in Skills, NEW starter
      PROVE  Waits(QueuePreview(queue, k, s, starter, tab))
  <2> DEFINE t == PreviewTarget(k, s, starter)
             there == InLibrary(k, s) /\ PreviewCurrent(t, k, tab, stopping)
                      /\ ~(InFlight /\ pending.kind = "preview" /\ pending.target = t)
  <2>1. InLibrary(k, s) => t.s \in Skills /\ t.v \in Nat \ {0}
    BY <1>1, ListedIs DEF PreviewTarget
  <2>2. Awaited(IF there THEN t ELSE None)
    BY <2>1 DEF Awaited, Wanted
  <2>3. QueuePreview(queue, k, s, starter, tab) = [queue EXCEPT !.preview = IF there THEN t ELSE None]
    BY DEF QueuePreview
  <2> HIDE DEF there, t
  <2> QED
    BY <2>2, <2>3, QueuesAre
<1>2. Waits(QueueMissing(queue, k, tab))
  BY <1>1 DEF QueueMissing, Tells, Shows
<1> QED
  BY <1>1, <1>2 DEF Looked

(* The slot and the queue as most steps leave them *)
Quietly == Slot(pending', store.skills) /\ Waits(deferred')

LEMMA WaitingIs ==
  ASSUME AInv, Running
  PROVE  /\ UNCHANGED hostVars => Quietly
         /\ \A queue : Waits(queue) =>
              /\ \A m, intent, p, command : Queue(m, intent, p, command, queue) => Quietly
              /\ \A r, read, slot : Slot(slot, store.skills) /\ Read(r, read, slot, queue) => Quietly
         /\ \A m, what, key : Ask(m, what, key) => Quietly
         /\ \A r, read : ReadNow(r, read) => Quietly
         /\ \A r : QueueMissingDetail(r) => Waits(deferred')
<1>1. Slot(pending, store.skills) /\ Waits(deferred)
  BY ThereIs
<1>2. UNCHANGED hostVars => Quietly
  BY <1>1 DEF hostVars, Quietly
<1>3. ASSUME NEW queue, Waits(queue), NEW m, NEW intent, NEW p, NEW command,
             Queue(m, intent, p, command, queue)
      PROVE  Quietly
  <2>1. \/ deferred' = queue
        \/ \E x : deferred' = [queue EXCEPT !.again = x]
    BY <1>3 DEF Queue
  <2>2. \/ pending' = pending
        \/ pending' = [kind |-> "memory", intent |-> intent, p |-> p, command |-> command]
    BY <1>3 DEF Queue
  <2>3. Waits(queue) /\ \A x : Waits([queue EXCEPT !.again = x])
    BY <1>3, QueuesAre
  <2>5. Waits(deferred')
    BY <2>1, <2>3
  <2>4. Slot(pending', store.skills)
    BY <1>1, <2>2 DEF Slot
  <2> QED
    BY <2>4, <2>5 DEF Quietly
<1>4. ASSUME NEW queue, Waits(queue), NEW r, NEW read, NEW slot, Slot(slot, store.skills),
             Read(r, read, slot, queue)
      PROVE  Quietly
  <2>1. pending' \in {slot, ReadRequest(r, read)}
        /\ deferred' \in {queue, [queue EXCEPT !.profile = ReadRequest(r, read)]}
    BY <1>4 DEF Read
  <2> QED
    BY <1>4, <2>1, ReadsAre, QueuesAre DEF Quietly
<1>5. \A m, what, key : Ask(m, what, key) => Quietly
  BY <1>1, <1>3 DEF Ask
<1>6. \A r, read : ReadNow(r, read) => Quietly
  BY <1>1, <1>4 DEF ReadNow
<1>7. \A r : QueueMissingDetail(r) => Waits(deferred')
  BY <1>1, ReadsAre, QueuesAre DEF QueueMissingDetail
<1> QED
  BY <1>2, <1>3, <1>4, <1>5, <1>6, <1>7

(* A step that has nothing to do with the tab *)
LEMMA ElsewhereStep ==
  ASSUME AInv, Running, UNCHANGED shelf, UNCHANGED store \/ Grows(store, store'), Quietly
  PROVE  AInv'
BY ThereIs, AssignmentStep DEF Quietly

LEMMA AgentKeysTell ==
  ASSUME AInv, UNCHANGED shelf, AgentKeys \/ RunDeferredProfile \/ ProfileAnswered
  PROVE  AInv'
<1>1. Running /\ UNCHANGED store
  BY KeyIsRunning DEF AgentKeys, RunDeferredProfile, ProfileAnswered, Pending, rosterVars,
     OpenAgent, AwaitDetail, Back, Tab, SelectAgent, OpenHistory, ShowPast, PickPast, OpenSkillPanel,
     AgentsKey, OnDetail
<1>2. CASE AgentKeys
  <2>1. ASSUME NEW q, SelectAgent(q)
        PROVE  Quietly
    <3>1. \E r : Read(r, "detail", Retargeted(r, pending), Retarget(r, deferred))
      BY <2>1 DEF SelectAgent
    <3> QED
      BY <1>1, <3>1, ThereIs, ReadsAre, QueuesAre, WaitingIs
  <2>2. ASSUME OpenAgent \/ AwaitDetail \/ Back \/ Tab \/ OpenHistory \/ ShowPast \/ OpenSkillPanel
        PROVE  Quietly
    <3>1. UNCHANGED hostVars \/ \E read : ReadNow(roster, read)
      BY <2>2 DEF OpenAgent, AwaitDetail, Back, Tab, OpenHistory, ShowPast, OpenSkillPanel
    <3> QED
      BY <1>1, <3>1, WaitingIs
  <2>3. ASSUME NEW v, PickPast(v)
        PROVE  Quietly
    <3>1. /\ pending' = StaleTarget(pending)
          /\ deferred' = [deferred EXCEPT !.profile = StaleTarget(deferred.profile)]
      BY <2>3 DEF PickPast
    <3>2. ReadOnly(deferred.profile)
      BY <1>1, ThereIs DEF Waits
    <3> QED
      BY <1>1, <3>1, <3>2, ThereIs, ReadsAre, QueuesAre DEF Quietly
  <2> QED
    BY <1>1, <1>2, <2>1, <2>2, <2>3, ElsewhereStep DEF AgentKeys
<1>3. CASE RunDeferredProfile
  <2>1. /\ deferred' = [deferred EXCEPT !.profile = None]
        /\ pending' \in {deferred.profile, None}
    BY <1>3 DEF RunDeferredProfile
  <2>2. ReadOnly(deferred.profile) /\ ReadOnly(None)
    BY <1>1, ThereIs DEF Waits, ReadOnly
  <2>3. Quietly
    BY <1>1, <2>1, <2>2, ThereIs, ReadsAre, QueuesAre DEF Quietly
  <2> QED
    BY <1>1, <2>3, ElsewhereStep
<1>4. CASE ProfileAnswered
  <2>1. Quietly
    BY <1>1, <1>4, ThereIs, ReadsAre DEF ProfileAnswered, Quietly
  <2> QED
    BY <1>1, <2>1, ElsewhereStep
<1> QED
  BY <1>2, <1>3, <1>4

-----------------------------------------------------------------------------
(* The memory of an agent, and its form *)

LEMMA NoteKeysTell ==
  ASSUME AInv, UNCHANGED shelf, NoteKeys \/ MemoryAnswers \/ RunDeferredMemory
  PROVE  AInv'
<1>1. Running
  BY KeyIsRunning DEF NoteKeys, OpenMemory, OpenNote, LeaveLayer, PickNote, OpenCreate, OpenEdit,
     BackInEditor, SubmitTags, NameDraft, WriteDraft, RequestDelete, ConfirmReview, LeaveConfirmation,
     Execute, CancelReview, OpenNoteHistory, OpenVersion, PickVersion, OpenProposals, OpenSuggestion,
     RequestResolution, PickSuggestion, ChooseResolution, OpenEpisodes, OpenEpisode, PickEpisode,
     OnDetail, AgentsKey, OnLayer, EnterOn, Leaving, EditorKey, Editing, MemoryAnswers, ReadAnswered,
     MutationAnswered, MutationRefused, Pending, RunDeferredMemory
<1>2. ASSUME (\E m : View(m)) \/ (UNCHANGED hostVars /\ UNCHANGED store)
             \/ UNCHANGED <<pending, deferred, store>>
      PROVE  AInv'
  <2>1. UNCHANGED store /\ UNCHANGED pending /\ UNCHANGED deferred
    BY <1>2 DEF View, hostVars
  <2>2. Quietly
    BY <1>1, <2>1, ThereIs DEF Quietly
  <2> QED
    BY <1>1, <2>1, <2>2, ElsewhereStep
<1>3. ASSUME \/ \E m, what, key : Ask(m, what, key)
             \/ \E m, intent, p, command : Queue(m, intent, p, command, deferred)
             \/ \E m, intent, p, command :
                   deferred.memory # <<>> /\ Queue(m, intent, p, command, [deferred EXCEPT !.memory = Tail(@)])
      PROVE  AInv'
  <2>1. UNCHANGED store
    BY <1>3 DEF Ask, Queue
  <2>2. Waits(deferred) /\ (deferred.memory # <<>> => Waits([deferred EXCEPT !.memory = Tail(deferred.memory)]))
    BY <1>1, ThereIs, QueuesAre, BacklogsAre DEF Waits
  <2>3. Quietly
    BY <1>1, <1>3, <2>2, WaitingIs
  <2> QED
    BY <1>1, <2>1, <2>3, ElsewhereStep
<1>4. CASE OpenMemory \/ OpenNote \/ OpenProposals \/ OpenSuggestion \/ OpenEpisodes \/ OpenEpisode
           \/ OpenNoteHistory \/ OpenVersion \/ Execute
  BY <1>3, <1>4 DEF OpenMemory, OpenNote, OpenProposals, OpenSuggestion, OpenEpisodes, OpenEpisode,
     OpenNoteHistory, OpenVersion, Execute
<1>5. CASE LeaveLayer \/ OpenCreate \/ OpenEdit \/ BackInEditor \/ ConfirmReview \/ LeaveConfirmation
  BY <1>2, <1>5 DEF LeaveLayer, OpenCreate, OpenEdit, BackInEditor, ConfirmReview, LeaveConfirmation
<1>6. ASSUME NEW x, PickNote(x) \/ NameDraft(x) \/ WriteDraft(x) \/ PickVersion(x) \/ PickSuggestion(x)
             \/ ChooseResolution(x) \/ PickEpisode(x)
      PROVE  AInv'
  BY <1>2, <1>6 DEF PickNote, NameDraft, WriteDraft, PickVersion, PickSuggestion, ChooseResolution, PickEpisode
<1>7. CASE SubmitTags \/ RequestDelete \/ RequestResolution \/ CancelReview
  BY <1>2, <1>7 DEF SubmitTags, RequestDelete, RequestResolution, CancelReview
<1>8. CASE ReadAnswered \/ MutationRefused
  <2>1. Quietly /\ UNCHANGED store
    BY <1>1, <1>8, ThereIs, ReadsAre DEF ReadAnswered, MutationRefused, Quietly
  <2> QED
    BY <1>1, <2>1, ElsewhereStep
<1>9. CASE MutationAnswered
  <2>1. Stocked(store) /\ Waits(deferred)
    BY <1>1, ThereIs
  <2> DEFINE c == pending.command
  <2>2. store' = CarriedOut(c)
    BY <1>9 DEF MutationAnswered
  <2> HIDE DEF c
  <2>3. \/ \E x, y : store' = [store EXCEPT !.notes = x, !.sugs = y]
        \/ \E y : store' = [store EXCEPT !.sugs = y]
    BY <2>2 DEF CarriedOut
  <2>4. /\ {"version", "skills", "uses"} \subseteq DOMAIN store'
        /\ store'.version = store.version /\ store'.skills = store.skills /\ store'.uses = store.uses
    BY <2>1, <2>3 DEF Stocked
  <2>5. Stocked(store') /\ Grows(store, store)
    BY <2>1, <2>4, StaysGrown DEF Stocked
  <2>6. Grows(store, store')
    BY <2>4, <2>5 DEF Grows
  <2>7. /\ pending' = None
        /\ \/ deferred' = deferred
           \/ deferred' = [deferred EXCEPT !.memory = deferred.memory \o Refreshes(mem, pending.command)]
    BY <1>9 DEF MutationAnswered
  <2>8. Waits([deferred EXCEPT !.memory = deferred.memory \o Refreshes(mem, pending.command)])
    BY <2>1, QueuesAre, BacklogsAre DEF Waits
  <2>9. Quietly
    BY <2>1, <2>7, <2>8, ReadsAre DEF Quietly
  <2> QED
    BY <1>1, <2>6, <2>9, ElsewhereStep
<1>10. CASE RunDeferredMemory
  <2>1. \E m, intent, p, command :
           deferred.memory # <<>> /\ Queue(m, intent, p, command, [deferred EXCEPT !.memory = Tail(@)])
    BY <1>10 DEF RunDeferredMemory
  <2> QED
    BY <1>3, <2>1
<1> QED
  BY <1>4, <1>5, <1>6, <1>7, <1>8, <1>9, <1>10 DEF NoteKeys, MemoryAnswers

(* Another version of an agent says nothing yet of the skills it uses. *)
LEMMA DeskKeysTell ==
  ASSUME IInv, AInv, UNCHANGED shelf, DeskForms \/ DeskTyping
  PROVE  AInv'
<1>1. Running
  BY KeyIsRunning DEF DeskForms, DeskTyping, ResumeDraft, EditAgent, LeavePage, OpenDiscard, Discard,
     OpenReview, AskAgain, Propose, DeclineCommand, ConfirmCommand, NewAgent, ChooseTemplate,
     EditNamedAgent, OpenField, ChooseRole, TypeField, OnPage, InForm, Asked, OnAgent, OnList, OnDetail,
     AgentsKey
<1>2. ASSUME UNCHANGED <<store, pending>>,
             \/ UNCHANGED deferred
             \/ \E r : QueueMissingDetail(r)
      PROVE  AInv'
  <2>1. Quietly
    BY <1>1, <1>2, ThereIs, WaitingIs DEF Quietly
  <2> QED
    BY <1>1, <1>2, <2>1, ElsewhereStep
<1>3. ASSUME NEW e, Preview(e)
      PROVE  AInv'
  <2>1. UNCHANGED <<store, pending>>
    BY <1>3 DEF Preview
  <2>2. \E r : QueueMissingDetail(r)
    BY <1>3 DEF Preview, Outdated
  <2> QED
    BY <1>2, <2>1, <2>2
<1>4. CASE ResumeDraft \/ LeavePage \/ OpenDiscard \/ Propose \/ DeclineCommand \/ ChooseTemplate \/ Discard
           \/ NewAgent
  BY <1>2, <1>4 DEF ResumeDraft, LeavePage, OpenDiscard, Propose, DeclineCommand, ChooseTemplate, Discard,
     NewAgent, ChangeForm, hostVars, rosterVars
<1>5. ASSUME NEW x, NEW y, OpenField(x) \/ ChooseRole(x) \/ TypeField(x, y) \/ EditNamedAgent(x)
      PROVE  AInv'
  BY <1>2, <1>5 DEF OpenField, ChooseRole, TypeField, EditNamedAgent, ChangeForm, hostVars, rosterVars
<1>6. CASE EditAgent
  <2>1. CASE ReadNow(roster, "detail") /\ UNCHANGED store
    BY <1>1, <2>1, WaitingIs, ElsewhereStep
  <2> QED
    BY <1>2, <1>6, <2>1 DEF EditAgent
<1>7. CASE OpenReview \/ AskAgain
  BY <1>2, <1>3, <1>7 DEF OpenReview, AskAgain, ChangeForm, hostVars, rosterVars
<1>8. CASE ConfirmCommand
  <2>1. ASSUME NEW c, NEW p \in Profiles, Made(c, p), UNCHANGED pending
        PROVE  AInv'
    <3>1. store' = [store EXCEPT !.version[p] = @ + 1]
      BY <2>1 DEF Made
    <3>2. Stocked(store) /\ store.version[p] \in Nat
      BY <1>1, ThereIs DEF Stocked, Versions
    <3>3. /\ {"version", "skills", "uses"} \subseteq DOMAIN store'
          /\ store'.version = [store.version EXCEPT ![p] = @ + 1]
          /\ store'.skills = store.skills /\ store'.uses = store.uses
      BY <3>1, <3>2 DEF Stocked
    <3>4. store'.version \in Versions /\ \A q \in Profiles : store.version[q] <= store'.version[q]
      BY <3>2, <3>3 DEF Stocked, Versions
    <3>5. Stocked(store') /\ Grows(store, store)
      BY <3>2, <3>3, <3>4, StaysGrown DEF Stocked
    <3>6. Grows(store, store')
      BY <3>3, <3>4, <3>5 DEF Grows
    <3>7. UNCHANGED deferred \/ \E r : QueueMissingDetail(r)
      BY <2>1 DEF Made
    <3>8. Quietly
      BY <1>1, <2>1, <3>7, ThereIs, WaitingIs DEF Quietly
    <3> QED
      BY <1>1, <3>6, <3>8, ElsewhereStep
  <2>2. \/ \E p \in Profiles : Made(desk.confirmation, p)
        \/ Made(desk.confirmation, desk.confirmation.of) /\ desk.confirmation.mode = "edit"
        \/ UNCHANGED store /\ \E r : QueueMissingDetail(r)
    BY <1>8 DEF ConfirmCommand, Outdated
  <2>3. UNCHANGED pending
    BY <1>8 DEF ConfirmCommand
  <2>4. desk.confirmation.mode = "edit" => desk.confirmation.of \in Profiles
    BY <1>1, <1>8, RunningIs DEF ConfirmCommand, Asked, DeskForm, Faithful
  <2> QED
    BY <1>2, <2>1, <2>2, <2>3, <2>4
<1> QED
  BY <1>4, <1>5, <1>6, <1>7, <1>8 DEF DeskForms, DeskTyping

(* The end that was asked for *)
LEMMA QuitTells ==
  ASSUME AInv, UNCHANGED <<shelf, store>>, Quit \/ SubmitQueuedShutdown
  PROVE  AInv'
<1>1. Running /\ Waits(deferred) /\ Slot(pending, store.skills)
  BY KeyIsRunning, ThereIs DEF Quit, SubmitQueuedShutdown
<1>2. Awaited(None)
  BY DEF Awaited
<1>3. Waits(deferred')
  <2>1. CASE Quit
    <3> DEFINE queue == [deferred EXCEPT !.quit = InFlight]
    <3>1. Waits(queue)
      BY <1>1, QueuesAre
    <3>2. deferred' = [queue EXCEPT !.preview = None]
      BY <2>1 DEF Quit
    <3> HIDE DEF queue
    <3> QED
      BY <1>2, <3>1, <3>2, QueuesAre
  <2>2. CASE SubmitQueuedShutdown
    BY <1>1, <2>2, QueuesAre DEF SubmitQueuedShutdown
  <2> QED
    BY <2>1, <2>2
<1>4. Quietly
  BY <1>1, <1>3, ReadsAre DEF Quit, SubmitQueuedShutdown, Quietly
<1> QED
  BY <1>1, <1>4, ElsewhereStep

-----------------------------------------------------------------------------
(* The keys of the tab *)

LEMMA ShelfKeyIs ==
  /\ OnShelf => Running
  /\ \A pane : ShelfKey(pane) => Running
  /\ OnSkill => Running /\ shelf.detail # None
  /\ \A page : SkillPage(page) => Running
  /\ OnNotes => Running
  /\ SkillAsked => Running
  /\ ShelfKey("History") => shelf.pane = "History"
BY KeyIsRunning DEF OnShelf, ShelfKey, OnSkill, SkillPage, OnNotes, SkillAsked, ShelfInteraction

LEMMA ShelveTells ==
  ASSUME AInv, Running, NEW k, Tells(k, store), Shelve(k)
  PROVE  AInv'
<1>1. shelf' = k /\ deferred' = Looked(deferred, k, roster.tab) /\ UNCHANGED <<pending, store>>
  BY DEF Shelve, rosterVars
<1>2. Waits(deferred')
  BY <1>1, ThereIs, LooksAre
<1> QED
  BY <1>1, <1>2, ThereIs, AssignmentStep

LEMMA AgreesShelve ==
  ASSUME AInv, Running, NEW k, Agrees(shelf, k), Shelve(k)
  PROVE  AInv'
BY ThereIs, AgreesTells, ShelveTells

LEMMA TabFields ==
  ASSUME NEW stock, NEW k, Tells(k, stock)
  PROVE  LibraryFields \subseteq DOMAIN k
BY DEF Tells, Shows

LEMMA BrowsingTells ==
  ASSUME AInv,
         \/ OpenSkill \/ TabOnShelf \/ OpenSkillHistory \/ OpenSkillVersion
         \/ ResumeSkillDraft \/ OpenSources
         \/ \E i \in 0 .. MaxSkillVersion : PickSkillVersion(i)
  PROVE  AInv'
<1>0. Running
  BY ShelfKeyIs DEF OpenSkill, TabOnShelf, OpenSkillHistory, OpenSkillVersion, ResumeSkillDraft, OpenSources,
     PickSkillVersion
<1>1. /\ Stocked(store) /\ Tells(shelf, store) /\ LibraryFields \subseteq DOMAIN shelf
      /\ shelf.sel \in Skills
  BY <1>0, ThereIs DEF Tells, Shows
<1>2. CASE OpenSkill
  <2> DEFINE there == [shelf EXCEPT !.focus = "Workspace"]
             shown == WithSkill(there, Ref(shelf.sel, store.skills[shelf.sel]))
             read == [shown EXCEPT !.made = IF @ = shelf.sel THEN None ELSE @]
  <2>1. Shelve(Presented(read, "Detail")) /\ InLibrary(shelf, shelf.sel)
    BY <1>2 DEF OpenSkill, Fetched
  <2>2. Ref(shelf.sel, store.skills[shelf.sel]) \in Offers(store.skills)
    BY <1>1, <2>1, ListedIs
  <2>3. Tells(there, store)
    BY <1>1, FieldsAgree, AgreesTells
  <2> HIDE DEF there
  <2>4. Tells(shown, store) /\ LibraryFields \subseteq DOMAIN shown
    BY <2>2, <2>3, ShownTells, TabFields
  <2> HIDE DEF shown
  <2>5. Agrees(shown, read)
    BY <2>4 DEF Agrees, LibraryFields
  <2>6. Tells(read, store) /\ LibraryFields \subseteq DOMAIN read
    BY <2>4, <2>5, AgreesTells, TabFields
  <2> HIDE DEF read
  <2>7. Tells(Presented(read, "Detail"), store)
    BY <2>6, FieldsAgree, AgreesTells
  <2> QED
    BY <1>0, <2>1, <2>7, ShelveTells
<1>3. CASE TabOnShelf
  <2>1. \E x, y : Shelve([shelf EXCEPT !.focus = x, !.pane = y])
    BY <1>3 DEF TabOnShelf
  <2> QED
    BY <1>0, <1>1, <2>1, FieldsAgree, AgreesShelve
<1>4. CASE OpenSkillHistory
  <2> DEFINE ref == Ref(shelf.detail.s, store.skills[shelf.detail.s])
             read == WithSkillHistory(shelf, ref)
  <2>1. Shelve(Presented(read, "History")) /\ shelf.detail # None
    BY <1>4, ShelfKeyIs DEF OpenSkillHistory, Fetched
  <2>2. ref \in Offers(store.skills)
    <3>1. shelf.detail.s \in Skills /\ shelf.detail.v \in Nat
          /\ shelf.detail.v \in 1 .. store.skills[shelf.detail.s]
      BY <1>1, <2>1 DEF Tells, Shows, Offers
    <3>2. store.skills[shelf.detail.s] \in Nat
      BY <1>1, <3>1 DEF Stocked
    <3>3. store.skills[shelf.detail.s] \in 1 .. store.skills[shelf.detail.s]
      BY <3>1, <3>2
    <3> QED
      BY <1>1, <3>1, <3>3, OffersAre DEF Stocked
  <2> HIDE DEF ref
  <2>3. Tells(read, store) /\ LibraryFields \subseteq DOMAIN read
    BY <1>1, <2>2, ShownTells, TabFields
  <2> HIDE DEF read
  <2> QED
    BY <1>0, <2>1, <2>3, FieldsAgree, AgreesTells, ShelveTells
<1>5. CASE OpenSkillVersion
  <2> DEFINE read == WithSkillVersion(shelf, SelectedRef(shelf))
  <2>1. Shelve(Presented(read, "Detail")) /\ shelf.pane = "History" /\ shelf.history # None
    BY <1>5, ShelfKeyIs DEF OpenSkillVersion, Fetched
  <2>2. Tells(read, store) /\ LibraryFields \subseteq DOMAIN read
    BY <1>1, <2>1, ChosenIs, ShownTells, TabFields
  <2> HIDE DEF read
  <2> QED
    BY <1>0, <2>1, <2>2, FieldsAgree, AgreesTells, ShelveTells
<1>6. CASE ResumeSkillDraft
  <2>1. \E x, y, z : Shelve([shelf EXCEPT !.pane = x, !.page = y, !.focus = z])
    BY <1>6 DEF ResumeSkillDraft
  <2> QED
    BY <1>0, <1>1, <2>1, FieldsAgree, AgreesShelve
<1>7. CASE OpenSources
  <2> DEFINE k == [shelf EXCEPT !.pane = "CreateSource", !.source = None, !.sample = None, !.focus = "List"]
  <2>1. Shelve(k)
    BY <1>7 DEF OpenSources
  <2>2. Agrees(shelf, k)
    BY <1>1 DEF Agrees, LibraryFields
  <2> HIDE DEF k
  <2> QED
    BY <1>0, <2>1, <2>2, AgreesShelve
<1>8. ASSUME NEW i, PickSkillVersion(i)
      PROVE  AInv'
  <2> DEFINE k == [shelf EXCEPT !.past = i]
  <2>1. Shelve(k) /\ shelf.history # None /\ i \in 0 .. shelf.history.v - 1
    BY <1>8 DEF PickSkillVersion
  <2>2. /\ LibraryFields \subseteq DOMAIN k
        /\ k.sel = shelf.sel /\ k.rows = shelf.rows /\ k.detail = shelf.detail /\ k.history = shelf.history
        /\ k.past = i /\ k.source = shelf.source /\ k.made = shelf.made
        /\ k.assignment = shelf.assignment /\ k.confirmation = shelf.confirmation
    BY <1>1 DEF LibraryFields
  <2> HIDE DEF k
  <2>3. Shows(k, store.skills)
    BY <1>1, <2>1, <2>2 DEF Tells, Shows
  <2>4. Classified(k) /\ Promised(k, store)
    BY <1>1, <2>2 DEF Tells, Classified, Promised
  <2> QED
    BY <1>0, <2>1, <2>3, <2>4, ShelveTells DEF Tells
<1> QED
  BY <1>2, <1>3, <1>4, <1>5, <1>6, <1>7, <1>8

LEMMA PickingTells ==
  ASSUME AInv, (\E s \in Skills : PickSkill(s)) \/ (\E s \in Skills \cup {None} : PickSource(s))
  PROVE  AInv'
<1>1. ASSUME NEW s \in Skills, PickSkill(s)
      PROVE  AInv'
  <2> DEFINE there == [shelf EXCEPT !.sel = s]
             k == NoContext(there)
  <2>1. /\ Running /\ shelf' = k /\ deferred' = QueuePreview(deferred, k, s, FALSE, "skills")
        /\ UNCHANGED <<pending, store>>
    BY <1>1, ShelfKeyIs DEF PickSkill, rosterVars
  <2>2. Tells(shelf, store)
    BY <2>1, ThereIs
  <2>3. /\ LibraryFields \subseteq DOMAIN there
        /\ there.sel = s /\ there.rows = shelf.rows /\ there.detail = shelf.detail
        /\ there.history = shelf.history /\ there.past = shelf.past /\ there.source = shelf.source
        /\ there.made = shelf.made /\ there.assignment = shelf.assignment
        /\ there.confirmation = shelf.confirmation
    BY <2>2 DEF LibraryFields, Tells, Shows
  <2> HIDE DEF there
  <2>4. Shows(there, store.skills) /\ Classified(there) /\ Promised(there, store)
    BY <1>1, <2>2, <2>3 DEF Tells, Shows, Classified, Promised
  <2>5. Tells(k, store)
    BY <2>3, <2>4, FieldsAgree, AgreesTells DEF Tells
  <2> HIDE DEF k
  <2>6. Waits(deferred')
    BY <1>1, <2>1, <2>5, ThereIs, LooksAre
  <2> QED
    BY <2>1, <2>5, <2>6, ThereIs, AssignmentStep
<1>2. ASSUME NEW s \in Skills \cup {None}, PickSource(s)
      PROVE  AInv'
  <2> DEFINE k == [shelf EXCEPT !.source = s, !.sample = None]
  <2>1. /\ Running /\ shelf' = k /\ UNCHANGED <<pending, store>>
        /\ deferred' = IF s = None THEN deferred ELSE QueuePreview(deferred, k, s, TRUE, "skills")
        /\ s # None => InLibrary(shelf, s)
    BY <1>2, ShelfKeyIs DEF PickSource, rosterVars
  <2>2. Tells(shelf, store)
    BY <2>1, ThereIs
  <2>3. /\ LibraryFields \subseteq DOMAIN k
        /\ k.sel = shelf.sel /\ k.rows = shelf.rows /\ k.detail = shelf.detail
        /\ k.history = shelf.history /\ k.past = shelf.past /\ k.source = s
        /\ k.made = shelf.made /\ k.assignment = shelf.assignment
        /\ k.confirmation = shelf.confirmation
    BY <2>2 DEF LibraryFields, Tells, Shows
  <2> HIDE DEF k
  <2>4. Shows(k, store.skills) /\ Classified(k) /\ Promised(k, store)
    BY <1>2, <2>1, <2>2, <2>3 DEF Tells, Shows, Classified, Promised, InLibrary
  <2>5. Tells(k, store)
    BY <2>4 DEF Tells
  <2>6. Waits(deferred')
    BY <1>2, <2>1, <2>5, ThereIs, LooksAre
  <2> QED
    BY <2>1, <2>5, <2>6, ThereIs, AssignmentStep
<1> QED
  BY <1>1, <1>2

LEMMA StartingTells ==
  ASSUME AInv, StartSkill \/ StartVersion
  PROVE  AInv'
<1> DEFINE there == [shelf EXCEPT !.focus = "Workspace"]
<1>0. Running
  BY ShelfKeyIs DEF StartSkill, StartVersion
<1>1. Stocked(store) /\ Tells(shelf, store) /\ Tells(there, store) /\ Agrees(shelf, there)
      /\ LibraryFields \subseteq DOMAIN there
  BY <1>0, ThereIs, TabFields, FieldsAgree, AgreesTells
<1>2. CASE StartSkill
  <2> DEFINE seed == Ref(shelf.source, shelf.rows[shelf.source])
             seeded == WithSkillVersion(there, seed)
  <2>1. \/ \E e : Shelve(WithForm(there, e))
        \/ shelf.source # None /\ \E e : Shelve(WithForm(seeded, e))
    BY <1>2 DEF StartSkill, Fetched
  <2> HIDE DEF there
  <2>2. ASSUME NEW e, Shelve(WithForm(there, e))
        PROVE  AInv'
    BY <1>0, <1>1, <2>2, FieldsAgree, AgreesTells, ShelveTells
  <2>3. ASSUME shelf.source # None, NEW e, Shelve(WithForm(seeded, e))
        PROVE  AInv'
    <3>1. shelf.source \in Skills /\ InLibrary(shelf, shelf.source)
      BY <1>1, <2>3 DEF Tells, Shows, InLibrary
    <3>2. seed \in Offers(store.skills)
      BY <1>1, <3>1, ListedIs
    <3> HIDE DEF seed
    <3>3. Tells(seeded, store) /\ LibraryFields \subseteq DOMAIN seeded
      BY <1>1, <3>2, ShownTells, TabFields
    <3> HIDE DEF seeded
    <3> QED
      BY <1>0, <2>3, <3>3, FieldsAgree, AgreesTells, ShelveTells
  <2> QED
    BY <2>1, <2>2, <2>3
<1>3. CASE StartVersion
  <2>1. \E e : Shelve(WithForm(there, e))
    BY <1>3 DEF StartVersion
  <2> HIDE DEF there
  <2> QED
    BY <1>0, <1>1, <2>1, FieldsAgree, AgreesTells, ShelveTells
<1> QED
  BY <1>2, <1>3

LEMMA PreviewsTell ==
  ASSUME AInv, StartPreview \/ PreviewAnswered
  PROVE  AInv'
<1>0. Running
  BY KeyIsRunning DEF StartPreview, PreviewAnswered, Pending
<1>1. Stocked(store) /\ Tells(shelf, store) /\ LibraryFields \subseteq DOMAIN shelf /\ Waits(deferred)
      /\ Slot(pending, store.skills)
  BY <1>0, ThereIs, TabFields
<1>2. CASE StartPreview
  <2>1. /\ deferred' = [deferred EXCEPT !.preview = None]
        /\ pending' \in {pending, [kind |-> "preview", target |-> deferred.preview]}
        /\ UNCHANGED <<shelf, store>>
    BY <1>2 DEF StartPreview, rosterVars
  <2>2. Awaited(None) /\ Wanted(deferred.preview)
    BY <1>1, <1>2 DEF StartPreview, Awaited, Waits
  <2>3. Slot([kind |-> "preview", target |-> deferred.preview], store.skills)
    BY <2>2 DEF Slot
  <2>4. Quietly
    BY <1>1, <2>1, <2>2, <2>3, QueuesAre DEF Quietly
  <2> QED
    BY <1>0, <2>1, <2>4, ElsewhereStep
<1>3. CASE PreviewAnswered
  <2> DEFINE t == pending.target
  <2>1. pending' = None /\ UNCHANGED <<deferred, store>> /\ pending # None /\ pending.kind = "preview"
    BY <1>3 DEF PreviewAnswered, rosterVars, Pending, Free, InFlight
  <2>2. \/ shelf' = shelf
        \/ shelf' = [shelf EXCEPT !.sample = Ref(t.s, t.v)]
        \/ PreviewCurrent(t, shelf, roster.tab, stopping) /\ shelf' = [shelf EXCEPT !.detail = Ref(t.s, t.v)]
    BY <1>3 DEF PreviewAnswered
  <2> HIDE DEF t
  <2>3. ASSUME PreviewCurrent(t, shelf, roster.tab, stopping)
        PROVE  Tells([shelf EXCEPT !.detail = Ref(t.s, t.v)], store)
    <3> DEFINE k == [shelf EXCEPT !.detail = Ref(t.s, t.v)]
    <3>1. shelf.rows[t.s] = t.v
      BY <2>3 DEF PreviewCurrent
    <3>2. t.s \in Skills /\ t.v \in Nat \ {0}
      BY <1>1, <2>1 DEF Slot, Wanted, t
    <3>3. InLibrary(shelf, t.s)
      BY <3>1, <3>2 DEF InLibrary
    <3>4. Ref(t.s, t.v) \in Offers(store.skills)
      BY <1>1, <3>1, <3>2, <3>3, ListedIs
    <3>5. /\ LibraryFields \subseteq DOMAIN k
          /\ k.sel = shelf.sel /\ k.rows = shelf.rows /\ k.detail = Ref(t.s, t.v)
          /\ k.history = shelf.history /\ k.past = shelf.past /\ k.source = shelf.source
          /\ k.made = shelf.made /\ k.assignment = shelf.assignment
          /\ k.confirmation = shelf.confirmation
      BY <1>1 DEF LibraryFields
    <3> HIDE DEF k
    <3>6. Shows(k, store.skills) /\ Classified(k) /\ Promised(k, store)
      BY <1>1, <3>4, <3>5 DEF Tells, Shows, Classified, Promised
    <3> QED
      BY <3>6 DEF Tells, k
  <2>4. Tells(shelf', store)
    <3>1. Tells([shelf EXCEPT !.sample = Ref(t.s, t.v)], store)
      BY <1>1, FieldsAgree, AgreesTells
    <3> QED
      BY <1>1, <2>2, <2>3, <3>1
  <2> QED
    BY <1>0, <1>1, <2>1, <2>4, ReadsAre, AssignmentStep
<1> QED
  BY <1>2, <1>3

LEMMA WritingTells ==
  ASSUME AInv,
         \/ OpenSkillDiscard \/ NoteForms
         \/ \E f \in EditedSkillFields : OpenSkillField(f)
         \/ \E says \in {"old", "new", "bad"} : TypeSkill(says)
  PROVE  AInv'
<1>1. Running /\ \E e, page : ShelveForm(e, page)
  BY ShelfKeyIs DEF OpenSkillDiscard, NoteForms, OpenSkillField, TypeSkill, WriteSkillNote, RemoveSkillNote,
     OpenSkillNote, PutSkillNote
<1>2. LibraryFields \subseteq DOMAIN shelf
  BY <1>1, ThereIs, TabFields
<1> QED
  BY <1>1, <1>2, FieldsAgree, AgreesShelve DEF ShelveForm

-----------------------------------------------------------------------------
(* Reviews and assignments *)

(* A step that leaves the slot alone and looks for what is missing *)
LEMMA LookingStep ==
  ASSUME AInv, Running, UNCHANGED pending, UNCHANGED store \/ Grows(store, store'), Tells(shelf', store),
         NEW r, NEW tab, deferred' = Looked(Retarget(r, deferred), shelf', tab)
  PROVE  AInv'
<1>1. Waits(Retarget(r, deferred))
  BY ThereIs, QueuesAre
<1>2. Waits(deferred')
  BY <1>1, ThereIs, LooksAre
<1> QED
  BY <1>2, ThereIs, AssignmentStep

LEMMA CancelledTells ==
  ASSUME NEW k, Tells(k, store), Cancelled(k)
  PROVE  Tells(shelf', store)
<1>1. shelf' = [k EXCEPT !.registered = FALSE]
  BY DEF Cancelled
<1> QED
  BY <1>1, TabFields, FieldsAgree, AgreesTells

LEMMA RecoverTells ==
  ASSUME NEW k, Tells(k, store), Recover(k)
  PROVE  Tells(shelf', store) /\ UNCHANGED store
<1> DEFINE bare == [k EXCEPT !.confirmation = None]
           shown == IF k.editor # None
                    THEN [bare EXCEPT !.editor = K!NoReview(@), !.pane = "Editor"]
                    ELSE [bare EXCEPT !.pane = "Detail"]
<1>1. Agrees(k, bare)
  BY TabFields DEF Agrees, LibraryFields
<1> HIDE DEF bare
<1>2. Agrees(bare, shown)
  BY <1>1 DEF Agrees, LibraryFields
<1> HIDE DEF shown
<1>3. Agrees(shown, [shown EXCEPT !.origin = None]) /\ Agrees(shown, shown)
  BY <1>2, FieldsAgree DEF Agrees
<1>4. Recovered(k) = IF BackAtAgent(k) THEN [shown EXCEPT !.origin = None] ELSE shown
  BY DEF Recovered, shown, bare
<1>5. Agrees(k, Recovered(k))
  BY <1>1, <1>2, <1>3, <1>4, AgreesChain
<1>6. Tells(Recovered(k), store)
  BY <1>5, AgreesTells
<1> QED
  BY <1>6, CancelledTells DEF Recover

LEMMA UnwindTells ==
  ASSUME AInv, UnwindShelf
  PROVE  AInv'
<1>1. Running /\ UNCHANGED store
  BY ShelfKeyIs DEF UnwindShelf
<1>2. Tells(shelf, store) /\ LibraryFields \subseteq DOMAIN shelf /\ Slot(pending, store.skills)
      /\ Waits(deferred) /\ Stocked(store)
  BY <1>1, ThereIs, TabFields
<1>3. shelf' = [shelf EXCEPT !.origin = None] \/ \E x, y : shelf' = [shelf EXCEPT !.pane = x, !.focus = y]
  BY DEF UnwindShelf
<1>4. Agrees(shelf, shelf')
  <2>1. CASE shelf' = [shelf EXCEPT !.origin = None]
    BY <1>2, <2>1, FieldsAgree
  <2>2. ASSUME NEW x, NEW y, shelf' = [shelf EXCEPT !.pane = x, !.focus = y]
        PROVE  Agrees(shelf, shelf')
    <3>1. Agrees(shelf, [shelf EXCEPT !.pane = x, !.focus = y])
      BY <1>2, FieldsAgree
    <3> QED
      BY <2>2, <3>1
  <2> QED
    BY <1>3, <2>1, <2>2
<1>5. pending' \in {Retargeted(roster', Moved(pending)), Retargeted(roster', pending)}
      /\ deferred' = Looked(Retarget(roster', deferred), shelf', roster'.tab)
  BY DEF UnwindShelf
<1>6. Tells(shelf', store)
  BY <1>2, <1>4, AgreesTells
<1>7. Slot(pending', store.skills)
  BY <1>2, <1>5, ReadsAre
<1>8. Waits(Retarget(roster', deferred))
  BY <1>2, QueuesAre
<1>9. Waits(deferred')
  BY <1>2, <1>5, <1>6, <1>8, LooksAre
<1> QED
  BY <1>1, <1>6, <1>7, <1>9, AssignmentStep

LEMMA LeavingTells ==
  ASSUME AInv, LeaveSkillPage \/ DiscardSkill
  PROVE  AInv'
<1>1. Running
  BY ShelfKeyIs DEF LeaveSkillPage, DiscardSkill
<1>2. Tells(shelf, store) /\ LibraryFields \subseteq DOMAIN shelf /\ Slot(pending, store.skills)
      /\ Waits(deferred) /\ Stocked(store)
  BY <1>1, ThereIs, TabFields
<1>3. CASE LeaveSkillPage
  <2>1. \/ /\ \E x, y : Cancelled([shelf EXCEPT !.page = x, !.editor = y])
           /\ UNCHANGED <<pending, deferred, store>>
        \/ \E x : Shelve([shelf EXCEPT !.pane = x]) \/ Shelve([shelf EXCEPT !.page = x])
                  \/ \E y : Shelve([shelf EXCEPT !.page = x, !.editor = y])
    BY <1>3 DEF LeaveSkillPage, rosterVars
  <2>2. ASSUME NEW x, NEW y, Cancelled([shelf EXCEPT !.page = x, !.editor = y]),
               UNCHANGED <<pending, deferred, store>>
        PROVE  AInv'
    BY <1>1, <1>2, <2>2, FieldsAgree, AgreesTells, CancelledTells, AssignmentStep
  <2>3. ASSUME NEW x, NEW y, \/ Shelve([shelf EXCEPT !.pane = x]) \/ Shelve([shelf EXCEPT !.page = x])
                             \/ Shelve([shelf EXCEPT !.page = x, !.editor = y])
        PROVE  AInv'
    BY <1>1, <1>2, <2>3, FieldsAgree, AgreesShelve
  <2> QED
    BY <2>1, <2>2, <2>3
<1>4. CASE DiscardSkill
  <2> DEFINE k == [shelf EXCEPT !.editor = None, !.confirmation = None, !.pane = "Detail"]
  <2>1. Cancelled(k) /\ deferred' = Looked(deferred, shelf', roster.tab) /\ UNCHANGED <<pending, store>>
    BY <1>4 DEF DiscardSkill, rosterVars
  <2>2. Agrees(shelf, k)
    BY <1>2 DEF Agrees, LibraryFields
  <2> HIDE DEF k
  <2>3. Tells(shelf', store)
    BY <1>2, <2>1, <2>2, AgreesTells, CancelledTells
  <2>4. Waits(deferred')
    BY <1>2, <2>1, <2>3, LooksAre
  <2> QED
    BY <1>1, <1>2, <2>1, <2>3, <2>4, AssignmentStep
<1> QED
  BY <1>3, <1>4

LEMMA ReviewSkillTells ==
  ASSUME IInv, AInv, ReviewSkill
  PROVE  AInv'
<1> DEFINE e == K!AtReview(shelf.editor)
           asked == [shelf EXCEPT !.editor = K!PreviewAsked(e), !.page = "review"]
           k == [shelf EXCEPT !.editor = e, !.page = "review", !.from = "skills",
                        !.confirmation = [command |-> K!CommandOf(e), by |-> "editor"],
                        !.pane = "Confirmation"]
<1>1. Running /\ shelf.editor # None /\ SkillFaithful(shelf.editor)
  BY OnShelfIs DEF ReviewSkill
<1>2. SkillFaithful(e)
  BY <1>1, SkillEdits
<1>3. Tells(shelf, store) /\ LibraryFields \subseteq DOMAIN shelf
  BY <1>1, ThereIs, TabFields
<1>4. K!CommandOf(e).op # "assign"
  BY <1>2 DEF SkillFaithful, K!CommandOf
<1>5. \/ Shelve([shelf EXCEPT !.page = "review"])
      \/ Shelve(k)
      \/ /\ \/ \E x : shelf' = [asked EXCEPT !.editor = x, !.registered = TRUE] /\ UNCHANGED store
            \/ Recover(asked)
         /\ deferred' = Looked(Retarget(roster', deferred), shelf', roster'.tab)
         /\ UNCHANGED pending
  BY <1>3 DEF ReviewSkill, asked, LibraryFields
<1>6. Tells(asked, store) /\ LibraryFields \subseteq DOMAIN asked
  BY <1>3, FieldsAgree, AgreesTells, TabFields
<1>7. /\ LibraryFields \subseteq DOMAIN k
      /\ k.sel = shelf.sel /\ k.rows = shelf.rows /\ k.detail = shelf.detail
      /\ k.history = shelf.history /\ k.past = shelf.past /\ k.source = shelf.source
      /\ k.made = shelf.made /\ k.assignment = shelf.assignment
      /\ k.confirmation = [command |-> K!CommandOf(e), by |-> "editor"]
  BY <1>3 DEF LibraryFields
<1> HIDE DEF k, asked, e
<1>8. Tells(k, store)
  <2>1. Shows(k, store.skills) /\ Classified(k)
    BY <1>3, <1>7 DEF Tells, Shows, Classified
  <2>2. k.confirmation.command = K!CommandOf(e) /\ k.confirmation.by = "editor"
    BY <1>7
  <2>3. Promised(k, store)
    BY <1>4, <2>2 DEF Promised
  <2> QED
    BY <2>1, <2>3 DEF Tells
<1>9. ASSUME NEW x, shelf' = [asked EXCEPT !.editor = x, !.registered = TRUE]
      PROVE  Tells(shelf', store)
  <2>1. Agrees(asked, shelf')
    BY <1>6, <1>9 DEF Agrees, LibraryFields
  <2> QED
    BY <1>6, <2>1, AgreesTells
<1>10. CASE Shelve([shelf EXCEPT !.page = "review"]) \/ Shelve(k)
  BY <1>1, <1>3, <1>8, <1>10, FieldsAgree, AgreesShelve, ShelveTells
<1>11. CASE /\ \/ \E x : shelf' = [asked EXCEPT !.editor = x, !.registered = TRUE] /\ UNCHANGED store
               \/ Recover(asked)
            /\ deferred' = Looked(Retarget(roster', deferred), shelf', roster'.tab)
            /\ UNCHANGED pending
  <2>1. Tells(shelf', store) /\ UNCHANGED store
    BY <1>6, <1>9, <1>11, RecoverTells
  <2> QED
    BY <1>1, <1>11, <2>1, LookingStep
<1> QED
  BY <1>5, <1>10, <1>11

(* What the runtime was asked to preview it has found so. *)
LEMMA MayAssignIs ==
  ASSUME NEW r, Stocked(store), r.p \in Profiles, MayAssign(r),
         r.kind # "unassign" => r.target \in Offers(store.skills),
         r.kind # "add" => r.pinned \in Pins
  PROVE  Promises(r, store)
<1>1. store.version[r.p] \in Nat /\ store.version[r.p] = r.expected
  BY DEF MayAssign, Stocked, Versions
<1>2. r.expected \in Nat /\ r.expected <= store.version[r.p]
  BY <1>1
<1>3. IF r.kind = "add" THEN store.uses[r.p][r.target.s] = 0
      ELSE store.uses[r.p][r.pinned.s] = r.pinned.v
  BY DEF MayAssign, Pinned
<1>4. r.kind \in {"upgrade", "reassign"} => r.target.s = r.pinned.s /\ r.target # r.pinned
  BY DEF MayAssign
<1> QED
  BY <1>2, <1>3, <1>4 DEF Promises

LEMMA RequestTells ==
  ASSUME AInv, Running, NEW k, Tells(k, store), NEW r, r.p \in Profiles, RequestAssignment(k, r),
         r.kind # "unassign" => r.target \in Offers(store.skills),
         r.kind # "add" => r.pinned \in Pins
  PROVE  AInv'
<1>1. UNCHANGED pending /\ deferred' = Looked(Retarget(roster', deferred), shelf', roster'.tab)
  BY DEF RequestAssignment
<1>2. CASE MayAssign(r) /\ shelf' = Installed(k, r) /\ UNCHANGED store
  <2> DEFINE j == Installed(k, r)
  <2>1. Promises(r, store)
    BY <1>2, ThereIs, MayAssignIs
  <2>2. /\ LibraryFields \subseteq DOMAIN j
        /\ j.sel = k.sel /\ j.rows = k.rows /\ j.detail = k.detail
        /\ j.history = k.history /\ j.past = k.past /\ j.source = k.source
        /\ j.made = k.made /\ j.assignment = k.assignment
        /\ j.confirmation = [command |-> [op |-> "assign", request |-> r], by |-> "assignment"]
    BY TabFields DEF LibraryFields, Installed
  <2> HIDE DEF j
  <2>3. j.confirmation.command.op = "assign" /\ j.confirmation.command.request = r
    BY <2>2
  <2>4. Shows(j, store.skills) /\ Classified(j)
    BY <2>2 DEF Tells, Shows, Classified
  <2>5. Promised(j, store)
    BY <2>1, <2>3 DEF Promised
  <2>6. Tells(shelf', store)
    BY <1>2, <2>4, <2>5 DEF Tells, j
  <2> QED
    BY <1>1, <1>2, <2>6, LookingStep
<1>3. CASE Recover(k)
  <2>1. Tells(shelf', store) /\ UNCHANGED store
    BY <1>3, RecoverTells
  <2> QED
    BY <1>1, <2>1, LookingStep
<1> QED
  BY <1>2, <1>3 DEF RequestAssignment

LEMMA AssigningTells ==
  ASSUME IInv, AInv,
         \/ ReviewAssignment
         \/ \E s \in Skills : \E v, kind : ChangeAssigned(Ref(s, v), kind)
  PROVE  AInv'
<1>1. CASE ReviewAssignment
  <2> DEFINE k == [shelf EXCEPT !.from = IF shelf.origin \in Profiles THEN shelf.origin ELSE "skills"]
             r == Requested(shelf)
  <2>1. /\ Running /\ shelf.agent # None /\ shelf.assignment # None /\ SelectedRef(shelf) # None
        /\ RequestAssignment(k, r)
    BY <1>1, OnShelfIs DEF ReviewAssignment
  <2>2. Stocked(store) /\ Tells(shelf, store) /\ LibraryFields \subseteq DOMAIN shelf
    BY <2>1, ThereIs, TabFields
  <2>3. Tells(k, store)
    BY <2>2, FieldsAgree, AgreesTells
  <2> HIDE DEF k
  <2>4. /\ r.p = shelf.agent.p /\ r.kind = shelf.assignment.kind
        /\ r.target = SelectedRef(shelf) /\ r.pinned = shelf.assignment.pinned
    BY DEF Requested
  <2> HIDE DEF r
  <2>5. r.p \in Profiles
    BY <2>1, <2>4, RunningIs DEF ShelfForm, ShelfSound
  <2>6. r.target \in Offers(store.skills)
    BY <2>1, <2>2, <2>4, ChosenIs
  <2>7. r.kind # "add" => r.pinned \in Pins
    BY <2>1, <2>2, <2>4 DEF Tells, Classified
  <2> QED
    BY <2>1, <2>3, <2>5, <2>6, <2>7, RequestTells
<1>2. ASSUME NEW s \in Skills, NEW v, NEW kind, ChangeAssigned(Ref(s, v), kind)
      PROVE  AInv'
  <2> DEFINE row == Ref(s, v)
             p == roster.detail.p
             k == [shelf EXCEPT !.from = p]
             r == [p |-> p, expected |-> roster.detail.v, kind |-> kind, pinned |-> row,
                   target |-> IF kind = "upgrade" THEN Ref(s, shelf.rows[s]) ELSE row]
  <2>1. /\ Running /\ roster.detail # None /\ row.s = s /\ row.v = v /\ v \in 1 .. store.skills[s]
        /\ kind = "upgrade" => shelf.rows[s] > v
    BY <1>2, KeyIsRunning DEF ChangeAssigned, OnAgentSkills, AgentsKey, Ref
  <2>2. RequestAssignment(k, r)
    BY <1>2, <2>1 DEF ChangeAssigned
  <2>3. Stocked(store) /\ Tells(shelf, store) /\ LibraryFields \subseteq DOMAIN shelf
    BY <2>1, ThereIs, TabFields
  <2>4. Tells(k, store)
    BY <2>3, FieldsAgree, AgreesTells
  <2>5. p \in Profiles
    BY <2>1, RunningIs, DetailIs DEF Screens
  <2>6. store.skills[s] \in Nat /\ shelf.rows[s] \in Nat
    BY <2>3 DEF Stocked, Tells, Shows
  <2>7. v \in Nat /\ v > 0
    BY <2>1, <2>6
  <2>8. row \in Offers(store.skills) /\ row \in Pins
    <3>1. row \in Offers(store.skills)
      BY <2>1, <2>3, OffersAre DEF Stocked
    <3> QED
      BY <2>7, <3>1 DEF Pins, Ref
  <2>9. kind = "upgrade" => Ref(s, shelf.rows[s]) \in Offers(store.skills)
    <3> SUFFICES ASSUME kind = "upgrade" PROVE Ref(s, shelf.rows[s]) \in Offers(store.skills)
      OBVIOUS
    <3>1. shelf.rows[s] > 0
      BY <2>1, <2>6, <2>7
    <3> QED
      BY <2>3, <3>1, ListedIs DEF InLibrary
  <2> HIDE DEF k, p, row
  <2>10. r.p = p /\ r.pinned = row /\ r.target \in Offers(store.skills)
    BY <2>8, <2>9
  <2> HIDE DEF r
  <2> QED
    BY <2>1, <2>2, <2>4, <2>5, <2>8, <2>10, RequestTells
<1> QED
  BY <1>1, <1>2

(* What an agent would get is judged by what it uses. *)
LEMMA ClassifiedIs ==
  ASSUME Stocked(store), NEW p \in Profiles, NEW target \in Offers(store.skills)
  PROVE  /\ Pinned(p, target.s) \in Nat /\ target.s \in Skills
         /\ Classify(target, Pinned(p, target.s)) # "add" => Ref(target.s, Pinned(p, target.s)) \in Pins
<1>1. target.s \in Skills
  BY DEF Offers
<1>2. Pinned(p, target.s) \in Nat
  BY <1>1 DEF Stocked, Pinned
<1>3. Classify(target, Pinned(p, target.s)) # "add" => Pinned(p, target.s) # 0
  BY DEF Classify
<1> QED
  BY <1>1, <1>2, <1>3 DEF Pins, Ref

LEMMA NewAssignment ==
  ASSUME NEW k, Tells(k, store), NEW j, LibraryFields \subseteq DOMAIN j,
         j.sel = k.sel, j.rows = k.rows, j.detail = k.detail, j.history = k.history, j.past = k.past,
         j.source = k.source, j.made = k.made, j.confirmation = k.confirmation,
         j.assignment.kind # "add" => j.assignment.pinned \in Pins
  PROVE  Tells(j, store)
<1>1. Shows(j, store.skills)
  BY DEF Tells, Shows
<1>2. Classified(j) /\ Promised(j, store)
  BY DEF Tells, Classified, Promised
<1> QED
  BY <1>1, <1>2 DEF Tells

LEMMA AssignToTells ==
  ASSUME AInv, NEW p \in Profiles, AssignTo(p)
  PROVE  AInv'
<1> DEFINE target == SelectedRef(shelf)
           was == [kind |-> Classify(target, Pinned(p, target.s)),
                   pinned |-> Ref(target.s, Pinned(p, target.s)), target |-> target]
           k == [shelf EXCEPT !.agent = ServedAs(p), !.assignment = was]
<1>1. Running /\ target # None /\ Shelve(Presented(k, "AssignmentReview"))
  BY ShelfKeyIs DEF AssignTo, Fetched
<1>2. Stocked(store) /\ Tells(shelf, store) /\ LibraryFields \subseteq DOMAIN shelf
  BY <1>1, ThereIs, TabFields
<1>3. target \in Offers(store.skills)
  BY <1>1, <1>2, ChosenIs
<1> HIDE DEF target
<1>4. was.kind # "add" => was.pinned \in Pins
  BY <1>2, <1>3, ClassifiedIs
<1> HIDE DEF was
<1>5. /\ LibraryFields \subseteq DOMAIN k
      /\ k.sel = shelf.sel /\ k.rows = shelf.rows /\ k.detail = shelf.detail
      /\ k.history = shelf.history /\ k.past = shelf.past /\ k.source = shelf.source
      /\ k.made = shelf.made /\ k.confirmation = shelf.confirmation /\ k.assignment = was
  BY <1>2 DEF LibraryFields
<1> HIDE DEF k
<1>6. Tells(k, store)
  BY <1>2, <1>4, <1>5, NewAssignment
<1>7. Tells(Presented(k, "AssignmentReview"), store)
  BY <1>5, <1>6, FieldsAgree, AgreesTells
<1> QED
  BY <1>1, <1>7, ShelveTells

LEMMA ViewAssignedTells ==
  ASSUME AInv, NEW s \in Skills, NEW v, ViewAssigned(Ref(s, v)) \/ CloseSkillPanel
  PROVE  AInv'
<1>1. CASE CloseSkillPanel
  <2>1. Running /\ UNCHANGED <<shelf, store>> /\ UNCHANGED hostVars
    BY <1>1, KeyIsRunning DEF CloseSkillPanel, AgentsKey
  <2> QED
    BY <2>1, WaitingIs, ElsewhereStep
<1>2. CASE ViewAssigned(Ref(s, v))
  <2> DEFINE row == Ref(s, v)
             there == [shelf EXCEPT !.origin = roster.detail.p]
             bare == NoContext(there)
             shown == WithSkillVersion(bare, row)
  <2>1. /\ Running /\ shelf' = [shown EXCEPT !.pane = "Detail"]
        /\ deferred' = Looked(deferred, shelf', "skills") /\ UNCHANGED <<pending, store>>
        /\ v \in 1 .. store.skills[s]
    BY <1>2, KeyIsRunning DEF ViewAssigned, OnAgentSkills, AgentsKey, Ref
  <2>2. /\ Stocked(store) /\ Tells(shelf, store) /\ LibraryFields \subseteq DOMAIN shelf
        /\ Waits(deferred) /\ Slot(pending, store.skills)
    BY <2>1, ThereIs, TabFields
  <2>3. row \in Offers(store.skills)
    BY <2>1, <2>2, OffersAre DEF Stocked
  <2> HIDE DEF row
  <2>4. Tells(there, store) /\ LibraryFields \subseteq DOMAIN there
    BY <2>2, FieldsAgree, AgreesTells, TabFields
  <2> HIDE DEF there
  <2>5. Tells(bare, store)
    BY <2>4, FieldsAgree, AgreesTells
  <2> HIDE DEF bare
  <2>6. Tells(shown, store) /\ LibraryFields \subseteq DOMAIN shown
    BY <2>3, <2>5, ShownTells, TabFields
  <2> HIDE DEF shown
  <2>7. Tells(shelf', store)
    BY <2>1, <2>6, FieldsAgree, AgreesTells
  <2>8. Waits(deferred')
    BY <2>1, <2>2, <2>7, LooksAre
  <2> QED
    BY <2>1, <2>2, <2>7, <2>8, AssignmentStep
<1> QED
  BY <1>1, <1>2

-----------------------------------------------------------------------------
(* Confirmations *)

LEMMA DeclineTells ==
  ASSUME AInv, DeclineSkill
  PROVE  AInv'
<1> DEFINE bare == [shelf EXCEPT !.confirmation = None]
<1>1. /\ Running /\ UNCHANGED <<pending, store>>
      /\ deferred' = Looked(Retarget(roster', deferred), shelf', roster'.tab)
  BY ShelfKeyIs DEF DeclineSkill
<1>2. Tells(shelf, store) /\ LibraryFields \subseteq DOMAIN shelf
  BY <1>1, ThereIs, TabFields
<1>3. Agrees(shelf, bare)
  BY <1>2 DEF Agrees, LibraryFields
<1>4. Tells(bare, store) /\ LibraryFields \subseteq DOMAIN bare
  BY <1>2, <1>3, AgreesTells, TabFields
<1>5. \/ \E y : Cancelled([bare EXCEPT !.pane = "Editor", !.page = "review", !.editor = y])
      \/ Cancelled([bare EXCEPT !.pane = "Detail", !.origin = None])
      \/ Cancelled([bare EXCEPT !.pane = "AssignmentReview"])
  BY DEF DeclineSkill
<1> HIDE DEF bare
<1>6. /\ \A y : Agrees(bare, [bare EXCEPT !.pane = "Editor", !.page = "review", !.editor = y])
      /\ Agrees(bare, [bare EXCEPT !.pane = "Detail", !.origin = None])
      /\ Agrees(bare, [bare EXCEPT !.pane = "AssignmentReview"])
  BY <1>4 DEF Agrees, LibraryFields
<1>7. Tells(shelf', store)
  BY <1>4, <1>5, <1>6, AgreesTells, CancelledTells
<1> QED
  BY <1>1, <1>7, LookingStep

LEMMA SpentTells ==
  ASSUME NEW stock, NEW k, Tells(k, stock)
  PROVE  Tells(Spent(k), stock) /\ LibraryFields \subseteq DOMAIN Spent(k)
<1>1. Agrees(k, Spent(k))
  BY TabFields DEF Agrees, LibraryFields, Spent
<1> QED
  BY <1>1, AgreesTells, TabFields

(* The agent has a new version, and uses what it was promised. *)
LEMMA AssignedTells ==
  ASSUME AInv, Running, NEW c, AssignmentDone(c), Promises(c.request, store)
  PROVE  Tells(shelf', store) /\ Grows(store, store')
<1> DEFINE r == c.request
           versions == [store.version EXCEPT ![r.p] = @ + 1]
           s == IF r.kind = "unassign" THEN r.pinned.s ELSE r.target.s
           v == IF r.kind = "unassign" THEN 0 ELSE r.target.v
           uses == [store.uses EXCEPT ![r.p][s] = v]
<1>1. /\ store' = [store EXCEPT !.version = versions, !.uses[r.p][s] = v]
      /\ shelf' = [Spent(shelf) EXCEPT !.agent = [p |-> r.p, v |-> versions[r.p]]]
  BY DEF AssignmentDone
<1>2. Stocked(store) /\ Tells(shelf, store)
  BY ThereIs
<1>3. Tells(shelf', store)
  BY <1>1, <1>2, SpentTells, FieldsAgree, AgreesTells
<1>4. r.p \in Profiles /\ s \in Skills /\ v \in Nat /\ store.skills[s] \in Nat /\ v <= store.skills[s]
  <2>1. CASE r.kind = "unassign"
    <3>1. r.p \in Profiles /\ s \in Skills /\ v = 0
      BY <2>1 DEF Promises, Pins
    <3>2. store.skills[s] \in Nat
      BY <1>2, <3>1 DEF Stocked
    <3> HIDE DEF r, s, v
    <3> QED
      BY <3>1, <3>2
  <2>2. CASE r.kind # "unassign"
    <3>1. r.p \in Profiles /\ s \in Skills /\ v \in Nat /\ v \in 1 .. store.skills[s]
      BY <2>2 DEF Promises, Offers
    <3>2. store.skills[s] \in Nat
      BY <1>2, <3>1 DEF Stocked
    <3> HIDE DEF r, s, v
    <3> QED
      BY <3>1, <3>2
  <2> QED
    BY <2>1, <2>2
<1>5. /\ {"version", "skills", "uses"} \subseteq DOMAIN store'
      /\ store'.version = versions /\ store'.skills = store.skills /\ store'.uses = uses
  BY <1>1, <1>2 DEF Stocked
<1> HIDE DEF r, s, v
<1>6. versions \in Versions /\ \A p \in Profiles : store.version[p] <= versions[p]
  BY <1>2, <1>4 DEF Stocked, Versions
<1>7. uses \in [Profiles -> [Skills -> Nat]]
      /\ \A p \in Profiles : \A t \in Skills : uses[p][t] <= store.skills[t]
  BY <1>2, <1>4 DEF Stocked
<1>8. \A p \in Profiles : versions[p] = store.version[p] => uses[p] = store.uses[p]
  <2> SUFFICES ASSUME NEW p \in Profiles, versions[p] = store.version[p]
               PROVE  uses[p] = store.uses[p]
    OBVIOUS
  <2>1. store.version[p] \in Nat
    BY <1>2 DEF Stocked, Versions
  <2>2. p # r.p
    BY <1>2, <1>4, <2>1 DEF Stocked, Versions
  <2> QED
    BY <1>2, <2>2 DEF Stocked
<1> HIDE DEF versions, uses
<1>9. Stocked(store')
  BY <1>2, <1>5, <1>6, <1>7 DEF Stocked
<1>10. \A t \in Skills : store.skills[t] <= store'.skills[t]
  <2>1. \A t \in Skills : store.skills[t] \in Nat
    BY <1>2 DEF Stocked
  <2> QED
    BY <1>5, <2>1
<1> QED
  BY <1>3, <1>5, <1>6, <1>8, <1>9, <1>10 DEF Grows

(* A skill is made, or another version of one. *)
LEMMA MakingGrows ==
  ASSUME Stocked(store), NEW s \in Skills, store' = [store EXCEPT !.skills[s] = @ + 1]
  PROVE  Grows(store, store') /\ store'.skills[s] > 0
<1>1. /\ {"version", "skills", "uses"} \subseteq DOMAIN store'
      /\ store'.version = store.version /\ store'.skills = [store.skills EXCEPT ![s] = @ + 1]
      /\ store'.uses = store.uses
  BY DEF Stocked
<1>2. store'.skills \in [Skills -> Nat] /\ store'.skills[s] > 0
      /\ \A t \in Skills : store.skills[t] <= store'.skills[t]
  BY <1>1 DEF Stocked
<1>3. \A p \in Profiles : \A t \in Skills : /\ store.uses[p][t] \in Nat /\ store.skills[t] \in Nat
                                            /\ store'.skills[t] \in Nat
                                            /\ store.uses[p][t] <= store.skills[t]
                                            /\ store.skills[t] <= store'.skills[t]
  BY <1>2 DEF Stocked
<1>4. \A p \in Profiles : \A t \in Skills : store.uses[p][t] <= store'.skills[t]
  BY <1>3
<1>5. Stocked(store')
  BY <1>1, <1>2, <1>4 DEF Stocked
<1>6. \A p \in Profiles : store.version[p] \in Nat
  BY DEF Stocked, Versions
<1> QED
  BY <1>1, <1>2, <1>5, <1>6 DEF Grows

LEMMA ConfirmTells ==
  ASSUME AInv, ConfirmSkill
  PROVE  AInv'
<1> DEFINE c == shelf.confirmation.command
<1>1. /\ Running /\ UNCHANGED pending /\ shelf.confirmation # None
      /\ deferred' = Looked(Retarget(roster', deferred), shelf', roster'.tab)
  BY ShelfKeyIs DEF ConfirmSkill, SkillAsked, Asking
<1>2. Stocked(store) /\ Tells(shelf, store)
  BY <1>1, ThereIs
<1>3. CASE c.op = "assign" /\ AssignmentDone(c)
  <2>1. Promises(c.request, store)
    BY <1>1, <1>2, <1>3 DEF Tells, Promised
  <2>2. Tells(shelf', store) /\ Grows(store, store')
    BY <1>1, <1>3, <2>1, AssignedTells
  <2> QED
    BY <1>1, <2>2, LookingStep
<1>4. ASSUME NEW s \in Skills, store' = [store EXCEPT !.skills[s] = @ + 1],
             shelf' = [Spent(shelf) EXCEPT !.made = s]
      PROVE  AInv'
  <2>1. Grows(store, store') /\ Stocked(store') /\ store'.skills[s] > 0
    BY <1>2, <1>4, MakingGrows DEF Grows
  <2> DEFINE k == Spent(shelf)
  <2>2. Tells(k, store') /\ LibraryFields \subseteq DOMAIN k
    BY <1>2, <2>1, SpentTells, TellsGrow
  <2>3. /\ LibraryFields \subseteq DOMAIN shelf'
        /\ shelf'.sel = k.sel /\ shelf'.rows = k.rows /\ shelf'.detail = k.detail
        /\ shelf'.history = k.history /\ shelf'.past = k.past /\ shelf'.source = k.source
        /\ shelf'.made = s /\ shelf'.assignment = k.assignment /\ shelf'.confirmation = k.confirmation
    BY <1>4, <2>2 DEF LibraryFields
  <2> HIDE DEF k
  <2>4. Shows(shelf', store'.skills)
    BY <2>1, <2>2, <2>3 DEF Tells, Shows
  <2>5. Classified(shelf') /\ Promised(shelf', store')
    BY <2>2, <2>3 DEF Tells, Classified, Promised
  <2>6. Tells(shelf', store')
    BY <2>4, <2>5 DEF Tells
  <2>7. Waits(Retarget(roster', deferred)) /\ Slot(pending', store'.skills)
    BY <1>1, <1>2, <2>1, ThereIs, QueuesAre, SlotGrows
  <2>8. Waits(deferred')
    BY <1>1, <2>1, <2>6, <2>7, LooksAre
  <2> QED
    BY <2>1, <2>6, <2>7, <2>8 DEF AInv
<1>5. CASE UNCHANGED <<shelf, store>>
  BY <1>1, <1>2, <1>5, LookingStep
<1>6. CASE Recover(shelf)
  <2>1. Tells(shelf', store) /\ UNCHANGED store
    BY <1>2, <1>6, RecoverTells
  <2> QED
    BY <1>1, <2>1, LookingStep
<1> QED
  BY <1>3, <1>4, <1>5, <1>6 DEF ConfirmSkill

LEMMA SkillKeysTell ==
  ASSUME IInv, AInv, SkillKeys
  PROVE  AInv'
<1>1. CASE ShelfBrowsing
  BY <1>1, BrowsingTells, UnwindTells, PickingTells DEF ShelfBrowsing
<1>2. CASE ShelfVersions
  BY <1>2, BrowsingTells DEF ShelfVersions
<1>3. CASE ShelfForms \/ NoteForms
  BY <1>3, BrowsingTells, PickingTells, StartingTells, WritingTells, LeavingTells, ReviewSkillTells
     DEF ShelfForms
<1>4. CASE ShelfAssignments
  <2>1. ASSUME NEW s \in Skills, NEW v \in 1 .. MaxSkillVersion, ViewAssigned(Ref(s, v))
        PROVE  AInv'
    BY <2>1, ViewAssignedTells
  <2>2. ASSUME NEW s \in Skills, NEW v \in 1 .. MaxSkillVersion, NEW kind \in {"upgrade", "unassign"},
               ChangeAssigned(Ref(s, v), kind)
        PROVE  AInv'
    BY <2>2, AssigningTells
  <2>3. CASE CloseSkillPanel
    <3>1. PICK s : s \in Skills
      BY <2>3, KeyIsRunning, ThereIs DEF CloseSkillPanel, AgentsKey, Tells, Shows
    <3> QED
      BY <2>3, <3>1, ViewAssignedTells
  <2> QED
    BY <1>4, <2>1, <2>2, <2>3, AssigningTells, AssignToTells DEF ShelfAssignments
<1>5. CASE ShelfConfirmations
  BY <1>5, DeclineTells, ConfirmTells DEF ShelfConfirmations
<1> QED
  BY <1>1, <1>2, <1>3, <1>4, <1>5 DEF SkillKeys

-----------------------------------------------------------------------------
(* Refreshes, and the command line *)

LEMMA RefreshTells ==
  ASSUME AInv, Running, NEW nav, NEW k, Tells(k, store), NEW r, NEW queue, Waits(queue),
         Refresh(nav, k, r, queue)
  PROVE  Tells(shelf', store) /\ Waits(deferred')
<1> DEFINE shelved == WithSkills(k, store.skills)
           listed == IF nav = "profiles" THEN Relisted(r, store.version) ELSE r
<1>1. Tells(shelved, store)
  BY ThereIs, ListedTells
<1>2. /\ shelf' = shelved
      /\ \/ deferred' = QueueMissing(queue, shelved, r.tab)
         \/ deferred' = Retarget(listed, queue)
         \/ deferred' = [queue EXCEPT !.profile = ReadRequest(listed, "detail")]
  BY DEF Refresh
<1> HIDE DEF shelved, listed
<1>3. Waits(QueueMissing(queue, shelved, r.tab))
  BY <1>1, ThereIs, LooksAre
<1>4. Waits(Retarget(listed, queue)) /\ Waits([queue EXCEPT !.profile = ReadRequest(listed, "detail")])
  BY ReadsAre, QueuesAre
<1> QED
  BY <1>1, <1>2, <1>3, <1>4

LEMMA RefreshesTell ==
  ASSUME AInv, RunDeferredRefresh \/ CockpitKeys
  PROVE  AInv'
<1>1. CASE RunDeferredRefresh
  <2> DEFINE queue == [deferred EXCEPT !.nav = "none"]
  <2>1. Running /\ UNCHANGED <<pending, store>> /\ Refresh(deferred.nav, shelf, roster, queue)
    BY <1>1 DEF RunDeferredRefresh
  <2>2. Waits(queue)
    BY <2>1, ThereIs, QueuesAre
  <2> HIDE DEF queue
  <2> QED
    BY <2>1, <2>2, ThereIs, RefreshTells, AssignmentStep
<1>2. ASSUME NEW tab, SwitchTab(tab)
      PROVE  AInv'
  <2> DEFINE nav == IF shelf.loaded THEN "none" ELSE
                    CASE tab = "agents" -> "profiles" [] tab = "skills" -> "skills" [] OTHER -> "none"
             k == IF tab # "skills" THEN shelf
                  ELSE [shelf EXCEPT !.origin = IF @ \in Profiles THEN @ ELSE Cockpit,
                                     !.focus = IF shelf.pane = "List" THEN "List" ELSE @]
             r == [roster EXCEPT !.tab = tab]
             queue == IF nav = "none" THEN deferred ELSE Wait(nav)
  <2>1. Running /\ pending' = Moved(pending) /\ UNCHANGED store
    BY <1>2, KeyIsRunning DEF SwitchTab
  <2>2. /\ Stocked(store) /\ Tells(shelf, store) /\ LibraryFields \subseteq DOMAIN shelf
        /\ Slot(pending', store.skills) /\ Waits(deferred)
    BY <2>1, ThereIs, TabFields, ReadsAre
  <2>3. Agrees(shelf, k)
    BY <2>2, FieldsAgree
  <2>4. \/ Refresh(nav, k, r, deferred)
        \/ shelf' = k /\ deferred' = Looked(queue, k, tab)
    BY <1>2 DEF SwitchTab
  <2>5. Waits(queue)
    BY <2>2, QueuesAre DEF Wait
  <2> HIDE DEF k, nav, r, queue
  <2>6. Tells(k, store)
    BY <2>2, <2>3, AgreesTells
  <2>7. Tells(shelf', store) /\ Waits(deferred')
    BY <2>1, <2>2, <2>4, <2>5, <2>6, RefreshTells, LooksAre
  <2> QED
    BY <2>1, <2>2, <2>7, AssignmentStep
<1>3. CASE ReloadLibrary
  <2>1. Running /\ UNCHANGED <<pending, store>>
    BY <1>3, KeyIsRunning DEF ReloadLibrary, AgentsKey
  <2>2. \/ Refresh("library", shelf, roster, deferred)
        \/ UNCHANGED shelf /\ \E x : deferred' = [deferred EXCEPT !.nav = x]
    BY <1>3 DEF ReloadLibrary, Wait
  <2>3. CASE Refresh("library", shelf, roster, deferred)
    BY <2>1, <2>3, ThereIs, RefreshTells, AssignmentStep
  <2>4. ASSUME UNCHANGED shelf, NEW x, deferred' = [deferred EXCEPT !.nav = x]
        PROVE  AInv'
    <3>1. Waits(deferred')
      BY <2>1, <2>4, ThereIs, QueuesAre
    <3> QED
      BY <2>1, <2>4, <3>1, ThereIs, AssignmentStep
  <2> QED
    BY <2>2, <2>3, <2>4
<1>4. CASE ShowMade
  <2>1. Running /\ UNCHANGED <<deferred, shelf, store>> /\ pending' = Request("skills", None, TRUE)
    BY <1>4, ShelfKeyIs DEF ShowMade, rosterVars
  <2>2. Slot(pending', store.skills)
    BY <2>1 DEF Slot, Request
  <2> QED
    BY <2>1, <2>2, ThereIs, AssignmentStep
<1> QED
  BY <1>1, <1>2, <1>3, <1>4 DEF CockpitKeys

LEMMA LineTells ==
  ASSUME AInv, CockpitLine
  PROVE  AInv'
<1>1. PICK what, key :
          /\ TypeCommand(what, key)
          /\ what = "skill" => key \in Skills /\ store.skills[key] > 0
  BY DEF CockpitLine
<1>2. Running /\ UNCHANGED <<deferred, store>> /\ pending' = Request(what, key, TRUE)
  BY <1>1, KeyIsRunning DEF TypeCommand, Line
<1>3. Slot(pending', store.skills)
  BY <1>1, <1>2 DEF Slot, Request
<1>4. Tells(shelf', store)
  <2>1. shelf' = shelf \/ shelf' = [shelf EXCEPT !.focus = "Workspace"]
    BY <1>1 DEF TypeCommand
  <2> QED
    BY <1>2, <2>1, ThereIs, TabFields, FieldsAgree, AgreesTells
<1> QED
  BY <1>2, <1>3, <1>4, ThereIs, AssignmentStep

LEMMA GoingTells ==
  ASSUME AInv, Running, NEW k, Tells(k, store), GoToShelf(k)
  PROVE  AInv'
<1>1. shelf' = k /\ deferred' = Looked(deferred, k, "skills") /\ UNCHANGED <<pending, store>>
  BY DEF GoToShelf
<1> QED
  BY <1>1, ThereIs, LooksAre, AssignmentStep

LEMMA WorkflowsTell ==
  ASSUME AInv, CockpitWorkflows
  PROVE  AInv'
<1> DEFINE k == StartedAt
<1>1. Running
  BY KeyIsRunning DEF CockpitWorkflows, TypeAdd, TypeAssign, TypeUnassign, Workflow, Line
<1>2. Stocked(store) /\ Tells(shelf, store) /\ LibraryFields \subseteq DOMAIN shelf
  BY <1>1, ThereIs, TabFields
<1>3. Tells(k, store) /\ LibraryFields \subseteq DOMAIN k
  <2> DEFINE j == NoContext(shelf)
  <2>1. Agrees(shelf, j) /\ LibraryFields \subseteq DOMAIN j
    BY <1>2, FieldsAgree DEF Agrees
  <2>2. \E x : k = [j EXCEPT !.origin = x, !.from = "skills", !.focus = "Workspace"]
    BY DEF StartedAt
  <2> HIDE DEF j, k
  <2>3. PICK x : k = [j EXCEPT !.origin = x, !.from = "skills", !.focus = "Workspace"]
    BY <2>2
  <2>4. Agrees(j, [j EXCEPT !.origin = x, !.from = "skills", !.focus = "Workspace"])
    BY <2>1, FieldsAgree
  <2>5. Agrees(shelf, k)
    BY <2>1, <2>3, <2>4, AgreesChain
  <2> QED
    BY <1>2, <2>5, AgreesTells DEF Agrees
<1>4. CASE TypeAdd
  <2>1. GoToShelf(WithForm(k, K!ForCreate(FALSE)))
    BY <1>4 DEF TypeAdd
  <2> HIDE DEF k
  <2> QED
    BY <1>1, <1>3, <2>1, FieldsAgree, AgreesTells, GoingTells
<1>5. ASSUME NEW s \in Skills, NEW p \in Profiles, TypeAssign(s, p)
      PROVE  AInv'
  <2> DEFINE target == Ref(s, store.skills[s])
             shown == WithSkill(k, target)
             was == [kind |-> Classify(target, Pinned(p, s)), pinned |-> Ref(s, Pinned(p, s)),
                     target |-> target]
             j == [shown EXCEPT !.agent = ServedAs(p), !.pane = "AssignmentReview", !.assignment = was]
  <2>1. \/ store.skills[s] > 0 /\ GoToShelf(j)
        \/ GoToShelf([k EXCEPT !.pane = "List"])
    BY <1>5 DEF TypeAssign
  <2>2. CASE GoToShelf([k EXCEPT !.pane = "List"])
    <3> HIDE DEF k
    <3> QED
      BY <1>1, <1>3, <2>2, FieldsAgree, AgreesTells, GoingTells
  <2>3. CASE store.skills[s] > 0 /\ GoToShelf(j)
    <3>1. target \in Offers(store.skills) /\ target.s = s
      <4>1. store.skills \in [Skills -> Nat] /\ store.skills[s] \in 1 .. store.skills[s]
        BY <1>2, <1>5, <2>3 DEF Stocked
      <4> QED
        BY <1>5, <4>1, OffersAre
    <3> HIDE DEF target, k
    <3>2. Tells(shown, store) /\ LibraryFields \subseteq DOMAIN shown
      BY <1>3, <3>1, ShownTells, TabFields
    <3>3. was.kind # "add" => was.pinned \in Pins
      BY <1>2, <1>5, <3>1, ClassifiedIs
    <3> HIDE DEF shown, was
    <3>4. /\ LibraryFields \subseteq DOMAIN j
          /\ j.sel = shown.sel /\ j.rows = shown.rows /\ j.detail = shown.detail
          /\ j.history = shown.history /\ j.past = shown.past /\ j.source = shown.source
          /\ j.made = shown.made /\ j.confirmation = shown.confirmation /\ j.assignment = was
      BY <3>2 DEF LibraryFields
    <3> HIDE DEF j
    <3>5. Tells(j, store)
      BY <3>2, <3>3, <3>4, NewAssignment
    <3> QED
      BY <1>1, <2>3, <3>5, GoingTells
  <2> QED
    BY <2>1, <2>2, <2>3
<1>6. ASSUME NEW s \in Skills, NEW p \in Profiles, TypeUnassign(s, p)
      PROVE  AInv'
  <2> DEFINE target == Ref(s, store.skills[s])
             pinned == Ref(s, Pinned(p, s))
             shown == WithSkill(k, target)
             old == WithSkillVersion(shown, pinned)
             was == [kind |-> "unassign", pinned |-> pinned, target |-> pinned]
             j == [old EXCEPT !.agent = ServedAs(p), !.pane = "AssignmentReview", !.assignment = was]
  <2>1. /\ store.skills[s] > 0
        /\ \/ pinned.v # 0 /\ GoToShelf(j)
           \/ GoToShelf([shown EXCEPT !.agent = ServedAs(p)])
    BY <1>6 DEF TypeUnassign
  <2>2. target \in Offers(store.skills)
    <3>1. store.skills \in [Skills -> Nat] /\ store.skills[s] \in 1 .. store.skills[s]
      BY <1>2, <1>6, <2>1 DEF Stocked
    <3> QED
      BY <1>6, <3>1, OffersAre
  <2>3. pinned.v # 0 => pinned \in Offers(store.skills) /\ pinned \in Pins
    <3>1. store.skills \in [Skills -> Nat] /\ Pinned(p, s) \in Nat /\ Pinned(p, s) <= store.skills[s]
      BY <1>2, <1>6 DEF Stocked, Pinned
    <3>2. pinned.v # 0 => Pinned(p, s) \in Nat \ {0} /\ Pinned(p, s) \in 1 .. store.skills[s]
      BY <1>2, <1>6, <3>1 DEF Ref, Stocked
    <3> QED
      BY <1>6, <3>1, <3>2, OffersAre DEF Pins, Ref
  <2> HIDE DEF target, k
  <2>4. Tells(shown, store) /\ LibraryFields \subseteq DOMAIN shown
    BY <1>3, <2>2, ShownTells, TabFields
  <2>5. CASE GoToShelf([shown EXCEPT !.agent = ServedAs(p)])
    <3> HIDE DEF shown
    <3> QED
      BY <1>1, <2>4, <2>5, FieldsAgree, AgreesTells, GoingTells
  <2>6. CASE pinned.v # 0 /\ GoToShelf(j)
    <3> HIDE DEF pinned, shown
    <3>1. Tells(old, store) /\ LibraryFields \subseteq DOMAIN old
      BY <2>3, <2>4, <2>6, ShownTells, TabFields
    <3>2. was.pinned \in Pins
      BY <2>3, <2>6
    <3> HIDE DEF old, was
    <3>3. /\ LibraryFields \subseteq DOMAIN j
          /\ j.sel = old.sel /\ j.rows = old.rows /\ j.detail = old.detail
          /\ j.history = old.history /\ j.past = old.past /\ j.source = old.source
          /\ j.made = old.made /\ j.confirmation = old.confirmation /\ j.assignment = was
      BY <3>1 DEF LibraryFields
    <3> HIDE DEF j
    <3>4. Tells(j, store)
      BY <3>1, <3>2, <3>3, NewAssignment
    <3> QED
      BY <1>1, <2>6, <3>4, GoingTells
  <2> QED
    BY <2>1, <2>5, <2>6
<1> QED
  BY <1>4, <1>5, <1>6 DEF CockpitWorkflows

-----------------------------------------------------------------------------
(* What a command shows *)

LEMMA AnswersTell ==
  ASSUME AInv, Running, UNCHANGED store, Tells(shelf', store), Slot(pending', store.skills),
         NEW r, deferred' = Retarget(r, deferred)
  PROVE  AInv'
BY ThereIs, QueuesAre, AssignmentStep

LEMMA ShownSkillTells ==
  ASSUME AInv, Running, NEW s \in Skills, store.skills[s] > 0, NEW presents, ShowSkill(s, presents)
  PROVE  Tells(shelf', store)
<1> DEFINE ref == Ref(s, store.skills[s])
           staged == ~presents /\ shelf.made = s /\ shelf.pane = "Result" /\ ~ProtectedSkills
           found == IF presents \/ staged THEN WithSkill(shelf, ref) ELSE shelf
           made == IF found.made = s THEN None ELSE found.made
           pane == IF ProtectedSkills \/ ~presents THEN shelf.pane ELSE found.pane
           origin == IF presents /\ roster.tab # "skills" /\ ~ProtectedSkills THEN Cockpit ELSE found.origin
<1>1. Stocked(store) /\ Tells(shelf, store)
  BY ThereIs
<1>2. ref \in Offers(store.skills)
  <2>1. store.skills \in [Skills -> Nat] /\ store.skills[s] \in 1 .. store.skills[s]
    BY <1>1 DEF Stocked
  <2> QED
    BY <2>1, OffersAre
<1>3. shelf' = [found EXCEPT !.made = made, !.pane = pane, !.origin = origin]
  BY DEF ShowSkill
<1> HIDE DEF ref
<1>4. Tells(found, store)
  BY <1>1, <1>2, ShownTells
<1>5. made \in {found.made, None}
  OBVIOUS
<1> HIDE DEF found, made, pane, origin
<1>6. Agrees(found, shelf')
  BY <1>3, <1>4, <1>5, TabFields DEF Agrees, LibraryFields
<1> QED
  BY <1>4, <1>6, AgreesTells

LEMMA CommandTells ==
  ASSUME IInv, AInv, CommandAnswered
  PROVE  AInv'
<1>1. Running /\ pending # None /\ pending.kind = "command"
  BY PendingIs DEF CommandAnswered
<1>2. /\ pending.what \in {"agents", "agent", "skills", "skill"}
      /\ pending.what = "skill" => pending.key \in Skills /\ store.skills[pending.key] > 0
  BY <1>1, RunningIs, ThereIs DEF Screens, Timely, Slot
<1>3. UNCHANGED store /\ deferred' = Retarget(roster', deferred)
  BY DEF CommandAnswered
<1>4. Stocked(store) /\ Tells(shelf, store) /\ Tells(WithSkills(shelf, store.skills), store)
  BY <1>1, ThereIs, ListedTells
<1>5. CASE pending.what \in {"agents", "agent"}
  <2>1. shelf' \in {shelf, WithSkills(shelf, store.skills)} /\ pending' = None
    BY <1>5 DEF CommandAnswered, ShowAgents, ShowAgent
  <2> QED
    BY <1>1, <1>3, <1>4, <2>1, ReadsAre, AnswersTell
<1>6. CASE pending.what = "skills"
  <2> DEFINE k == WithSkills(shelf, store.skills)
             pane == IF pending.presents /\ ~ProtectedSkills THEN "List" ELSE k.pane
             origin == IF pending.presents /\ roster.tab # "skills" /\ ~ProtectedSkills THEN Cockpit ELSE k.origin
  <2>1. /\ shelf' = [k EXCEPT !.pane = pane, !.origin = origin]
        /\ pending' = IF shelf.made # None /\ ~stopping THEN Request("skill", shelf.made, pending.presents) ELSE None
    BY <1>6 DEF CommandAnswered, ShowSkills
  <2> HIDE DEF k, pane, origin
  <2>2. Tells(shelf', store)
    BY <1>4, <2>1, TabFields, FieldsAgree, AgreesTells DEF k
  <2>3. shelf.made # None => shelf.made \in Skills /\ store.skills[shelf.made] > 0
    BY <1>4 DEF Tells, Shows
  <2>4. Slot(pending', store.skills)
    BY <2>1, <2>3 DEF Slot, Request
  <2> QED
    BY <1>1, <1>3, <2>2, <2>4, AnswersTell
<1>7. CASE pending.what = "skill"
  <2>1. ShowSkill(pending.key, pending.presents) /\ pending' = None
    BY <1>7 DEF CommandAnswered, ShowSkill
  <2>2. Tells(shelf', store)
    BY <1>1, <1>2, <1>7, <2>1, ShownSkillTells
  <2> QED
    BY <1>1, <1>3, <2>1, <2>2, ReadsAre, AnswersTell
<1> QED
  BY <1>2, <1>5, <1>6, <1>7

LEMMA ExitsTell ==
  ASSUME ShutdownAnswered \/ Exits \/ Teardown
  PROVE  AInv'
<1>1. ended' # "no"
  BY DEF ShutdownAnswered, Exits, Interrupt, LoopFails, Close, Teardown, TearDown, Running
<1> QED
  BY <1>1 DEF AInv, Running

LEMMA StutterTells ==
  ASSUME AInv, UNCHANGED <<hostVars, rosterVars, deskVars, shelfVars>>
  PROVE  AInv'
<1>1. UNCHANGED <<pending, deferred, ended, store, shelf>>
  BY DEF hostVars, rosterVars, shelfVars
<1> QED
  BY <1>1 DEF AInv, Running

-----------------------------------------------------------------------------
LEMMA InitTells == Init => AInv
<1> SUFFICES ASSUME Init PROVE AInv
  OBVIOUS
<1>1. PICK first \in Skills : shelf = BlankShelf(first)
  BY DEF Init
<1>2. store = InitStore /\ pending = None /\ deferred = NothingDeferred
  BY DEF Init, HostInit
<1>3. tour.skills \in [Skills -> Nat]
  <2>1. tour \in [stops : SUBSET Stops, agents : SUBSET Profiles, skills : [Skills -> 0 .. MaxSkillVersion]]
    BY TourAssumption DEF Init
  <2>2. \A x \in 0 .. MaxSkillVersion : x \in Nat
    OBVIOUS
  <2> QED
    BY <2>1, <2>2
<1>4. Stocked(store)
  <2>1. /\ {"version", "skills", "uses"} \subseteq DOMAIN InitStore
        /\ InitStore.version = [p \in Profiles |-> IF p \in tour.agents THEN 1 ELSE 0]
        /\ InitStore.skills = tour.skills
        /\ InitStore.uses = [p \in Profiles |-> [s \in Skills |->
                                IF p = FirstAgent /\ tour.skills[s] > 0 THEN 1 ELSE 0]]
    BY DEF InitStore
  <2>2. InitStore.version \in Versions /\ InitStore.uses \in [Profiles -> [Skills -> Nat]]
    BY <2>1 DEF Versions
  <2>3. \A p \in Profiles : \A s \in Skills : InitStore.uses[p][s] <= tour.skills[s]
    BY <1>3, <2>1
  <2> QED
    BY <1>2, <1>3, <2>1, <2>2, <2>3 DEF Stocked
<1>5. /\ LibraryFields \subseteq DOMAIN shelf /\ shelf.sel \in Skills
      /\ shelf.rows = [s \in Skills |-> 0]
      /\ shelf.detail = None /\ shelf.history = None /\ shelf.source = None /\ shelf.made = None
      /\ shelf.assignment = None /\ shelf.confirmation = None
  BY <1>1 DEF BlankShelf, LibraryFields
<1>6. Tells(shelf, store)
  <2>1. store.skills \in [Skills -> Nat]
    BY <1>4 DEF Stocked
  <2>2. shelf.rows \in [Skills -> Nat] /\ \A s \in Skills : shelf.rows[s] <= store.skills[s]
    BY <1>5, <2>1
  <2>3. Shows(shelf, store.skills)
    BY <1>5, <2>2 DEF Shows
  <2> QED
    BY <1>5, <2>3 DEF Tells, Classified, Promised
<1>7. Slot(pending, store.skills) /\ Waits(deferred)
  BY <1>2, BacklogsAre DEF Slot, Waits, NothingDeferred, Awaited, ReadOnly
<1> QED
  BY <1>4, <1>6, <1>7 DEF AInv

LEMMA StepTells == IInv /\ AInv /\ [Next]_vars => AInv'
<1> SUFFICES ASSUME IInv, AInv, [Next]_vars PROVE AInv'
  OBVIOUS
<1>1. CASE Keys
  <2>1. CASE (AgentKeys \/ NoteKeys) /\ UNCHANGED <<desk, shelf>>
    BY <2>1, AgentKeysTell, NoteKeysTell
  <2>2. CASE (DeskForms \/ DeskTyping) /\ UNCHANGED shelf
    BY <2>2, DeskKeysTell
  <2>3. CASE SkillKeys
    BY <2>3, SkillKeysTell
  <2>4. CASE TabKeys
    BY <2>4, RefreshesTell, LineTells, WorkflowsTell DEF TabKeys
  <2>5. CASE Quit /\ UNCHANGED <<rosterVars, deskVars, shelf>>
    BY <2>5, QuitTells DEF rosterVars
  <2> QED
    BY <1>1, <2>1, <2>2, <2>3, <2>4, <2>5 DEF Keys
<1>2. CASE Answers
  BY <1>2, NoteKeysTell, AgentKeysTell, PreviewsTell, CommandTells, ExitsTell DEF Answers
<1>3. CASE Catching
  <2>1. CASE (RunDeferredMemory \/ RunDeferredProfile) /\ UNCHANGED <<desk, shelf>>
    BY <2>1, NoteKeysTell, AgentKeysTell
  <2>2. CASE RunDeferredRefresh \/ StartPreview
    BY <2>2, RefreshesTell, PreviewsTell
  <2>3. CASE SubmitQueuedShutdown /\ UNCHANGED <<rosterVars, deskVars, shelf>>
    BY <2>3, QuitTells DEF rosterVars
  <2> QED
    BY <1>3, <2>1, <2>2, <2>3 DEF Catching
<1>4. CASE Exits \/ Teardown
  BY <1>4, ExitsTell
<1>5. CASE Done \/ UNCHANGED vars
  BY <1>5, StutterTells DEF Done, vars
<1> QED
  BY <1>1, <1>2, <1>3, <1>4, <1>5 DEF Next

THEOREM Assignments == Spec => []AInv
BY InitInv, StepInv, InitTells, StepTells, PTL DEF Spec

(* An assignment that waits for a yes is what its confirmation says, unless  *)
(* the agent has changed since (install_assignment_preview in                *)
(* src/ui/tui/model.rs, the assignment previews of src/ui/tui/host.rs), however *)
(* the selection, the library and the agents moved in between.               *)
THEOREM AssignmentsAreWhatTheySay == Spec => []AssignmentIsWhatItSays
<1>1. AInv => AssignmentIsWhatItSays
  <2> SUFFICES ASSUME AInv, Running, shelf.confirmation # None, shelf.confirmation.by = "assignment",
                      store.version[shelf.confirmation.command.request.p]
                        = shelf.confirmation.command.request.expected
               PROVE  LET r == shelf.confirmation.command.request
                          replaces == r.target.s = r.pinned.s /\ r.target # r.pinned
                      IN /\ IF r.kind = "add" THEN Pinned(r.p, r.target.s) = 0
                            ELSE Pinned(r.p, r.pinned.s) = r.pinned.v /\ r.pinned.v > 0
                         /\ r.kind # "unassign" => r.target.v \in 1 .. store.skills[r.target.s]
                         /\ r.kind \in {"upgrade", "reassign"} => replaces
    BY DEF AssignmentIsWhatItSays
  <2> DEFINE r == shelf.confirmation.command.request
  <2>1. Promises(r, store)
    BY ThereIs DEF Tells, Promised
  <2> HIDE DEF r
  <2>2. store.version[r.p] = r.expected
    BY DEF r
  <2>3. r.kind # "add" => r.pinned.v \in Nat /\ r.pinned.v > 0
    <3>1. \A pin \in Pins : pin.v \in Nat /\ pin.v > 0
      BY DEF Pins
    <3> QED
      BY <2>1, <3>1 DEF Promises
  <2>4. /\ IF r.kind = "add" THEN Pinned(r.p, r.target.s) = 0
           ELSE Pinned(r.p, r.pinned.s) = r.pinned.v /\ r.pinned.v > 0
        /\ r.kind # "unassign" => r.target.v \in 1 .. store.skills[r.target.s]
        /\ r.kind \in {"upgrade", "reassign"} => r.target.s = r.pinned.s /\ r.target # r.pinned
    BY <2>1, <2>2, <2>3 DEF Promises, Pinned, Offers
  <2> QED
    BY <2>4 DEF r
<1> QED
  BY <1>1, Assignments, PTL

-----------------------------------------------------------------------------
(* Work in the form of an agent *)

(* A command that waits for a yes is of the version that the draft began with. *)
DeskWork == desk.confirmation # None => desk.confirmation.expected = desk.editor.expected

DeskKept ==
    desk.editor # None /\ ~Same(desk.editor, desk'.editor) =>
        \/ desk.page = "discard"
        \/ store' # store
        \/ desk.editor.mode = "edit" /\ store.version[desk.editor.of] # desk.editor.expected

DeskKeeps == DeskWork' /\ DeskKept

LEMMA KeptIsSame ==
  ASSUME NEW e, NEW form, Keeps(e, form)
  PROVE  Same(e, form)
BY FormIs DEF Keeps, Same

(* In the form nothing waits for a yes. *)
LEMMA FormWork ==
  ASSUME IInv, InForm, NEW form, Keeps(desk.editor, form),
         desk'.editor = form, desk'.confirmation = desk.confirmation
  PROVE  DeskKeeps
BY InFormIs, KeptIsSame DEF DeskKeeps, DeskWork, DeskKept

LEMMA ChangeFormWork ==
  ASSUME IInv, InForm, NEW form, Keeps(desk.editor, form), NEW page, ChangeForm(form, page)
  PROVE  DeskKeeps
<1>1. desk'.editor = form /\ desk'.confirmation = desk.confirmation
  BY InFormIs, RunningIs, DeskIs DEF ChangeForm
<1> QED
  BY <1>1, FormWork

LEMMA TypingWork ==
  ASSUME IInv,
         \/ ChooseTemplate \/ OpenDiscard
         \/ \E f \in EditedFields : OpenField(f)
         \/ \E says \in {"old", "new"} : ChooseRole(says) \/ \E taken \in BOOLEAN : TypeField(says, taken)
  PROVE  DeskKeeps
<1>1. InForm
  BY OnPageIs DEF ChooseTemplate, OpenDiscard, OpenField, ChooseRole, TypeField
<1>2. Running /\ Faithful(desk.editor) /\ DOMAIN desk = DeskFields
  BY <1>1, InFormIs, RunningIs
<1>3. CASE ChooseTemplate
  <2>1. Keeps(desk.editor, E!SelectTemplate(desk.editor))
    BY <1>2, SelectTemplateKeeps
  <2>2. desk'.editor = E!SelectTemplate(desk.editor) /\ desk'.confirmation = desk.confirmation
    BY <1>2, <1>3, DeskIs DEF ChooseTemplate
  <2> QED
    BY <1>1, <2>1, <2>2, FormWork
<1>4. CASE OpenDiscard
  <2>1. Keeps(desk.editor, desk.editor)
    BY <1>2 DEF Keeps
  <2> QED
    BY <1>1, <1>4, <2>1, ChangeFormWork DEF OpenDiscard
<1>5. ASSUME NEW f \in EditedFields, OpenField(f)
      PROVE  DeskKeeps
  <2>1. Keeps(desk.editor, E!SelectField(desk.editor, f))
    BY <1>2, SelectFieldKeeps
  <2>2. desk' = [desk EXCEPT !.editor = E!SelectField(desk.editor, f), !.page = "section", !.field = f]
    BY <1>5 DEF OpenField
  <2>3. desk'.editor = E!SelectField(desk.editor, f) /\ desk'.confirmation = desk.confirmation
    BY <1>2, <2>2, DeskIs
  <2> QED
    BY <1>1, <2>1, <2>3, FormWork
<1>6. ASSUME NEW says \in {"old", "new"}, ChooseRole(says)
      PROVE  DeskKeeps
  <2>1. Keeps(desk.editor, E!SelectRole(desk.editor, says))
    BY <1>2, SelectRoleKeeps
  <2> QED
    BY <1>1, <1>6, <2>1, ChangeFormWork DEF ChooseRole
<1>7. ASSUME NEW says \in {"old", "new"}, NEW taken \in BOOLEAN, TypeField(says, taken)
      PROVE  DeskKeeps
  <2>1. Keeps(desk.editor, E!SetField(desk.editor, desk.field, says, taken))
    BY <1>2, <1>7, SetFieldKeeps DEF TypeField
  <2> QED
    BY <1>1, <1>7, <2>1, ChangeFormWork DEF TypeField
<1> QED
  BY <1>3, <1>4, <1>5, <1>6, <1>7

LEMMA DeskUnmoved ==
  ASSUME DeskWork, desk'.editor = desk.editor, desk'.confirmation \in {None, desk.confirmation}
  PROVE  DeskKeeps
BY DEF DeskKeeps, DeskWork, DeskKept, Same

LEMMA ComingWork ==
  ASSUME IInv, DeskWork,
         ResumeDraft \/ NewAgent \/ EditAgent \/ \E p \in Profiles : EditNamedAgent(p)
  PROVE  DeskKeeps
<1>1. Running /\ DOMAIN desk = DeskFields
  BY OnAgentIs, KeyIsRunning DEF ResumeDraft, NewAgent, EditAgent, EditNamedAgent, IInv
<1>2. CASE desk' = desk
  BY <1>2, DeskUnmoved
<1>3. CASE desk' # desk
  <2>1. desk.editor = None /\ \E e, page : desk' = Form(e, page)
    BY <1>3 DEF ResumeDraft, NewAgent, EditAgent, EditNamedAgent, ProtectedAgents
  <2>2. desk'.confirmation = desk.confirmation /\ desk.confirmation = None
    BY <1>1, <2>1, RunningIs, DeskIs DEF Form, DeskForm
  <2> QED
    BY <2>1, <2>2 DEF DeskKeeps, DeskWork, DeskKept
<1> QED
  BY <1>2, <1>3

(* The draft that is dropped was of a version that is no longer the newest. *)
LEMMA OutdatedWork ==
  ASSUME IInv, NEW p, Outdated(p), desk.editor # None, desk.editor.mode = "edit", p = desk.editor.of,
         store.version[p] # desk.editor.expected
  PROVE  DeskKeeps
<1>1. desk'.confirmation = None
  BY DEF IInv, Outdated, DeskFields
<1> QED
  BY <1>1 DEF DeskKeeps, DeskWork, DeskKept

LEMMA PreviewWork ==
  ASSUME IInv, InForm, NEW e, Keeps(desk.editor, e), e.expected = desk.editor.expected,
         e.mode = "edit", Preview(e)
  PROVE  DeskKeeps
<1> DEFINE asked == E!PreviewAsked(e)
           review == [of |-> e.of, expected |-> e.expected, draft |-> e.draft]
<1>1. Running /\ desk.editor # None /\ desk.confirmation = None /\ DOMAIN desk = DeskFields
  BY InFormIs, RunningIs
<1>2. Faithful(e) /\ e.of = desk.editor.of /\ e.mode = desk.editor.mode
  BY DEF Keeps
<1>3. CASE store.version[e.of] # e.expected
  BY <1>1, <1>2, <1>3, OutdatedWork DEF Preview
<1>4. CASE store.version[e.of] = e.expected
  <2>1. review \in AgentReviews /\ review.draft = e.draft
    BY <1>2, FormIs DEF AgentReviews, Faithful
  <2>2. Keeps(e, asked) /\ asked.draft = e.draft /\ asked.review = None
    BY <1>2, PreviewAskedKeeps
  <2> HIDE DEF asked, review
  <2>3. Keeps(e, asked) /\ Keeps(e, E!ApplyPreview(asked, review))
    BY <2>1, <2>2, ApplyPreviewKeeps DEF Keeps
  <2>4. PICK form : /\ Keeps(e, form)
                    /\ \/ desk' = [desk EXCEPT !.editor = form, !.page = "review", !.unsure = FALSE]
                       \/ desk' = [desk EXCEPT !.editor = form, !.page = "review"]
    BY <1>4, <2>3 DEF Preview, asked, review
  <2>5. desk'.editor = form /\ desk'.confirmation = desk.confirmation
    BY <1>1, <2>4 DEF DeskFields
  <2>6. Keeps(desk.editor, form)
    BY <1>2, <2>4 DEF Keeps
  <2> QED
    BY <2>5, <2>6, FormWork
<1> QED
  BY <1>3, <1>4

LEMMA ReviewingWork ==
  ASSUME IInv, OpenReview \/ AskAgain
  PROVE  DeskKeeps
<1>1. InForm /\ Faithful(desk.editor)
  BY OnPageIs, InFormIs DEF OpenReview, AskAgain
<1>2. Keeps(desk.editor, E!SelectReview(desk.editor)) /\ Keeps(desk.editor, desk.editor)
  BY <1>1, SelectReviewKeeps DEF Keeps
<1>3. E!SelectReview(desk.editor).expected = desk.editor.expected
  BY <1>1 DEF E!SelectReview, Faithful, Forms
<1>4. CASE OpenReview
  <2> DEFINE e == E!SelectReview(desk.editor)
  <2>1. \/ E!AsksForPreview(e) /\ Preview(e)
        \/ ChangeForm(e, "review")
    BY <1>4 DEF OpenReview
  <2>2. E!AsksForPreview(e) => e.mode = "edit"
    BY DEF E!AsksForPreview
  <2> HIDE DEF e
  <2> QED
    BY <1>1, <1>2, <1>3, <2>1, <2>2, PreviewWork, ChangeFormWork DEF e
<1>5. CASE AskAgain
  BY <1>1, <1>2, <1>5, PreviewWork DEF AskAgain, E!AsksForPreview
<1> QED
  BY <1>4, <1>5

LEMMA LeavingWork ==
  ASSUME IInv, DeskWork, LeavePage \/ Propose \/ Discard \/ DeclineCommand
  PROVE  DeskKeeps
<1>1. DOMAIN desk = DeskFields
  BY DEF IInv
<1>2. CASE LeavePage
  <2>1. desk'.editor = desk.editor /\ desk'.confirmation = desk.confirmation
    <3>1. CASE desk' = [desk EXCEPT !.page = "home"]
      BY <1>1, <3>1, DeskIs
    <3> QED
      BY <1>2, <3>1 DEF LeavePage
  <2> QED
    BY <2>1, DeskUnmoved
<1>3. CASE Propose
  <2>1. desk'.editor = desk.editor /\ desk'.confirmation = E!CommandOf(desk.editor)
    BY <1>1, <1>3, DeskIs DEF Propose
  <2>2. desk.editor # None
    BY <1>3, OnPageIs, InFormIs DEF Propose
  <2> QED
    BY <2>1, <2>2 DEF DeskKeeps, DeskWork, DeskKept, Same, E!CommandOf
<1>4. CASE Discard
  <2>1. desk.page = "discard" /\ desk.confirmation = None
    BY <1>4, OnPageIs, InFormIs DEF Discard, OnPage
  <2>2. desk'.confirmation = desk.confirmation
    BY <1>1, <1>4, DeskIs DEF Discard
  <2> QED
    BY <2>1, <2>2 DEF DeskKeeps, DeskWork, DeskKept
<1>5. CASE DeclineCommand
  <2>1. desk'.editor = desk.editor /\ desk'.confirmation = None
    BY <1>1, <1>5, DeskIs DEF DeclineCommand
  <2> QED
    BY <2>1, DeskUnmoved
<1> QED
  BY <1>2, <1>3, <1>4, <1>5

(* What is made makes the runtime's store another one. *)
LEMMA MadeChanges ==
  ASSUME IInv, Running, NEW c, NEW p \in Profiles, Made(c, p)
  PROVE  store' # store
<1> DEFINE versions == [store.version EXCEPT ![p] = @ + 1]
<1>1. "version" \in DOMAIN store /\ store.version \in Versions
  BY RunningIs DEF Screens
<1>2. store'.version = versions
  BY <1>1 DEF Made
<1>3. versions[p] = store.version[p] + 1 /\ store.version[p] \in Nat
  BY <1>1 DEF Versions
<1>4. store.version[p] + 1 # store.version[p]
  BY <1>3
<1> HIDE DEF versions
<1> QED
  BY <1>2, <1>3, <1>4

LEMMA ConfirmCommandWork ==
  ASSUME IInv, DeskWork, Running', ConfirmCommand
  PROVE  DeskKeeps
<1>1. /\ Running /\ desk.editor # None /\ desk.confirmation # None
      /\ desk.confirmation.mode = desk.editor.mode /\ desk.confirmation.of = desk.editor.of
      /\ desk.editor.mode = "edit" => desk.confirmation.of \in Profiles
      /\ desk.confirmation.expected = desk.editor.expected
  BY AskedIs DEF ConfirmCommand, DeskWork
<1>2. ASSUME NEW p \in Profiles, Made(desk.confirmation, p)
      PROVE  DeskKeeps
  <2>1. store' # store
    BY <1>1, <1>2, MadeChanges
  <2>2. desk' = [desk EXCEPT !.editor = None, !.confirmation = None]
    BY <1>2 DEF Made, Running
  <2>3. desk'.confirmation = None
    BY <1>1, <2>2, RunningIs, DeskIs
  <2> QED
    BY <2>1, <2>3 DEF DeskKeeps, DeskWork, DeskKept
<1>3. CASE /\ desk.confirmation.mode = "edit"
           /\ store.version[desk.confirmation.of] # desk.confirmation.expected
           /\ Outdated(desk.confirmation.of)
  BY <1>1, <1>3, OutdatedWork
<1>4. CASE UNCHANGED desk
  BY <1>4, DeskUnmoved
<1> QED
  BY <1>1, <1>2, <1>3, <1>4 DEF ConfirmCommand

LEMMA DeskKeysWork ==
  ASSUME IInv, DeskWork, Running', DeskForms \/ DeskTyping
  PROVE  DeskKeeps
BY ComingWork, TypingWork, ReviewingWork, LeavingWork, ConfirmCommandWork
   DEF DeskForms, DeskTyping

-----------------------------------------------------------------------------
(* Work in the form of a skill *)

(* The starting points of a new skill are offered only while there is no draft. *)
ShelfWork(k) == k.editor # None => k.editor \in SkillForms /\ k.pane # "CreateSource"

ShelfKept ==
    shelf.editor # None /\ ~Same(shelf.editor, shelf'.editor) =>
        shelf.page = "discard" \/ store' # store

ShelfKeeps == ShelfWork(shelf') /\ ShelfKept

(* What the methods of the form keep of a draft *)
Retains(e, form) == e \in SkillForms => form \in SkillForms /\ form.mode = e.mode /\ form.of = e.of

(* What keys, refreshes and errors keep of the tab *)
Tends(k, j) ==
    /\ IsShelf(j)
    /\ j.editor = k.editor \/ (k.editor # None /\ Retains(k.editor, j.editor))
    /\ j.pane = k.pane \/ j.pane # "CreateSource"

LEMMA TendsKeeps ==
  ASSUME ShelfWork(shelf), Tends(shelf, shelf')
  PROVE  ShelfKeeps
BY NoneIsNoForm DEF ShelfWork, ShelfKeeps, ShelfKept, Tends, Retains, Same

LEMMA TendsChain ==
  ASSUME NEW k, NEW j, Tends(k, j), NEW i, Tends(j, i)
  PROVE  Tends(k, i)
BY DEF Tends, Retains

LEMMA AlikeTends ==
  ASSUME NEW k, NEW j, Alike(k, j), j.pane = k.pane \/ j.pane # "CreateSource"
  PROVE  Tends(k, j)
BY DEF Alike, Tends

(* Views and fields *)
LEMMA TendsAre ==
  ASSUME NEW k, IsShelf(k)
  PROVE  /\ Tends(k, k)
         /\ \A x : /\ Tends(k, [k EXCEPT !.focus = x]) /\ Tends(k, [k EXCEPT !.sel = x])
                   /\ Tends(k, [k EXCEPT !.past = x]) /\ Tends(k, [k EXCEPT !.made = x])
                   /\ Tends(k, [k EXCEPT !.origin = x]) /\ Tends(k, [k EXCEPT !.page = x])
                   /\ Tends(k, [k EXCEPT !.from = x]) /\ Tends(k, [k EXCEPT !.sample = x])
                   /\ Tends(k, [k EXCEPT !.detail = x]) /\ Tends(k, [k EXCEPT !.registered = x])
                   /\ Tends(k, [k EXCEPT !.confirmation = x]) /\ Tends(k, [k EXCEPT !.agent = x])
                   /\ Tends(k, [k EXCEPT !.assignment = x]) /\ Tends(k, [k EXCEPT !.source = x])
         /\ \A pane : pane # "CreateSource" => Tends(k, [k EXCEPT !.pane = pane])
         /\ \A versions : Tends(k, WithSkills(k, versions))
         /\ \A ref : /\ Tends(k, Found(k, ref)) /\ Tends(k, WithSkill(k, ref))
                     /\ Tends(k, WithSkillVersion(k, ref)) /\ Tends(k, WithSkillHistory(k, ref))
         /\ Tends(k, NoContext(k))
         /\ \A pane : pane # "CreateSource" /\ Tends(shelf, k) => Tends(shelf, Presented(k, pane))
<1>1. Tends(k, k)
  BY DEF Tends
<1>2. \A x : /\ Tends(k, [k EXCEPT !.focus = x]) /\ Tends(k, [k EXCEPT !.sel = x])
             /\ Tends(k, [k EXCEPT !.past = x]) /\ Tends(k, [k EXCEPT !.made = x])
             /\ Tends(k, [k EXCEPT !.origin = x]) /\ Tends(k, [k EXCEPT !.page = x])
             /\ Tends(k, [k EXCEPT !.from = x]) /\ Tends(k, [k EXCEPT !.sample = x])
  BY DEF IsShelf, Tends
<1>3. \A x : /\ Tends(k, [k EXCEPT !.detail = x]) /\ Tends(k, [k EXCEPT !.registered = x])
             /\ Tends(k, [k EXCEPT !.confirmation = x]) /\ Tends(k, [k EXCEPT !.agent = x])
             /\ Tends(k, [k EXCEPT !.assignment = x]) /\ Tends(k, [k EXCEPT !.source = x])
  BY DEF IsShelf, Tends
<1>4. \A pane : pane # "CreateSource" => Tends(k, [k EXCEPT !.pane = pane])
  BY DEF IsShelf, Tends
<1>5. \A versions : Tends(k, WithSkills(k, versions))
  BY ViewsAre, AlikeTends
<1>6. \A ref : Tends(k, Found(k, ref))
  BY ViewsAre, AlikeTends
<1>7. \A ref : Tends(k, WithSkill(k, ref)) /\ Tends(k, WithSkillVersion(k, ref))
  <2>1. \A ref : /\ IsShelf(Found(k, ref)) /\ Found(k, ref).editor = k.editor
                 /\ Found(k, ref).pane = k.pane
    BY ViewsAre DEF Alike
  <2>2. \A ref : /\ WithSkill(k, ref).pane = "Detail"
                 /\ WithSkillVersion(k, ref).pane = k.pane
    BY <2>1 DEF WithSkill, WithSkillVersion, IsShelf
  <2> QED
    BY <2>2, ViewsAre, AlikeTends
<1>8. (\A ref : Tends(k, WithSkillHistory(k, ref))) /\ Tends(k, NoContext(k))
  BY DEF IsShelf, Tends, WithSkillHistory, NoContext
<1>9. \A pane : pane # "CreateSource" /\ Tends(shelf, k) => Tends(shelf, Presented(k, pane))
  BY DEF IsShelf, Tends, Presented
<1> QED
  BY <1>1, <1>2, <1>3, <1>4, <1>5, <1>6, <1>7, <1>8, <1>9

(* The methods of the form *)
LEMMA SkillFormIs ==
  ASSUME NEW e \in SkillForms
  PROVE  /\ e # None /\ e.draft \in SkillDrafts
         /\ \A f \in K!DraftFields \cup {"reference name", "review"} : Retains(e, [e EXCEPT !.field = f])
         /\ \A n \in {"none", "empty", "edited", "added"} : Retains(e, [e EXCEPT !.note = n])
         /\ \A d \in SkillDrafts : Retains(e, [e EXCEPT !.draft = d])
         /\ \A a \in BOOLEAN : Retains(e, [e EXCEPT !.awaited = a])
         /\ \A r \in SkillReviews \cup {None} : Retains(e, [e EXCEPT !.review = r])
         /\ Retains(e, K!NoReview(e))
<1>1. e # None /\ e.draft \in SkillDrafts
  BY NoneIsNoForm DEF SkillForms
<1>2. /\ \A f \in K!DraftFields \cup {"reference name", "review"} : Retains(e, [e EXCEPT !.field = f])
      /\ \A n \in {"none", "empty", "edited", "added"} : Retains(e, [e EXCEPT !.note = n])
      /\ \A d \in SkillDrafts : Retains(e, [e EXCEPT !.draft = d])
      /\ \A a \in BOOLEAN : Retains(e, [e EXCEPT !.awaited = a])
      /\ \A r \in SkillReviews \cup {None} : Retains(e, [e EXCEPT !.review = r])
  BY DEF SkillForms, Retains
<1>3. Retains(e, K!NoReview(e))
  BY DEF SkillForms, Retains, K!NoReview
<1> QED
  BY <1>1, <1>2, <1>3

LEMMA RetainsChain ==
  ASSUME NEW e, NEW f, Retains(e, f), NEW g, Retains(f, g)
  PROVE  Retains(e, g)
BY DEF Retains

LEMMA DraftsAre ==
  ASSUME NEW d \in SkillDrafts, NEW f, NEW says \in {"old", "new", "bad"}
  PROVE  [d EXCEPT ![f] = says] \in SkillDrafts
BY DEF SkillDrafts

(* A text that is set in the draft *)
LEMMA SaidRetains ==
  ASSUME NEW e \in SkillForms, NEW f, NEW says \in {"old", "new", "bad"}
  PROVE  Retains(e, [K!NoReview(e) EXCEPT !.draft[f] = says])
<1> DEFINE bare == K!NoReview(e)
           draft == [bare.draft EXCEPT ![f] = says]
<1>1. bare \in SkillForms /\ Retains(e, bare)
  BY SkillFormIs DEF Retains
<1> HIDE DEF bare
<1>2. draft \in SkillDrafts
  BY <1>1, SkillFormIs, DraftsAre
<1>3. Retains(bare, [bare EXCEPT !.draft = draft])
  BY <1>1, <1>2, SkillFormIs
<1>4. [bare EXCEPT !.draft[f] = says] = [bare EXCEPT !.draft = draft]
  OBVIOUS
<1> QED
  BY <1>1, <1>3, <1>4, RetainsChain DEF bare

LEMMA MethodsRetain ==
  ASSUME NEW e \in SkillForms
  PROVE  /\ \A f : \A says \in {"old", "new", "bad"} : Retains(e, K!SetField(e, f, says))
         /\ \A f \in K!DraftFields : Retains(e, K!SelectField(e, f))
         /\ \A what : Retains(e, K!OpenNote(e, what))
         /\ Retains(e, K!WriteNote(e)) /\ Retains(e, K!RemoveNote(e))
         /\ \A taken : Retains(e, K!PutNote(e, taken))
         /\ \A taken : Retains(e, K!SelectField(K!PutNote(e, taken), "references"))
         /\ Retains(e, K!AtReview(e))
         /\ Retains(e, K!PreviewAsked(K!AtReview(e)))
<1>1. Retains(e, e)
  BY DEF Retains
<1>2. \A f : \A says \in {"old", "new", "bad"} : Retains(e, K!SetField(e, f, says))
  BY <1>1, SaidRetains DEF K!SetField
<1>3. \A d \in SkillForms : \A f \in K!DraftFields : Retains(d, K!SelectField(d, f))
  BY SkillFormIs DEF K!SelectField
<1>4. \A what : Retains(e, K!OpenNote(e, what))
  <2> SUFFICES ASSUME NEW what PROVE Retains(e, K!OpenNote(e, what))
    OBVIOUS
  <2> DEFINE n == IF K!NotePending(e) THEN e.note ELSE IF what = "add" THEN "empty" ELSE "edited"
             noted == [e EXCEPT !.note = n]
  <2>1. n \in {"none", "empty", "edited", "added"}
    BY DEF SkillForms
  <2>2. K!OpenNote(e, what) = [noted EXCEPT !.field = "reference name"]
    BY DEF K!OpenNote
  <2> HIDE DEF n
  <2>3. Retains(e, noted) /\ noted \in SkillForms
    BY <2>1, SkillFormIs DEF Retains
  <2> HIDE DEF noted
  <2>4. Retains(noted, [noted EXCEPT !.field = "reference name"])
    BY <2>3, SkillFormIs
  <2> QED
    BY <2>2, <2>3, <2>4, RetainsChain
<1>5. Retains(e, K!WriteNote(e))
  <2> DEFINE bare == K!NoReview(e)
             n == IF bare.note = "empty" THEN "added" ELSE bare.note
  <2>1. bare \in SkillForms /\ Retains(e, bare)
    BY SkillFormIs DEF Retains
  <2>2. K!WriteNote(e) = [bare EXCEPT !.note = n]
    BY DEF K!WriteNote
  <2> HIDE DEF bare
  <2>3. n \in {"none", "empty", "edited", "added"}
    BY <2>1 DEF SkillForms
  <2> HIDE DEF n
  <2>4. Retains(bare, [bare EXCEPT !.note = n])
    BY <2>1, <2>3, SkillFormIs
  <2> QED
    BY <2>1, <2>2, <2>4, RetainsChain
<1>6. Retains(e, K!RemoveNote(e))
  BY <1>1, SaidRetains DEF K!RemoveNote
<1>7. \A taken : Retains(e, K!PutNote(e, taken))
  <2> DEFINE said == [K!NoReview(e) EXCEPT !.draft["references"] = "new"]
             noted == [said EXCEPT !.note = "none"]
  <2>1. Retains(e, said) /\ said \in SkillForms
    BY SaidRetains DEF Retains
  <2>2. [K!NoReview(e) EXCEPT !.draft["references"] = "new", !.note = "none", !.field = "reference name"]
          = [noted EXCEPT !.field = "reference name"]
    OBVIOUS
  <2> HIDE DEF said
  <2>3. Retains(said, noted) /\ noted \in SkillForms
    BY <2>1, SkillFormIs DEF Retains
  <2> HIDE DEF noted
  <2>4. Retains(noted, [noted EXCEPT !.field = "reference name"])
    BY <2>3, SkillFormIs
  <2> QED
    BY <1>1, <2>1, <2>2, <2>3, <2>4, RetainsChain DEF K!PutNote
<1>8. \A taken : Retains(e, K!SelectField(K!PutNote(e, taken), "references"))
  <2>1. \A taken : K!PutNote(e, taken) \in SkillForms
    BY <1>7 DEF Retains
  <2>2. "references" \in K!DraftFields
    BY DEF K!DraftFields
  <2> QED
    BY <1>3, <1>7, <2>1, <2>2, RetainsChain
<1>9. /\ Retains(e, K!AtReview(e)) /\ K!AtReview(e) \in SkillForms
      /\ Retains(e, K!PreviewAsked(K!AtReview(e)))
  <2>1. Retains(e, K!AtReview(e)) /\ K!AtReview(e) \in SkillForms
    BY SkillFormIs DEF Retains, K!AtReview
  <2>2. Retains(K!AtReview(e), K!PreviewAsked(K!AtReview(e)))
    BY <2>1, SkillFormIs DEF K!PreviewAsked
  <2> QED
    BY <2>1, <2>2, RetainsChain
<1> QED
  BY <1>2, <1>3, <1>4, <1>5, <1>6, <1>7, <1>8, <1>9

LEMMA NewSkillForm ==
  ASSUME NEW s \in Skills, NEW v \in Nat, NEW seeded \in BOOLEAN
  PROVE  K!ForCreate(seeded) \in SkillForms /\ K!ForVersion(s, v) \in SkillForms
<1>1. \A b \in BOOLEAN :
         [f \in EditedSkillFields |-> IF b \/ f \in {"references", "tags"} THEN "old" ELSE "bad"] \in SkillDrafts
  BY DEF SkillDrafts
<1>2. "display name" \in K!DraftFields
  BY DEF K!DraftFields, K!TextFields
<1> QED
  BY <1>1, <1>2 DEF K!ForCreate, K!ForVersion, K!Opened, SkillForms

-----------------------------------------------------------------------------
(* The keys of the tab, and what they keep of the draft *)

(* A key that changes what is shown *)
LEMMA ShelveTends ==
  ASSUME ShelfWork(shelf), NEW k, Tends(shelf, k), Shelve(k)
  PROVE  ShelfKeeps
BY TendsKeeps DEF Shelve

(* The tab as it is *)
LEMMA ShelfUnmoved ==
  ASSUME IInv, ShelfWork(shelf), UNCHANGED shelf
  PROVE  ShelfKeeps
BY TendsAre, TendsKeeps DEF IInv

(* A form that is opened where there was none *)
LEMMA OpensForm ==
  ASSUME shelf.editor = None, NEW k, IsShelf(k), NEW e \in SkillForms, shelf' = WithForm(k, e)
  PROVE  ShelfKeeps
<1>1. shelf'.editor = e /\ shelf'.pane = "Editor"
  BY DEF WithForm, IsShelf
<1> QED
  BY <1>1 DEF ShelfKeeps, ShelfWork, ShelfKept

LEMMA BrowsingWork ==
  ASSUME IInv, ShelfWork(shelf),
         \/ OpenSkill \/ TabOnShelf \/ OpenSkillHistory \/ OpenSkillVersion
         \/ ResumeSkillDraft \/ OpenSources
         \/ \E i \in 0 .. MaxSkillVersion : PickSkillVersion(i)
         \/ \E s \in Skills : PickSkill(s)
         \/ \E s \in Skills \cup {None} : PickSource(s)
  PROVE  ShelfKeeps
<1> USE DEF IInv
<1>1. CASE OpenSkill
  <2> DEFINE there == [shelf EXCEPT !.focus = "Workspace"]
             shown == WithSkill(there, Ref(shelf.sel, store.skills[shelf.sel]))
             made == IF shown.made = shelf.sel THEN None ELSE shown.made
             read == [shown EXCEPT !.made = made]
  <2>1. Tends(shelf, there) /\ IsShelf(there)
    BY TendsAre DEF Tends
  <2> HIDE DEF there
  <2>2. Tends(there, shown) /\ IsShelf(shown)
    BY <2>1, TendsAre DEF Tends
  <2> HIDE DEF shown
  <2>3. Tends(shown, read) /\ IsShelf(read)
    BY <2>2, TendsAre DEF Tends
  <2> HIDE DEF read
  <2>4. Tends(shelf, read)
    BY <2>1, <2>2, <2>3, TendsChain
  <2>5. Tends(shelf, Presented(read, "Detail"))
    BY <2>3, <2>4, TendsAre
  <2>6. Shelve(Presented(read, "Detail"))
    BY <1>1 DEF OpenSkill, Fetched, there, shown, read
  <2> QED
    BY <2>5, <2>6, ShelveTends
<1>2. CASE TabOnShelf
  <2> DEFINE focus == IF shelf.focus = "List" THEN "Workspace" ELSE "List"
             pane == IF shelf.pane = "List" /\ shelf.focus = "List" THEN "Detail" ELSE shelf.pane
             k == [shelf EXCEPT !.focus = focus, !.pane = pane]
  <2>1. Shelve(k)
    BY <1>2 DEF TabOnShelf
  <2>2. IsShelf(k) /\ k.editor = shelf.editor /\ k.pane = pane
    BY DEF IsShelf
  <2> HIDE DEF k
  <2>3. Tends(shelf, k)
    BY <2>2 DEF Tends
  <2> QED
    BY <2>1, <2>3, ShelveTends
<1>3. CASE OpenSkillHistory
  <2> DEFINE read == WithSkillHistory(shelf, Ref(shelf.detail.s, store.skills[shelf.detail.s]))
  <2>1. Tends(shelf, read) /\ IsShelf(read)
    BY TendsAre DEF Tends
  <2>2. Shelve(Presented(read, "History"))
    BY <1>3 DEF OpenSkillHistory, Fetched
  <2> HIDE DEF read
  <2> QED
    BY <2>1, <2>2, TendsAre, ShelveTends
<1>4. CASE OpenSkillVersion
  <2> DEFINE read == WithSkillVersion(shelf, SelectedRef(shelf))
  <2>1. Tends(shelf, read) /\ IsShelf(read)
    BY TendsAre DEF Tends
  <2>2. Shelve(Presented(read, "Detail"))
    BY <1>4 DEF OpenSkillVersion, Fetched
  <2> HIDE DEF read
  <2> QED
    BY <2>1, <2>2, TendsAre, ShelveTends
<1>5. CASE ResumeSkillDraft
  <2> DEFINE k == [shelf EXCEPT !.pane = "Editor", !.page = "home", !.focus = "Workspace"]
  <2>1. Tends(shelf, k)
    BY DEF Tends, IsShelf
  <2> QED
    BY <1>5, <2>1, ShelveTends DEF ResumeSkillDraft
<1>6. CASE OpenSources
  <2>1. shelf.editor = None /\ shelf'.editor = shelf.editor
    BY <1>6 DEF OpenSources, Shelve, IsShelf
  <2> QED
    BY <2>1 DEF ShelfKeeps, ShelfWork, ShelfKept
<1>7. ASSUME NEW i, PickSkillVersion(i)
      PROVE  ShelfKeeps
  BY <1>7, TendsAre, ShelveTends DEF PickSkillVersion
<1>8. ASSUME NEW s, PickSkill(s)
      PROVE  ShelfKeeps
  <2> DEFINE there == [shelf EXCEPT !.sel = s]
  <2>1. Tends(shelf, there) /\ IsShelf(there)
    BY TendsAre DEF Tends
  <2>2. shelf' = NoContext(there)
    BY <1>8 DEF PickSkill
  <2> HIDE DEF there
  <2> QED
    BY <2>1, <2>2, TendsAre, TendsChain, TendsKeeps
<1>9. ASSUME NEW s, PickSource(s)
      PROVE  ShelfKeeps
  <2>1. shelf' = [shelf EXCEPT !.source = s, !.sample = None]
    BY <1>9 DEF PickSource
  <2>2. Tends(shelf, [shelf EXCEPT !.source = s, !.sample = None])
    BY DEF Tends, IsShelf
  <2> QED
    BY <2>1, <2>2, TendsKeeps
<1> QED
  BY <1>1, <1>2, <1>3, <1>4, <1>5, <1>6, <1>7, <1>8, <1>9

LEMMA StartingWork ==
  ASSUME IInv, AInv, ShelfWork(shelf), StartSkill \/ StartVersion
  PROVE  ShelfKeeps
<1> DEFINE there == [shelf EXCEPT !.focus = "Workspace"]
<1>1. Running /\ IsShelf(shelf)
  BY ShelfKeyIs DEF StartSkill, StartVersion, IInv
<1>2. shelf.editor = None
  BY DEF StartSkill, StartVersion, ShelfKey, ShelfInteraction, ShelfWork
<1>3. Tends(shelf, there) /\ IsShelf(there)
  BY <1>1, TendsAre DEF Tends
<1>4. \A ref : IsShelf(WithSkillVersion(there, ref))
  BY <1>3, TendsAre DEF Tends
<1>5. Tells(shelf, store)
  BY <1>1, ThereIs
<1>6. FirstAgent \in Profiles /\ shelf.sel \in Skills /\ shelf.rows[shelf.sel] \in Nat
  BY <1>5, FirstAgentAssumption DEF Tells, Shows
<1>7. \A seeded \in BOOLEAN : K!ForCreate(seeded) \in SkillForms
  BY <1>6, NewSkillForm
<1>8. CASE StartSkill
  <2>1. \/ shelf' = WithForm(there, K!ForCreate(FALSE))
        \/ \E ref : shelf' = WithForm(WithSkillVersion(there, ref), K!ForCreate(TRUE))
    BY <1>8 DEF StartSkill, Fetched, Shelve
  <2> HIDE DEF there
  <2> QED
    BY <1>2, <1>3, <1>4, <1>7, <2>1, OpensForm
<1>9. CASE StartVersion
  <2>1. shelf.detail.s = shelf.sel /\ shelf.detail.v = shelf.rows[shelf.sel]
    BY <1>9 DEF StartVersion, Ref
  <2>2. K!ForVersion(shelf.detail.s, shelf.detail.v) \in SkillForms
    BY <1>6, <2>1, NewSkillForm
  <2>3. shelf' = WithForm(there, K!ForVersion(shelf.detail.s, shelf.detail.v))
    BY <1>9 DEF StartVersion, Shelve
  <2> HIDE DEF there
  <2> QED
    BY <1>2, <1>3, <2>2, <2>3, OpensForm
<1> QED
  BY <1>8, <1>9

LEMMA ShelveFormWork ==
  ASSUME IInv, ShelfWork(shelf), shelf.editor # None, NEW e, Retains(shelf.editor, e), NEW page,
         ShelveForm(e, page)
  PROVE  ShelfKeeps
<1>1. Tends(shelf, [shelf EXCEPT !.editor = e, !.page = page])
  BY DEF IInv, IsShelf, Tends
<1> QED
  BY <1>1, ShelveTends DEF ShelveForm

LEMMA WritingWork ==
  ASSUME IInv, ShelfWork(shelf),
         \/ OpenSkillDiscard
         \/ \E f \in EditedSkillFields : OpenSkillField(f)
         \/ \E says \in {"old", "new", "bad"} : TypeSkill(says)
         \/ NoteForms
  PROVE  ShelfKeeps
<1>1. \E page : SkillPage(page)
  BY DEF OpenSkillDiscard, OpenSkillField, TypeSkill, NoteForms, OpenSkillNote, WriteSkillNote,
         PutSkillNote, RemoveSkillNote, OnNotes
<1>2. shelf.editor # None
  BY <1>1 DEF SkillPage, InSkillForm
<1>3. shelf.editor \in SkillForms
  BY <1>2 DEF ShelfWork
<1>4. \A f \in EditedSkillFields : f \in K!DraftFields
  BY EditedSkillFieldsAssumption
<1>5. /\ Retains(shelf.editor, shelf.editor)
      /\ \A f : \A says \in {"old", "new", "bad"} : Retains(shelf.editor, K!SetField(shelf.editor, f, says))
      /\ \A f \in EditedSkillFields : Retains(shelf.editor, K!SelectField(shelf.editor, f))
      /\ \A what : Retains(shelf.editor, K!OpenNote(shelf.editor, what))
      /\ Retains(shelf.editor, K!WriteNote(shelf.editor))
      /\ Retains(shelf.editor, K!RemoveNote(shelf.editor))
      /\ \A taken : Retains(shelf.editor, K!PutNote(shelf.editor, taken))
      /\ \A taken : Retains(shelf.editor, K!SelectField(K!PutNote(shelf.editor, taken), "references"))
  BY <1>3, <1>4, MethodsRetain DEF Retains
<1>6. \E form, page : Retains(shelf.editor, form) /\ ShelveForm(form, page)
  BY <1>5 DEF OpenSkillDiscard, OpenSkillField, TypeSkill, NoteForms, OpenSkillNote, WriteSkillNote,
              PutSkillNote, RemoveSkillNote
<1> QED
  BY <1>2, <1>6, ShelveFormWork

-----------------------------------------------------------------------------
(* Cancellations, and what an error leaves *)

LEMMA CancelledTends ==
  ASSUME NEW k, IsShelf(k), Cancelled(k)
  PROVE  Tends(k, shelf')
<1>1. shelf' = [k EXCEPT !.registered = FALSE]
  BY DEF Cancelled
<1> QED
  BY <1>1, TendsAre

LEMMA RecoveredTends ==
  ASSUME NEW k, IsShelf(k), k.editor # None => k.editor \in SkillForms
  PROVE  Tends(k, Recovered(k))
<1> DEFINE bare == [k EXCEPT !.confirmation = None]
           written == [bare EXCEPT !.editor = K!NoReview(k.editor), !.pane = "Editor"]
           unwritten == [bare EXCEPT !.pane = "Detail"]
           shown == IF k.editor # None THEN written ELSE unwritten
<1>1. IsShelf(bare) /\ bare.editor = k.editor /\ bare.pane = k.pane
  BY DEF IsShelf
<1>2. Recovered(k) = IF BackAtAgent(k) THEN [shown EXCEPT !.origin = None] ELSE shown
  BY <1>1 DEF Recovered
<1> HIDE DEF bare
<1>3. IsShelf(written) /\ written.editor = K!NoReview(k.editor) /\ written.pane = "Editor"
  BY <1>1 DEF IsShelf
<1>4. IsShelf(unwritten) /\ unwritten.editor = k.editor /\ unwritten.pane = "Detail"
  BY <1>1 DEF IsShelf
<1> HIDE DEF written, unwritten
<1>5. Tends(k, shown)
  <2>1. CASE k.editor # None
    BY <1>3, <2>1, SkillFormIs DEF Tends
  <2>2. CASE k.editor = None
    BY <1>4, <2>2 DEF Tends
  <2> QED
    BY <2>1, <2>2
<1> HIDE DEF shown
<1>6. Tends(shown, [shown EXCEPT !.origin = None])
  BY <1>5, TendsAre DEF Tends
<1> QED
  BY <1>2, <1>5, <1>6, TendsChain

LEMMA RecoverTends ==
  ASSUME NEW k, IsShelf(k), k.editor # None => k.editor \in SkillForms, Recover(k)
  PROVE  Tends(k, shelf')
<1>1. Tends(k, Recovered(k)) /\ IsShelf(Recovered(k))
  BY RecoveredTends DEF Tends
<1>2. Tends(Recovered(k), shelf')
  BY <1>1, CancelledTends DEF Recover
<1> QED
  BY <1>1, <1>2, TendsChain

(* An error that comes to a view of the tab *)
LEMMA RecoverWork ==
  ASSUME IInv, ShelfWork(shelf), NEW k, Tends(shelf, k), Recover(k)
  PROVE  ShelfKeeps
<1>1. IsShelf(k) /\ (k.editor # None => k.editor \in SkillForms)
  BY DEF Tends, ShelfWork, Retains
<1> QED
  BY <1>1, RecoverTends, TendsChain, TendsKeeps

LEMMA CancelledWork ==
  ASSUME ShelfWork(shelf), NEW k, Tends(shelf, k), Cancelled(k)
  PROVE  ShelfKeeps
<1>1. IsShelf(k)
  BY DEF Tends
<1> QED
  BY <1>1, CancelledTends, TendsChain, TendsKeeps

LEMMA UnwindWork ==
  ASSUME IInv, ShelfWork(shelf), UnwindShelf
  PROVE  ShelfKeeps
<1>1. IsShelf(shelf)
  BY DEF IInv
<1>2. PICK to, focus : /\ to # "CreateSource"
                       /\ \/ shelf' = [shelf EXCEPT !.origin = None]
                          \/ shelf' = [shelf EXCEPT !.pane = to, !.focus = focus]
  BY DEF UnwindShelf
<1>3. Tends(shelf, [shelf EXCEPT !.pane = to, !.focus = focus])
  BY <1>1, <1>2 DEF Tends, IsShelf
<1>4. Tends(shelf, [shelf EXCEPT !.origin = None])
  BY <1>1, TendsAre
<1>5. CASE shelf' = [shelf EXCEPT !.origin = None]
  BY <1>4, <1>5, TendsKeeps
<1>6. CASE shelf' = [shelf EXCEPT !.pane = to, !.focus = focus]
  BY <1>3, <1>6, TendsKeeps
<1> QED
  BY <1>2, <1>5, <1>6

LEMMA LeavingPageWork ==
  ASSUME IInv, ShelfWork(shelf), LeaveSkillPage \/ DiscardSkill
  PROVE  ShelfKeeps
<1>1. IsShelf(shelf)
  BY DEF IInv
<1>2. shelf.editor # None /\ shelf.editor \in SkillForms
  BY DEF LeaveSkillPage, DiscardSkill, SkillPage, InSkillForm, ShelfWork
<1>3. CASE LeaveSkillPage
  <2> DEFINE bare == [shelf EXCEPT !.page = "home", !.editor = K!NoReview(shelf.editor)]
             section == [shelf EXCEPT !.page = "section", !.editor = K!SelectField(shelf.editor, "references")]
  <2>1. Tends(shelf, bare)
    BY <1>1, <1>2, SkillFormIs DEF Tends, IsShelf
  <2>2. Tends(shelf, section)
    <3>1. Retains(shelf.editor, K!SelectField(shelf.editor, "references"))
      BY <1>2, MethodsRetain DEF K!DraftFields
    <3> QED
      BY <1>1, <1>2, <3>1 DEF Tends, IsShelf
  <2>3. Tends(shelf, [shelf EXCEPT !.pane = "Detail"]) /\ Tends(shelf, [shelf EXCEPT !.page = "home"])
    BY <1>1, TendsAre
  <2>4. \/ Cancelled(bare) \/ Shelve(section)
        \/ Shelve([shelf EXCEPT !.pane = "Detail"])
        \/ Shelve([shelf EXCEPT !.page = "home"])
    BY <1>3 DEF LeaveSkillPage
  <2> HIDE DEF bare, section
  <2> QED
    BY <2>1, <2>2, <2>3, <2>4, CancelledWork, ShelveTends
<1>4. CASE DiscardSkill
  <2> DEFINE k == [shelf EXCEPT !.editor = None, !.confirmation = None, !.pane = "Detail"]
  <2>1. Cancelled(k) /\ shelf.page = "discard"
    BY <1>4 DEF DiscardSkill, SkillPage
  <2>2. IsShelf(k) /\ k.editor = None
    BY <1>1 DEF IsShelf
  <2> HIDE DEF k
  <2>3. shelf'.editor = None
    BY <2>1, <2>2, CancelledTends DEF Tends
  <2> QED
    BY <2>1, <2>3 DEF ShelfKeeps, ShelfWork, ShelfKept
<1> QED
  BY <1>3, <1>4

LEMMA ReviewSkillWork ==
  ASSUME IInv, ShelfWork(shelf), ReviewSkill
  PROVE  ShelfKeeps
<1> DEFINE e == K!AtReview(shelf.editor)
           form == K!PreviewAsked(e)
           asked == [shelf EXCEPT !.editor = form, !.page = "review"]
           review == [op |-> e.mode, s |-> e.of, expected |-> e.expected, draft |-> e.draft]
<1>1. IsShelf(shelf) /\ shelf.editor # None /\ shelf.editor \in SkillForms
  BY DEF IInv, ReviewSkill, SkillPage, InSkillForm, ShelfWork
<1>2. Retains(shelf.editor, e) /\ e \in SkillForms /\ Retains(shelf.editor, form) /\ form \in SkillForms
  BY <1>1, MethodsRetain DEF Retains
<1>3. review \in SkillReviews
  BY <1>2 DEF SkillForms, SkillReviews
<1>4. Retains(form, K!Previewed(form, review))
  <2> DEFINE waited == [form EXCEPT !.awaited = FALSE]
  <2>1. Retains(form, waited) /\ waited \in SkillForms
    BY <1>2, SkillFormIs DEF Retains
  <2>2. K!Previewed(form, review) \in {form, [waited EXCEPT !.review = review]}
    BY DEF K!Previewed
  <2> HIDE DEF waited, review
  <2>3. Retains(waited, [waited EXCEPT !.review = review])
    BY <1>3, <2>1, SkillFormIs
  <2>4. Retains(form, form)
    BY DEF Retains
  <2> QED
    BY <2>1, <2>2, <2>3, <2>4, RetainsChain
<1>5. \/ shelf' = [shelf EXCEPT !.page = "review"]
      \/ \E c : shelf' = [shelf EXCEPT !.editor = e, !.page = "review", !.from = "skills",
                                       !.confirmation = c, !.pane = "Confirmation"]
      \/ shelf' = [asked EXCEPT !.editor = K!Previewed(@, review), !.registered = TRUE]
      \/ Recover(asked)
  BY DEF ReviewSkill, Shelve
<1> HIDE DEF e, form, review
<1>6. IsShelf(asked) /\ asked.editor = form /\ asked.pane = shelf.pane
  BY <1>1 DEF IsShelf
<1>7. Tends(shelf, asked)
  BY <1>1, <1>2, <1>6 DEF Tends
<1>8. CASE shelf' = [shelf EXCEPT !.page = "review"]
  BY <1>1, <1>8, TendsAre, TendsKeeps
<1>9. ASSUME NEW c, shelf' = [shelf EXCEPT !.editor = e, !.page = "review", !.from = "skills",
                                           !.confirmation = c, !.pane = "Confirmation"]
      PROVE  ShelfKeeps
  <2>1. IsShelf(shelf') /\ shelf'.editor = e /\ shelf'.pane = "Confirmation"
    BY <1>1, <1>9 DEF IsShelf
  <2>2. Tends(shelf, shelf')
    BY <1>1, <1>2, <2>1 DEF Tends
  <2> QED
    BY <2>2, TendsKeeps
<1>10. CASE shelf' = [asked EXCEPT !.editor = K!Previewed(@, review), !.registered = TRUE]
  <2> HIDE DEF asked
  <2>1. shelf' = [asked EXCEPT !.editor = K!Previewed(form, review), !.registered = TRUE]
    BY <1>6, <1>10
  <2>2. IsShelf(shelf') /\ shelf'.editor = K!Previewed(form, review) /\ shelf'.pane = asked.pane
    BY <1>6, <2>1 DEF IsShelf
  <2>3. Tends(asked, shelf')
    BY <1>2, <1>4, <1>6, <2>2, NoneIsNoForm DEF Tends
  <2> QED
    BY <1>7, <2>3, TendsChain, TendsKeeps
<1>11. CASE Recover(asked)
  BY <1>7, <1>11, RecoverWork
<1> QED
  BY <1>5, <1>8, <1>9, <1>10, <1>11

-----------------------------------------------------------------------------
(* Assignments and confirmations, and what they keep of the draft *)

LEMMA RequestWork ==
  ASSUME IInv, ShelfWork(shelf), NEW k, Tends(shelf, k), NEW r, RequestAssignment(k, r)
  PROVE  ShelfKeeps
<1>1. CASE shelf' = Installed(k, r)
  <2>1. IsShelf(Installed(k, r)) /\ Installed(k, r).editor = k.editor /\ Installed(k, r).pane = "Confirmation"
    BY DEF Tends, Installed, IsShelf
  <2>2. Tends(k, Installed(k, r))
    BY <2>1 DEF Tends
  <2> QED
    BY <1>1, <2>2, TendsChain, TendsKeeps
<1>2. CASE Recover(k)
  BY <1>2, RecoverWork
<1> QED
  BY <1>1, <1>2 DEF RequestAssignment

LEMMA AssigningWork ==
  ASSUME IInv, ShelfWork(shelf),
         \/ ReviewAssignment \/ CloseSkillPanel
         \/ \E p : AssignTo(p)
         \/ \E row : ViewAssigned(row)
         \/ \E row, kind : ChangeAssigned(row, kind)
  PROVE  ShelfKeeps
<1>1. IsShelf(shelf)
  BY DEF IInv
<1>2. CASE ReviewAssignment
  <2>1. \E x, r : RequestAssignment([shelf EXCEPT !.from = x], r)
    BY <1>2 DEF ReviewAssignment
  <2> QED
    BY <1>1, <2>1, TendsAre, RequestWork
<1>3. CASE CloseSkillPanel
  BY <1>3, ShelfUnmoved DEF CloseSkillPanel
<1>4. ASSUME NEW p, AssignTo(p)
      PROVE  ShelfKeeps
  <2>1. PICK x, y : Shelve(Presented([shelf EXCEPT !.agent = x, !.assignment = y], "AssignmentReview"))
    BY <1>4 DEF AssignTo, Fetched
  <2>2. Tends(shelf, [shelf EXCEPT !.agent = x, !.assignment = y])
    BY <1>1 DEF Tends, IsShelf
  <2> DEFINE k == [shelf EXCEPT !.agent = x, !.assignment = y]
  <2>3. IsShelf(k) /\ Tends(shelf, k)
    BY <2>2 DEF Tends
  <2> HIDE DEF k
  <2>4. Tends(shelf, Presented(k, "AssignmentReview"))
    BY <2>3, TendsAre
  <2> QED
    BY <2>1, <2>4, ShelveTends DEF k
<1>5. ASSUME NEW row, ViewAssigned(row)
      PROVE  ShelfKeeps
  <2> DEFINE there == [shelf EXCEPT !.origin = roster.detail.p]
             bare == NoContext(there)
             shown == WithSkillVersion(bare, row)
  <2>1. shelf' = [shown EXCEPT !.pane = "Detail"]
    BY <1>5 DEF ViewAssigned
  <2>2. Tends(shelf, there) /\ IsShelf(there)
    BY <1>1, TendsAre DEF Tends
  <2> HIDE DEF there
  <2>3. Tends(there, bare) /\ IsShelf(bare)
    BY <2>2, TendsAre DEF Tends
  <2> HIDE DEF bare
  <2>4. Tends(bare, shown) /\ IsShelf(shown)
    BY <2>3, TendsAre DEF Tends
  <2> HIDE DEF shown
  <2>5. Tends(shown, shelf')
    BY <2>1, <2>4, TendsAre
  <2> QED
    BY <2>2, <2>3, <2>4, <2>5, TendsChain, TendsKeeps
<1>6. ASSUME NEW row, NEW kind, ChangeAssigned(row, kind)
      PROVE  ShelfKeeps
  <2>1. \E x, r : RequestAssignment([shelf EXCEPT !.from = x], r)
    BY <1>6 DEF ChangeAssigned
  <2> QED
    BY <1>1, <2>1, TendsAre, RequestWork
<1> QED
  BY <1>2, <1>3, <1>4, <1>5, <1>6

LEMMA DecliningWork ==
  ASSUME IInv, ShelfWork(shelf), DeclineSkill
  PROVE  ShelfKeeps
<1>1. IsShelf(shelf)
  BY DEF IInv
<1> DEFINE bare == [shelf EXCEPT !.confirmation = None]
           form == IF bare.editor = None THEN None ELSE K!NoReview(bare.editor)
           written == [bare EXCEPT !.pane = "Editor", !.page = "review", !.editor = form]
           back == [bare EXCEPT !.pane = "Detail", !.origin = None]
           again == [bare EXCEPT !.pane = "AssignmentReview"]
<1>2. \E k \in {written, back, again} : Cancelled(k)
  BY DEF DeclineSkill
<1>3. IsShelf(bare) /\ bare.editor = shelf.editor
  BY <1>1 DEF IsShelf
<1> HIDE DEF bare
<1>4. Tends(shelf, written)
  <2>1. IsShelf(written) /\ written.editor = form /\ written.pane = "Editor"
    BY <1>3 DEF IsShelf
  <2>2. form = shelf.editor \/ (shelf.editor # None /\ Retains(shelf.editor, form))
    BY <1>3, SkillFormIs DEF ShelfWork
  <2> HIDE DEF written, form
  <2> QED
    BY <2>1, <2>2 DEF Tends
<1>5. Tends(shelf, back)
  <2>1. IsShelf(back) /\ back.editor = bare.editor /\ back.pane = "Detail"
    BY <1>3 DEF IsShelf
  <2> HIDE DEF back
  <2> QED
    BY <1>3, <2>1 DEF Tends
<1>6. Tends(shelf, again)
  <2>1. IsShelf(again) /\ again.editor = bare.editor /\ again.pane = "AssignmentReview"
    BY <1>3 DEF IsShelf
  <2> HIDE DEF again
  <2> QED
    BY <1>3, <2>1 DEF Tends
<1> HIDE DEF written, back, again
<1> QED
  BY <1>2, <1>4, <1>5, <1>6, CancelledWork

(* What a yes makes is recorded, and with that the draft is done. *)
LEMMA ConfirmingWork ==
  ASSUME IInv, AInv, ShelfWork(shelf), ConfirmSkill
  PROVE  ShelfKeeps
<1> DEFINE c == shelf.confirmation.command
<1>1. Running /\ shelf.confirmation # None /\ IsShelf(shelf)
  BY ShelfKeyIs DEF ConfirmSkill, SkillAsked, Asking, IInv
<1>2. Stocked(store) /\ Tells(shelf, store)
  BY <1>1, ThereIs
<1>3. /\ IsShelf(Spent(shelf)) /\ Spent(shelf).editor = None
  BY <1>1 DEF Spent, IsShelf
<1>4. CASE c.op = "assign" /\ AssignmentDone(c)
  <2>1. c.request.p \in Profiles
    BY <1>1, <1>2, <1>4 DEF Tells, Promised, Promises
  <2> DEFINE p == c.request.p
             versions == [store.version EXCEPT ![p] = @ + 1]
  <2>2. store'.version = versions
    BY <1>2, <1>4 DEF AssignmentDone, Stocked
  <2>3. versions[p] = store.version[p] + 1 /\ store.version[p] \in Nat
    BY <1>2, <2>1 DEF Stocked, Versions
  <2>4. store' # store
    <3>1. store.version[p] + 1 # store.version[p]
      BY <2>3
    <3> HIDE DEF versions, p
    <3> QED
      BY <2>2, <2>3, <3>1
  <2>5. \E x : shelf' = [Spent(shelf) EXCEPT !.agent = x]
    BY <1>4 DEF AssignmentDone
  <2>6. shelf'.editor = None
    BY <1>3, <2>5 DEF IsShelf
  <2> QED
    BY <2>4, <2>6 DEF ShelfKeeps, ShelfWork, ShelfKept
<1>5. ASSUME NEW s \in Skills, store' = [store EXCEPT !.skills[s] = @ + 1],
             shelf' = [Spent(shelf) EXCEPT !.made = s]
      PROVE  ShelfKeeps
  <2>1. store'.skills = [store.skills EXCEPT ![s] = @ + 1]
    BY <1>2, <1>5 DEF Stocked
  <2>2. store'.skills[s] = store.skills[s] + 1 /\ store.skills[s] \in Nat
    BY <1>2, <2>1 DEF Stocked
  <2>3. store.skills[s] + 1 # store.skills[s]
    BY <2>2
  <2>4. store' # store
    BY <2>2, <2>3
  <2>5. shelf'.editor = None
    BY <1>3, <1>5 DEF IsShelf
  <2> QED
    BY <2>4, <2>5 DEF ShelfKeeps, ShelfWork, ShelfKept
<1>6. CASE UNCHANGED shelf
  BY <1>6, ShelfUnmoved
<1>7. CASE Recover(shelf)
  BY <1>1, <1>7, TendsAre, RecoverWork
<1> QED
  BY <1>4, <1>5, <1>6, <1>7 DEF ConfirmSkill

LEMMA SkillKeysWork ==
  ASSUME IInv, AInv, ShelfWork(shelf), SkillKeys
  PROVE  ShelfKeeps
<1>1. CASE ShelfBrowsing
  BY <1>1, BrowsingWork, UnwindWork DEF ShelfBrowsing
<1>2. CASE ShelfVersions
  BY <1>2, BrowsingWork DEF ShelfVersions
<1>3. CASE ShelfForms \/ NoteForms
  BY <1>3, BrowsingWork, StartingWork, WritingWork, LeavingPageWork, ReviewSkillWork DEF ShelfForms
<1>4. CASE ShelfAssignments
  BY <1>4, AssigningWork DEF ShelfAssignments
<1>5. CASE ShelfConfirmations
  BY <1>5, DecliningWork, ConfirmingWork DEF ShelfConfirmations
<1> QED
  BY <1>1, <1>2, <1>3, <1>4, <1>5 DEF SkillKeys

-----------------------------------------------------------------------------
(* Refreshes, previews and the command line, and what they keep of the draft *)

LEMMA RefreshWork ==
  ASSUME ShelfWork(shelf), NEW k, Tends(shelf, k), NEW nav, NEW r, NEW queue, Refresh(nav, k, r, queue)
  PROVE  ShelfKeeps
<1>1. shelf' = WithSkills(k, store.skills) /\ IsShelf(k)
  BY DEF Refresh, Tends
<1>2. Tends(k, shelf')
  BY <1>1, TendsAre
<1> QED
  BY <1>2, TendsChain, TendsKeeps

LEMMA RefreshesWork ==
  ASSUME IInv, ShelfWork(shelf), RunDeferredRefresh \/ CockpitKeys \/ PreviewAnswered \/ StartPreview
  PROVE  ShelfKeeps
<1>1. IsShelf(shelf) /\ Tends(shelf, shelf)
  BY TendsAre DEF IInv
<1>2. CASE RunDeferredRefresh \/ ReloadLibrary
  BY <1>1, <1>2, RefreshWork, ShelfUnmoved DEF RunDeferredRefresh, ReloadLibrary
<1>3. CASE ShowMade \/ StartPreview
  BY <1>3, ShelfUnmoved DEF ShowMade, StartPreview
<1>4. ASSUME NEW tab, SwitchTab(tab)
      PROVE  ShelfKeeps
  <2> DEFINE origin == IF shelf.origin \in Profiles THEN shelf.origin ELSE Cockpit
             focus == IF shelf.pane = "List" THEN "List" ELSE shelf.focus
             there == [shelf EXCEPT !.origin = origin, !.focus = focus]
             k == IF tab # "skills" THEN shelf
                  ELSE [shelf EXCEPT !.origin = IF @ \in Profiles THEN @ ELSE Cockpit,
                                     !.focus = IF shelf.pane = "List" THEN "List" ELSE @]
  <2>1. shelf' = k \/ \E nav, r : Refresh(nav, k, r, deferred)
    BY <1>4 DEF SwitchTab
  <2>2. k \in {shelf, there}
    OBVIOUS
  <2> HIDE DEF origin, focus, k
  <2>3. Tends(shelf, there)
    BY <1>1 DEF Tends, IsShelf
  <2>4. Tends(shelf, k)
    BY <1>1, <2>2, <2>3
  <2> QED
    BY <2>1, <2>4, RefreshWork, TendsKeeps
<1>5. CASE PreviewAnswered
  <2>1. PICK x : shelf' = shelf \/ shelf' = [shelf EXCEPT !.sample = x] \/ shelf' = [shelf EXCEPT !.detail = x]
    BY <1>5 DEF PreviewAnswered
  <2>2. Tends(shelf, [shelf EXCEPT !.sample = x]) /\ Tends(shelf, [shelf EXCEPT !.detail = x])
    BY <1>1, TendsAre
  <2>3. Tends(shelf, shelf')
    BY <1>1, <2>1, <2>2
  <2> QED
    BY <2>3, TendsKeeps
<1> QED
  BY <1>2, <1>3, <1>4, <1>5 DEF CockpitKeys

LEMMA TypedWork ==
  ASSUME IInv, AInv, ShelfWork(shelf), CockpitLine \/ CockpitWorkflows
  PROVE  ShelfKeeps
<1> DEFINE j == NoContext(shelf)
           k == StartedAt
<1>1. IsShelf(shelf) /\ Tends(shelf, shelf)
  BY TendsAre DEF IInv
<1>2. ASSUME NEW what, NEW key, TypeCommand(what, key)
      PROVE  ShelfKeeps
  <2>1. shelf' = shelf \/ shelf' = [shelf EXCEPT !.focus = "Workspace"]
    BY <1>2 DEF TypeCommand
  <2>2. Tends(shelf, [shelf EXCEPT !.focus = "Workspace"])
    BY <1>1, TendsAre
  <2>3. Tends(shelf, shelf')
    BY <1>1, <2>1, <2>2
  <2> QED
    BY <2>3, TendsKeeps
<1>3. IsShelf(k) /\ Tends(shelf, k)
  <2>1. Tends(shelf, j) /\ IsShelf(j)
    BY <1>1, TendsAre DEF Tends
  <2>2. \E x : k = [j EXCEPT !.origin = x, !.from = "skills", !.focus = "Workspace"]
    BY DEF StartedAt
  <2> HIDE DEF j, k
  <2>3. Tends(j, k)
    BY <2>1, <2>2 DEF Tends, IsShelf
  <2> QED
    BY <2>1, <2>3, TendsChain DEF Tends
<1>4. CASE TypeAdd
  <2>1. shelf.editor = None
    BY <1>4 DEF TypeAdd, Workflow, ProtectedSkills
  <2>2. shelf' = WithForm(k, K!ForCreate(FALSE))
    BY <1>4 DEF TypeAdd, GoToShelf
  <2> HIDE DEF k
  <2>3. K!ForCreate(FALSE) \in SkillForms
    <3>1. Running
      BY <1>4, KeyIsRunning DEF TypeAdd, Workflow, Line
    <3>2. shelf.sel \in Skills /\ 0 \in Nat
      BY <3>1, ThereIs DEF Tells, Shows
    <3> QED
      BY <3>2, NewSkillForm
  <2> QED
    BY <1>3, <2>1, <2>2, <2>3, OpensForm
<1>5. ASSUME NEW s, NEW p, TypeAssign(s, p)
      PROVE  ShelfKeeps
  <2> DEFINE shown == WithSkill(k, Ref(s, store.skills[s]))
  <2>1. \/ \E x, y : shelf' = [shown EXCEPT !.agent = x, !.pane = "AssignmentReview", !.assignment = y]
        \/ shelf' = [k EXCEPT !.pane = "List"]
    BY <1>5 DEF TypeAssign, GoToShelf
  <2> HIDE DEF k
  <2>2. Tends(k, shown) /\ IsShelf(shown)
    BY <1>3, TendsAre DEF Tends
  <2> HIDE DEF shown
  <2>3. \A x, y : Tends(shown, [shown EXCEPT !.agent = x, !.pane = "AssignmentReview", !.assignment = y])
    BY <2>2 DEF Tends, IsShelf
  <2>4. Tends(k, [k EXCEPT !.pane = "List"])
    BY <1>3, TendsAre
  <2>5. ASSUME NEW x, NEW y, shelf' = [shown EXCEPT !.agent = x, !.pane = "AssignmentReview", !.assignment = y]
        PROVE  Tends(k, shelf')
    <3>1. Tends(shown, shelf')
      BY <2>3, <2>5
    <3> QED
      BY <2>2, <3>1, TendsChain
  <2>6. Tends(k, shelf')
    BY <2>1, <2>4, <2>5
  <2> QED
    BY <1>3, <2>6, TendsChain, TendsKeeps
<1>6. ASSUME NEW s, NEW p, TypeUnassign(s, p)
      PROVE  ShelfKeeps
  <2> DEFINE shown == WithSkill(k, Ref(s, store.skills[s]))
             old == WithSkillVersion(shown, Ref(s, Pinned(p, s)))
  <2>1. \/ \E x, y : shelf' = [old EXCEPT !.agent = x, !.pane = "AssignmentReview", !.assignment = y]
        \/ \E x : shelf' = [shown EXCEPT !.agent = x]
    BY <1>6 DEF TypeUnassign, GoToShelf
  <2> HIDE DEF k
  <2>2. Tends(k, shown) /\ IsShelf(shown)
    BY <1>3, TendsAre DEF Tends
  <2> HIDE DEF shown
  <2>3. Tends(shown, old) /\ IsShelf(old)
    BY <2>2, TendsAre DEF Tends
  <2> HIDE DEF old
  <2>4. \A x, y : Tends(old, [old EXCEPT !.agent = x, !.pane = "AssignmentReview", !.assignment = y])
    BY <2>3 DEF Tends, IsShelf
  <2>5. \A x : Tends(shown, [shown EXCEPT !.agent = x])
    BY <2>2, TendsAre
  <2>7. ASSUME NEW x, NEW y, shelf' = [old EXCEPT !.agent = x, !.pane = "AssignmentReview", !.assignment = y]
        PROVE  Tends(shown, shelf')
    <3>1. Tends(old, shelf')
      BY <2>4, <2>7
    <3> QED
      BY <2>3, <3>1, TendsChain
  <2>6. Tends(shown, shelf')
    BY <2>1, <2>5, <2>7
  <2> QED
    BY <1>3, <2>2, <2>6, TendsChain, TendsKeeps
<1> QED
  BY <1>2, <1>4, <1>5, <1>6 DEF CockpitLine, CockpitWorkflows

LEMMA CommandWork ==
  ASSUME IInv, ShelfWork(shelf), CommandAnswered
  PROVE  ShelfKeeps
<1> DEFINE listed == WithSkills(shelf, store.skills)
<1>1. IsShelf(shelf) /\ Tends(shelf, shelf) /\ Tends(shelf, listed) /\ IsShelf(listed)
      /\ listed.pane = shelf.pane
  BY TendsAre DEF IInv, Tends, WithSkills, IsShelf
<1>2. pending.what \in {"agents", "agent", "skills", "skill"}
  BY PendingIs, RunningIs DEF CommandAnswered, Screens, Timely
<1>3. CASE pending.what \in {"agents", "agent"}
  <2>1. shelf' \in {shelf, listed}
    BY <1>3 DEF CommandAnswered, ShowAgents, ShowAgent
  <2> QED
    BY <1>1, <2>1, TendsKeeps
<1>4. CASE pending.what = "skills"
  <2>1. PICK origin : \/ shelf' = [listed EXCEPT !.pane = "List", !.origin = origin]
                      \/ shelf' = [listed EXCEPT !.pane = listed.pane, !.origin = origin]
    BY <1>4 DEF CommandAnswered, ShowSkills
  <2> HIDE DEF listed
  <2>2. Tends(listed, shelf')
    BY <1>1, <2>1 DEF Tends, IsShelf
  <2> QED
    BY <1>1, <2>2, TendsChain, TendsKeeps
<1>5. CASE pending.what = "skill"
  <2> DEFINE shown == WithSkill(shelf, Ref(pending.key, store.skills[pending.key]))
             staged == ~pending.presents /\ shelf.made = pending.key /\ shelf.pane = "Result" /\ ~ProtectedSkills
             found == IF pending.presents \/ staged THEN shown ELSE shelf
             made == IF found.made = pending.key THEN None ELSE found.made
             pane == IF ProtectedSkills \/ ~pending.presents THEN shelf.pane ELSE found.pane
             origin == IF pending.presents /\ roster.tab # "skills" /\ ~ProtectedSkills THEN Cockpit ELSE found.origin
  <2>1. Tends(shelf, shown) /\ IsShelf(shown)
    BY <1>1, TendsAre DEF Tends
  <2>2. shelf' = [found EXCEPT !.made = made, !.pane = pane, !.origin = origin]
    BY <1>5 DEF CommandAnswered, ShowSkill
  <2>6. (found = shelf \/ found = shown) /\ (pane = shelf.pane \/ pane = found.pane)
    OBVIOUS
  <2> HIDE DEF found, made, pane, origin
  <2> HIDE DEF shown
  <2>3. Tends(shelf, found) /\ IsShelf(found)
    BY <1>1, <2>1, <2>6
  <2>4. IsShelf(shelf') /\ shelf'.editor = found.editor /\ shelf'.pane = pane
    BY <2>2, <2>3 DEF IsShelf
  <2>5. Tends(shelf, shelf')
    BY <2>6, <2>3, <2>4 DEF Tends
  <2> QED
    BY <2>5, TendsKeeps
<1> QED
  BY <1>2, <1>3, <1>4, <1>5

-----------------------------------------------------------------------------
(* Work on the notes of an agent *)

WorkFields ==
    {"bound", "pane", "rows", "detail", "sugs", "editor", "origin", "review", "resolution", "registered"}

Resolves(c) ==
    {"s", "by", "choice"} \subseteq DOMAIN c /\ c.s \in Suggestions /\ c.by.p \in Profiles

(* What is loaded is of notes and suggestions there are, and there is one    *)
(* review at a time. *)
Listed(m) ==
    /\ WorkFields \subseteq DOMAIN m
    /\ m.rows # None => m.rows \subseteq Notes
    /\ m.sugs # None => m.sugs \subseteq Suggestions
    /\ m.bound # None /\ m.detail # None /\ m.detail.n \in Notes => m.detail \in NoteRefs
    /\ m.review # None => m.review \in NoteReviews /\ m.resolution = None
    /\ m.resolution # None => Resolves(m.resolution) /\ m.registered

(* A draft that says what the note says has nothing to lose. *)
Repeats(e) == e.seed # None /\ e.same

(* A draft stays in its pane until it is reviewed, and only one that has      *)
(* nothing to review stands at its last step without a review. *)
Drafted(m) ==
    m.editor # None =>
        /\ m.editor \in NoteDrafts /\ EditorAuthentic(m)
        /\ m.editor.step = "Key" => m.editor.seed = None
        /\ m.editor.step # "Key" => m.editor.name \in Notes
        /\ m.pane = "Editor" \/ m.editor.step = "Review"
        /\ m.editor.step = "Review" => m.review # None \/ Repeats(m.editor)
        /\ m.resolution # None => m.editor.step = "Review" /\ Repeats(m.editor)

NoteWork(m) == Listed(m) /\ Drafted(m)

Recorded ==
    /\ {"notes", "sugs"} \subseteq DOMAIN store
    /\ store.notes \in [Profiles -> [Notes -> [v : Nat, live : BOOLEAN]]]
    /\ store.sugs \in [Suggestions ->
          [p : Profiles, n : Notes, status : {"pending", "accepted", "rejected", "expired"}]]

(* What was sent to the runtime is a review that was confirmed. *)
Ordered(x, m) ==
    x # None /\ x.kind = "memory" =>
        /\ x.intent.what = "mutation" => x.command \in NoteReviews
        /\ x.intent.what = "resolution" => Resolves(x.command) /\ m.review = None

Penned == NoteWork(mem) /\ Ordered(pending, mem) /\ Recorded

NotesKept ==
    mem.editor # None /\ mem'.editor = None =>
        \/ LeavesEditor(mem.editor)
        \/ store'.notes # store.notes
        \/ mem.editor.seed # None /\ mem.editor.same

NotesKeep == Penned' /\ NotesKept

(* A view with the same work in it *)
Carries(m, k) ==
    /\ WorkFields \subseteq DOMAIN k
    /\ k.bound = m.bound /\ k.pane = m.pane /\ k.rows = m.rows /\ k.sugs = m.sugs
    /\ k.detail = m.detail \/ k.detail = None
    /\ k.editor = m.editor /\ k.origin = m.origin
    /\ k.review = m.review /\ k.resolution = m.resolution /\ k.registered = m.registered

LEMMA CarriesWork ==
  ASSUME NEW m, NoteWork(m), NEW k, Carries(m, k)
  PROVE  NoteWork(k) /\ WorkFields \subseteq DOMAIN k /\ k.editor = m.editor /\ k.review = m.review
         /\ k.pane = m.pane /\ k.resolution = m.resolution
<1>1. Listed(k)
  BY DEF NoteWork, Listed, Carries
<1>2. Drafted(k)
  BY DEF NoteWork, Drafted, Carries, EditorAuthentic
<1> QED
  BY <1>1, <1>2 DEF NoteWork, Carries

LEMMA CarriesChain ==
  ASSUME NEW m, NEW k, Carries(m, k), NEW j, Carries(k, j)
  PROVE  Carries(m, j)
BY DEF Carries

LEMMA CarriesAre ==
  ASSUME NEW m, WorkFields \subseteq DOMAIN m
  PROVE  /\ Carries(m, m)
         /\ \A x : /\ Carries(m, WithRow(m, x)) /\ Carries(m, WithPast(m, x))
                   /\ Carries(m, WithSug(m, x)) /\ Carries(m, WithEpisode(m, x))
                   /\ Carries(m, [m EXCEPT !.choice = x]) /\ Carries(m, [m EXCEPT !.version = x])
                   /\ Carries(m, [m EXCEPT !.intent = x]) /\ Carries(m, [m EXCEPT !.history = x])
                   /\ Carries(m, [m EXCEPT !.proposal = x]) /\ Carries(m, [m EXCEPT !.episodes = x])
                   /\ Carries(m, [m EXCEPT !.summary = x]) /\ Carries(m, [m EXCEPT !.confirmation = x])
                   /\ Carries(m, BegunPending(m, x)) /\ Carries(m, Begun(m, x))
         /\ Carries(m, ReviewRequested(m))
<1>1. Carries(m, m)
  BY DEF Carries
<1>2. \A x : Carries(m, WithRow(m, x))
  BY DEF Carries, WorkFields, WithRow
<1>3. \A x : Carries(m, WithPast(m, x))
  BY DEF Carries, WorkFields, WithPast
<1>4. \A x : Carries(m, WithSug(m, x)) /\ Carries(m, WithEpisode(m, x))
  BY DEF Carries, WorkFields, WithSug, WithEpisode
<1>5. \A x : /\ Carries(m, [m EXCEPT !.choice = x]) /\ Carries(m, [m EXCEPT !.version = x])
             /\ Carries(m, [m EXCEPT !.intent = x]) /\ Carries(m, [m EXCEPT !.history = x])
  BY DEF Carries, WorkFields
<1>6. \A x : /\ Carries(m, [m EXCEPT !.proposal = x]) /\ Carries(m, [m EXCEPT !.episodes = x])
             /\ Carries(m, [m EXCEPT !.summary = x]) /\ Carries(m, [m EXCEPT !.confirmation = x])
  BY DEF Carries, WorkFields
<1>7. Carries(m, Bumped(m))
  BY DEF Carries, WorkFields, Bumped
<1>8. WorkFields \subseteq DOMAIN Bumped(m)
  BY <1>7 DEF Carries
<1>9. \A x : Carries(Bumped(m), [Bumped(m) EXCEPT !.intent = x])
  BY <1>8 DEF Carries, WorkFields
<1>10. (\A x : Carries(m, BegunPending(m, x))) /\ Carries(m, ReviewRequested(m))
  BY <1>7, <1>9, CarriesChain DEF BegunPending, ReviewRequested
<1>11. \A x : Carries(m, Begun(m, x))
  BY <1>5, <1>10 DEF Begun
<1> QED
  BY <1>1, <1>2, <1>3, <1>4, <1>5, <1>6, <1>10, <1>11

(* A draft moves to another pane only once it is reviewed. *)
LEMMA PanedWork ==
  ASSUME NEW m, NoteWork(m), m.editor # None => m.editor.step = "Review", NEW pane
  PROVE  NoteWork(At(m, pane)) /\ At(m, pane).editor = m.editor /\ At(m, pane).review = m.review
<1> DEFINE k == At(m, pane)
<1>1. /\ WorkFields \subseteq DOMAIN k
      /\ k.bound = m.bound /\ k.rows = m.rows /\ k.sugs = m.sugs /\ k.detail = m.detail
      /\ k.editor = m.editor /\ k.origin = m.origin
      /\ k.review = m.review /\ k.resolution = m.resolution /\ k.registered = m.registered
  BY DEF At, NoteWork, Listed, WorkFields
<1> HIDE DEF k
<1>2. Listed(k)
  BY <1>1 DEF NoteWork, Listed
<1>3. Drafted(k)
  BY <1>1 DEF NoteWork, Drafted, EditorAuthentic
<1> QED
  BY <1>1, <1>2, <1>3 DEF NoteWork, k

LEMMA BlankWork ==
  /\ NoteWork(BlankMemory) /\ BlankMemory.editor = None /\ BlankMemory.review = None
  /\ \A ref : LET m == [BlankMemory EXCEPT !.bound = ref]
              IN NoteWork(m) /\ m.editor = None /\ m.review = None
BY DEF NoteWork, Listed, Drafted, BlankMemory, WorkFields

(* What a layer says of the draft behind it *)
LEMMA LayerWork ==
  ASSUME Penned, mem.editor # None
  PROVE  /\ \A pane : OnLayer(pane) \/ EnterOn(pane) \/ Leaving(pane) => mem.editor.step = "Review"
         /\ LeaveLayer => mem.editor.step = "Review"
<1>1. mem.pane = "Editor" \/ mem.editor.step = "Review"
  BY DEF Penned, NoteWork, Drafted
<1>2. EditorAuthentic(mem)
  BY DEF Penned, NoteWork, Drafted
<1> QED
  BY <1>1, <1>2 DEF OnLayer, EnterOn, Leaving, LeaveLayer, TextEntry, EditorOpen, InFront

-----------------------------------------------------------------------------
(* Steps of the view *)

LEMMA PennedIs ==
  ASSUME Penned
  PROVE  NoteWork(mem) /\ WorkFields \subseteq DOMAIN mem
BY DEF Penned, NoteWork, Listed

LEMMA ViewWork ==
  ASSUME Penned, NEW m, NoteWork(m), View(m), m.review = mem.review \/ m.review = None,
         mem.editor # None /\ m.editor = None => LeavesEditor(mem.editor)
  PROVE  NotesKeep
<1>1. mem' = m /\ store' = store /\ pending' = pending
  BY DEF View, hostVars
<1>2. Penned'
  BY <1>1 DEF Penned, Ordered, Recorded
<1> QED
  BY <1>1, <1>2 DEF NotesKeep, NotesKept

LEMMA QueueWork ==
  ASSUME Penned, NEW m, NoteWork(m), mem.editor # None => m.editor # None,
         NEW intent, NEW p, NEW command, NEW queue,
         intent.what = "mutation" => command \in NoteReviews,
         intent.what = "resolution" => Resolves(command) /\ m.review = None,
         Queue(m, intent, p, command, queue)
  PROVE  NotesKeep
<1>1. /\ store' = store
      /\ mem' = Begun(m, intent) \/ mem' = BegunPending(m, None)
      /\ pending' = None \/ pending' = [kind |-> "memory", intent |-> intent, p |-> p, command |-> command]
  BY DEF Queue, Free
<1>2. WorkFields \subseteq DOMAIN m
  BY DEF NoteWork, Listed
<1>3. Carries(m, mem')
  BY <1>1, <1>2, CarriesAre
<1>4. NoteWork(mem') /\ mem'.editor = m.editor /\ mem'.review = m.review
  BY <1>3, CarriesWork
<1>5. Ordered(pending', mem')
  BY <1>1, <1>4 DEF Ordered
<1>6. Recorded'
  BY <1>1 DEF Penned, Recorded
<1>7. Penned'
  BY <1>4, <1>5, <1>6 DEF Penned
<1> QED
  BY <1>4, <1>7 DEF NotesKeep, NotesKept

LEMMA AskWork ==
  ASSUME Penned, NEW m, NoteWork(m), mem.editor # None => m.editor # None, NEW what, NEW key,
         what # "mutation", what # "resolution", Ask(m, what, key)
  PROVE  NotesKeep
<1>1. Intent(what, key).what = what
  BY DEF Intent
<1> QED
  BY <1>1, QueueWork DEF Ask

(* A step with nothing in flight after it *)
LEMMA FreeWork ==
  ASSUME Penned, pending' = None, NoteWork(mem'), mem.editor # None => mem'.editor # None,
         store' = store
  PROVE  NotesKeep
<1>1. Penned'
  BY DEF Penned, Ordered, Recorded
<1> QED
  BY <1>1 DEF NotesKeep, NotesKept

-----------------------------------------------------------------------------
(* The keys of the notes *)

LEMMA BoundIs ==
  ASSUME IInv, Running, mem.bound # None
  PROVE  mem.bound.p \in Profiles
BY RunningIs DEF Screens, Screen, Target

LEMMA OpenMemoryWork ==
  ASSUME Penned, OpenMemory
  PROVE  NotesKeep
<1> DEFINE m == Bound(mem, roster.detail)
<1>1. NoteWork(m) /\ (mem.editor # None => m.editor # None)
  <2>1. CASE mem.bound = roster.detail
    BY <2>1, PennedIs DEF Bound
  <2>2. CASE mem.bound # roster.detail
    <3>1. mem.editor = None
      BY <2>2 DEF OpenMemory, MayBind, Protected
    <3> QED
      BY <2>2, <3>1, BlankWork DEF Bound
  <2> QED
    BY <2>1, <2>2
<1>2. Ask(m, "entries", None)
  BY DEF OpenMemory
<1> HIDE DEF m
<1> QED
  BY <1>1, <1>2, AskWork

LEMMA PickingWork ==
  ASSUME Penned,
         \/ \E n \in Notes : PickNote(n)
         \/ \E v \in 1 .. MaxVersion : PickVersion(v)
         \/ \E s \in Suggestions : PickSuggestion(s)
         \/ \E x \in {"approve", "reject"} : ChooseResolution(x)
         \/ \E e \in Summaries : PickEpisode(e)
  PROVE  NotesKeep
<1>1. PICK m, x : /\ View(m)
                  /\ \/ m = WithRow(mem, x) \/ m = WithPast(mem, x) \/ m = WithSug(mem, x)
                     \/ m = WithEpisode(mem, x) \/ m = [mem EXCEPT !.choice = x]
  BY DEF PickNote, PickVersion, PickSuggestion, ChooseResolution, PickEpisode
<1>2. Carries(mem, m)
  <2>1. /\ Carries(mem, WithRow(mem, x)) /\ Carries(mem, WithPast(mem, x)) /\ Carries(mem, WithSug(mem, x))
        /\ Carries(mem, WithEpisode(mem, x)) /\ Carries(mem, [mem EXCEPT !.choice = x])
    BY PennedIs, CarriesAre
  <2> QED
    BY <1>1, <2>1
<1>3. NoteWork(m) /\ m.editor = mem.editor /\ m.review = mem.review
  BY <1>2, PennedIs, CarriesWork
<1> QED
  BY <1>1, <1>3, ViewWork

LEMMA OpeningWork ==
  ASSUME Penned,
         \/ OpenNote \/ OpenProposals \/ OpenEpisodes \/ OpenNoteHistory \/ OpenVersion
         \/ OpenSuggestion \/ OpenEpisode
  PROVE  NotesKeep
<1>1. mem.editor # None => mem.editor.step = "Review"
  BY LayerWork DEF OpenNote, OpenProposals, OpenEpisodes, OpenNoteHistory, OpenVersion,
                   OpenSuggestion, OpenEpisode
<1>2. PICK m, pane, what, key :
         /\ Ask(m, what, key) /\ what # "mutation" /\ what # "resolution"
         /\ \E k : /\ m = At(k, pane) \/ m = k
                   /\ \/ k = mem \/ k = WithRow(mem, mem.row) \/ k = WithPast(mem, mem.past)
                      \/ k = WithSug(mem, mem.sug) \/ k = WithEpisode(mem, mem.episode)
  BY DEF OpenNote, OpenProposals, OpenEpisodes, OpenNoteHistory, OpenVersion, OpenSuggestion, OpenEpisode
<1>3. PICK k : /\ m = At(k, pane) \/ m = k
               /\ \/ k = mem \/ k = WithRow(mem, mem.row) \/ k = WithPast(mem, mem.past)
                  \/ k = WithSug(mem, mem.sug) \/ k = WithEpisode(mem, mem.episode)
  BY <1>2
<1>4. Carries(mem, k)
  <2>1. /\ Carries(mem, mem) /\ Carries(mem, WithRow(mem, mem.row)) /\ Carries(mem, WithPast(mem, mem.past))
        /\ Carries(mem, WithSug(mem, mem.sug)) /\ Carries(mem, WithEpisode(mem, mem.episode))
    BY PennedIs, CarriesAre
  <2> QED
    BY <1>3, <2>1
<1>5. NoteWork(k) /\ k.editor = mem.editor
  BY <1>4, PennedIs, CarriesWork
<1>6. NoteWork(m) /\ m.editor = mem.editor
  BY <1>1, <1>3, <1>5, PanedWork
<1> QED
  BY <1>2, <1>6, AskWork

LEMMA LeaveLayerWork ==
  ASSUME Penned, LeaveLayer
  PROVE  NotesKeep
<1>1. mem.editor # None => mem.editor.step = "Review"
  BY LayerWork
<1>2. View(mem) \/ (\E pane : View(At(mem, pane))) \/ View([mem EXCEPT !.version = None])
  BY DEF LeaveLayer, View
<1>3. /\ NoteWork(mem)
      /\ \A pane : NoteWork(At(mem, pane)) /\ At(mem, pane).editor = mem.editor
                   /\ At(mem, pane).review = mem.review
  BY <1>1, PennedIs, PanedWork
<1>4. /\ NoteWork([mem EXCEPT !.version = None])
      /\ [mem EXCEPT !.version = None].editor = mem.editor
      /\ [mem EXCEPT !.version = None].review = mem.review
  BY PennedIs, CarriesAre, CarriesWork
<1> QED
  BY <1>2, <1>3, <1>4, ViewWork

(* A draft that is begun *)
LEMMA OpenedWork ==
  ASSUME Penned, ~Protected(mem), mem.bound # None, mem.bound.p \in Profiles,
         NEW e, NEW origin, View(Opened(mem, e, origin)),
         \/ e = BlankEditor(mem.bound.p) /\ origin = "create"
         \/ e = SeededEditor(mem.bound.p, mem.detail) /\ origin = "edit" /\ mem.detail \in NoteRefs
            /\ mem.detail # None
  PROVE  NotesKeep
<1> DEFINE m == Opened(mem, e, origin)
<1>1. /\ WorkFields \subseteq DOMAIN m
      /\ m.bound = mem.bound /\ m.pane = "Editor" /\ m.rows = mem.rows /\ m.detail = mem.detail
      /\ m.sugs = mem.sugs /\ m.editor = e /\ m.origin = origin /\ m.review = None /\ m.resolution = None
  BY PennedIs DEF Opened, At, WorkFields
<1> HIDE DEF m
<1>2. Listed(m)
  BY <1>1, PennedIs DEF NoteWork, Listed
<1>3. /\ e \in NoteDrafts /\ e.of = mem.bound.p /\ e.step # "Review"
      /\ e.step = "Key" => e.seed = None
      /\ e.step # "Key" => e.name \in Notes
      /\ IF origin = "create" THEN e.seed = None ELSE e.seed # None /\ e.name = e.seed.n
  <2>1. CASE e = BlankEditor(mem.bound.p) /\ origin = "create"
    BY <2>1 DEF BlankEditor, NoteDrafts
  <2>2. CASE e = SeededEditor(mem.bound.p, mem.detail) /\ origin = "edit" /\ mem.detail \in NoteRefs
             /\ mem.detail # None
    <3>1. mem.detail.n \in Notes
      BY <2>2 DEF NoteRefs
    <3>2. e = [of |-> mem.bound.p, seed |-> mem.detail, name |-> mem.detail.n, same |-> TRUE,
               step |-> "Value", shown |-> None]
      BY <2>2 DEF SeededEditor
    <3>3. e \in NoteDrafts
      BY <2>2, <3>1, <3>2 DEF NoteDrafts
    <3> QED
      BY <2>2, <3>1, <3>2, <3>3
  <2> QED
    BY <2>1, <2>2
<1>4. Drafted(m)
  BY <1>1, <1>3 DEF Drafted, EditorAuthentic
<1>5. mem.editor = None
  BY DEF Protected
<1> QED
  BY <1>1, <1>2, <1>4, <1>5, ViewWork DEF NoteWork, m

LEMMA OpenDraftWork ==
  ASSUME IInv, Penned, OpenCreate \/ OpenEdit
  PROVE  NotesKeep
<1>1. Running /\ ~Protected(mem)
  BY OnLayerIs DEF OpenCreate, OpenEdit
<1>2. CASE OpenCreate
  <2>1. mem.bound # None /\ mem.bound.p \in Profiles
    BY <1>1, <1>2, BoundIs DEF OpenCreate, OnLayer, LayerAuthentic
  <2> QED
    BY <1>1, <1>2, <2>1, OpenedWork DEF OpenCreate
<1>3. CASE OpenEdit
  <2>1. DetailAuthentic(mem)
    BY <1>3 DEF OpenEdit, EnterOn, OnLayer, LayerAuthentic
  <2>2. mem.bound # None /\ mem.bound.p \in Profiles
    BY <1>1, <2>1, BoundIs DEF DetailAuthentic, RowAuthentic
  <2>3. mem.detail # None /\ mem.detail \in NoteRefs
    BY <2>1, PennedIs DEF DetailAuthentic, RowAuthentic, NoteWork, Listed
  <2> QED
    BY <1>1, <1>3, <2>2, <2>3, OpenedWork DEF OpenEdit
<1> QED
  BY <1>2, <1>3

(* A draft that goes on.  Where it is not at its review, there is nothing to  *)
(* resolve. *)
LEMMA DraftGoesOn ==
  ASSUME NEW m, NoteWork(m), NEW e, e \in NoteDrafts, e.step # "Review",
         m.editor # None, m.resolution = None, m.pane = "Editor",
         e.of = m.editor.of, e.seed = m.editor.seed,
         e.seed = None \/ e.name = m.editor.name,
         e.step = "Key" => e.seed = None,
         e.step # "Key" => e.name \in Notes
  PROVE  LET k == [m EXCEPT !.editor = e]
         IN NoteWork(k) /\ k.editor # None /\ k.review = m.review
<1> DEFINE k == [m EXCEPT !.editor = e]
<1>1. /\ WorkFields \subseteq DOMAIN k
      /\ k.bound = m.bound /\ k.pane = m.pane /\ k.rows = m.rows /\ k.sugs = m.sugs
      /\ k.detail = m.detail /\ k.editor = e /\ k.origin = m.origin
      /\ k.review = m.review /\ k.resolution = m.resolution /\ k.registered = m.registered
  BY DEF NoteWork, Listed, WorkFields
<1> HIDE DEF k
<1>2. e # None
  BY NoneIsNoNote
<1>3. Listed(k)
  BY <1>1 DEF NoteWork, Listed
<1>4. Drafted(k)
  BY <1>1 DEF NoteWork, Drafted, EditorAuthentic
<1> QED
  BY <1>1, <1>2, <1>3, <1>4 DEF NoteWork, k

LEMMA NoteDraftIs ==
  ASSUME NEW e \in NoteDrafts
  PROVE  /\ \A n \in Notes : LET f == NamedDraft(e, n)
               IN /\ f \in NoteDrafts /\ f.of = e.of /\ f.seed = e.seed /\ f.name = n /\ f.step = "Value"
         /\ \A same \in BOOLEAN : LET f == WrittenDraft(e, same)
               IN /\ f \in NoteDrafts /\ f.of = e.of /\ f.seed = e.seed /\ f.name = e.name
                  /\ f.step = "PurposeTags"
         /\ LET f == Unreviewed(e)
            IN /\ f \in NoteDrafts /\ f.of = e.of /\ f.seed = e.seed /\ f.name = e.name
               /\ f.step = IF e.step = "Review" THEN "PurposeTags" ELSE e.step
         /\ \A step \in {"Key", "Value", "PurposeTags", "Review"} : LET f == [e EXCEPT !.step = step]
               IN /\ f \in NoteDrafts /\ f.of = e.of /\ f.seed = e.seed /\ f.name = e.name /\ f.step = step
                  /\ f.same = e.same
         /\ \A shown \in NoteReviews \cup {None} : LET f == [e EXCEPT !.shown = shown]
               IN /\ f \in NoteDrafts /\ f.of = e.of /\ f.seed = e.seed /\ f.name = e.name /\ f.step = e.step
                  /\ f.same = e.same
         /\ e.step \in {"Key", "Value", "PurposeTags", "Review"}
<1>1. \A n \in Notes : LET f == NamedDraft(e, n)
         IN f \in NoteDrafts /\ f.of = e.of /\ f.seed = e.seed /\ f.name = n /\ f.step = "Value"
  BY DEF NoteDrafts, NamedDraft
<1>2. \A same \in BOOLEAN : LET f == WrittenDraft(e, same)
         IN f \in NoteDrafts /\ f.of = e.of /\ f.seed = e.seed /\ f.name = e.name /\ f.step = "PurposeTags"
  BY DEF NoteDrafts, WrittenDraft
<1>3. LET f == Unreviewed(e)
      IN /\ f \in NoteDrafts /\ f.of = e.of /\ f.seed = e.seed /\ f.name = e.name
         /\ f.step = IF e.step = "Review" THEN "PurposeTags" ELSE e.step
  BY DEF NoteDrafts, Unreviewed
<1>4. \A step \in {"Key", "Value", "PurposeTags", "Review"} : LET f == [e EXCEPT !.step = step]
         IN /\ f \in NoteDrafts /\ f.of = e.of /\ f.seed = e.seed /\ f.name = e.name /\ f.step = step
            /\ f.same = e.same
  BY DEF NoteDrafts
<1>5. \A shown \in NoteReviews \cup {None} : LET f == [e EXCEPT !.shown = shown]
         IN /\ f \in NoteDrafts /\ f.of = e.of /\ f.seed = e.seed /\ f.name = e.name /\ f.step = e.step
            /\ f.same = e.same
  BY DEF NoteDrafts
<1>6. e.step \in {"Key", "Value", "PurposeTags", "Review"}
  BY DEF NoteDrafts
<1> QED
  BY <1>1, <1>2, <1>3, <1>4, <1>5, <1>6

(* A draft that is being written has nothing to resolve. *)
LEMMA WritingIs ==
  ASSUME Penned, NEW step, Editing(step)
  PROVE  /\ mem.editor # None /\ mem.editor \in NoteDrafts /\ mem.editor.step = step /\ step # "Review"
         /\ mem.pane = "Editor" /\ mem.resolution = None /\ EditorAuthentic(mem)
         /\ step = "Key" => mem.editor.seed = None
         /\ step # "Key" => mem.editor.name \in Notes
BY DEF Penned, NoteWork, Drafted, Editing, EditorKey, TextEntry, EditorOpen

LEMMA WriteWork ==
  ASSUME Penned, (\E n \in Notes : NameDraft(n)) \/ (\E same \in BOOLEAN : WriteDraft(same))
  PROVE  NotesKeep
<1>1. ASSUME NEW n \in Notes, NameDraft(n)
      PROVE  NotesKeep
  <2> DEFINE f == NamedDraft(mem.editor, n)
  <2>1. Editing("Key") /\ View([mem EXCEPT !.editor = f])
    BY <1>1 DEF NameDraft, WithEditor
  <2>2. f \in NoteDrafts /\ f.of = mem.editor.of /\ f.seed = mem.editor.seed /\ f.name = n /\ f.step = "Value"
    BY <2>1, WritingIs, NoteDraftIs
  <2>3. mem.editor # None /\ mem.editor.seed = None /\ mem.pane = "Editor" /\ mem.resolution = None
    BY <2>1, WritingIs
  <2> HIDE DEF f
  <2>4. LET k == [mem EXCEPT !.editor = f]
        IN NoteWork(k) /\ k.editor # None /\ k.review = mem.review
    BY <2>2, <2>3, PennedIs, DraftGoesOn
  <2> QED
    BY <2>1, <2>4, ViewWork
<1>2. ASSUME NEW same \in BOOLEAN, WriteDraft(same)
      PROVE  NotesKeep
  <2> DEFINE f == WrittenDraft(mem.editor, same)
  <2>1. Editing("Value") /\ View([mem EXCEPT !.editor = f])
    BY <1>2 DEF WriteDraft, WithEditor
  <2>2. /\ f \in NoteDrafts /\ f.of = mem.editor.of /\ f.seed = mem.editor.seed
        /\ f.name = mem.editor.name /\ f.step = "PurposeTags"
    <3>1. mem.editor \in NoteDrafts
      BY <2>1, WritingIs
    <3> QED
      BY <3>1 DEF NoteDrafts, WrittenDraft
  <2>3. mem.editor # None /\ mem.editor.name \in Notes /\ mem.pane = "Editor" /\ mem.resolution = None
    BY <2>1, WritingIs
  <2> HIDE DEF f
  <2>4. LET k == [mem EXCEPT !.editor = f]
        IN NoteWork(k) /\ k.editor # None /\ k.review = mem.review
    BY <2>2, <2>3, PennedIs, DraftGoesOn
  <2> QED
    BY <2>1, <2>4, ViewWork
<1> QED
  BY <1>1, <1>2

LEMMA BackInEditorWork ==
  ASSUME IInv, Penned, BackInEditor
  PROVE  NotesKeep
<1>1. /\ mem.editor # None /\ mem.pane = "Editor"
      /\ ~(mem.editor.step = "Review" /\ mem.registered)
  BY DEF BackInEditor, EditorKey, EditorOpen
<1>2. /\ mem.editor \in NoteDrafts /\ NoteWork(mem) /\ WorkFields \subseteq DOMAIN mem
      /\ mem.editor.step = "Key" => mem.editor.seed = None
      /\ mem.editor.step # "Key" => mem.editor.name \in Notes
      /\ mem.resolution # None => mem.editor.step = "Review" /\ mem.registered
  BY <1>1, PennedIs DEF NoteWork, Drafted, Listed
<1>3. mem.resolution = None
  BY <1>1, <1>2
<1>4. CASE LeavesEditor(mem.editor)
  <2> DEFINE pane == IF mem.origin = "create" THEN "EntryList" ELSE "EntryDetail"
             m == At(WithEditor(None), pane)
  <2>1. View(m)
    BY <1>4 DEF BackInEditor
  <2>2. /\ WorkFields \subseteq DOMAIN m
        /\ m.bound = mem.bound /\ m.rows = mem.rows /\ m.sugs = mem.sugs /\ m.detail = mem.detail
        /\ m.editor = None /\ m.review = mem.review /\ m.resolution = mem.resolution
        /\ m.registered = mem.registered
    BY <1>2 DEF At, WithEditor, WorkFields
  <2> HIDE DEF m
  <2>3. NoteWork(m)
    BY <1>2, <2>2 DEF NoteWork, Listed, Drafted
  <2> QED
    BY <1>4, <2>1, <2>2, <2>3, ViewWork
<1>5. CASE ~LeavesEditor(mem.editor)
  <2> DEFINE f == BackIn(mem.editor)
  <2>1. View([mem EXCEPT !.editor = f])
    BY <1>5 DEF BackInEditor, WithEditor
  <2>2. mem.editor.step \in {"Value", "PurposeTags", "Review"} /\ (mem.editor.step = "Value" => mem.editor.seed = None)
    BY <1>2, <1>5, NoteDraftIs DEF LeavesEditor
  <2>3. /\ mem.editor.step = "Value" => f = [mem.editor EXCEPT !.step = "Key"]
        /\ mem.editor.step = "PurposeTags" => f = [mem.editor EXCEPT !.step = "Value"]
        /\ mem.editor.step = "Review" => f = Unreviewed(mem.editor)
    BY <2>2 DEF BackIn
  <2> HIDE DEF f
  <2>4. /\ f \in NoteDrafts /\ f.of = mem.editor.of /\ f.seed = mem.editor.seed /\ f.name = mem.editor.name
        /\ f.step # "Review" /\ (f.step = "Key" => f.seed = None)
    <3>1. CASE mem.editor.step = "Value"
      BY <1>2, <2>2, <2>3, <3>1 DEF NoteDrafts
    <3>2. CASE mem.editor.step = "PurposeTags"
      BY <1>2, <2>2, <2>3, <3>2 DEF NoteDrafts
    <3>3. CASE mem.editor.step = "Review"
      BY <1>2, <2>2, <2>3, <3>3 DEF NoteDrafts, Unreviewed
    <3> QED
      BY <2>2, <3>1, <3>2, <3>3
  <2>5. mem.editor.name \in Notes
    BY <1>2, <2>2
  <2>6. LET k == [mem EXCEPT !.editor = f]
        IN NoteWork(k) /\ k.editor # None /\ k.review = mem.review
    BY <1>1, <1>2, <1>3, <2>4, <2>5, DraftGoesOn
  <2> QED
    BY <2>1, <2>6, ViewWork
<1> QED
  BY <1>4, <1>5

-----------------------------------------------------------------------------
(* Reviews of a note *)

(* What a review of a note is made from *)
LEMMA ServedIs ==
  ASSUME IInv, Running, Penned, NEW p \in Profiles
  PROVE  /\ ServedAs(p) \in AgentRefs /\ ServedAs(p).p = p
         /\ \A n \in Notes : Current(p, n) \in [v : Nat, live : BOOLEAN]
BY RunningIs DEF Screens, Versions, ServedAs, AgentRefs, Penned, Recorded, Current

(* The view with its draft at the last step *)
Submits(m, k) ==
    /\ m.editor # None /\ m.resolution = None
    /\ WorkFields \subseteq DOMAIN k
    /\ k.bound = m.bound /\ k.rows = m.rows /\ k.sugs = m.sugs /\ k.detail = m.detail
    /\ k.origin = m.origin /\ k.resolution = None
    /\ k.editor \in NoteDrafts /\ k.editor.of = m.editor.of /\ k.editor.seed = m.editor.seed
    /\ k.editor.name = m.editor.name /\ k.editor.step = "Review" /\ k.editor.name \in Notes
    /\ k.review = m.review \/ k.review \in NoteReviews
    /\ k.review # None \/ Repeats(k.editor)

LEMMA SubmittedWork ==
  ASSUME NEW m, NoteWork(m), NEW k, Submits(m, k)
  PROVE  NoteWork(k) /\ k.editor # None
<1>1. Listed(k)
  BY DEF NoteWork, Listed, Submits
<1>2. Drafted(k)
  BY DEF NoteWork, Drafted, EditorAuthentic, Submits
<1>3. k.editor # None
  BY NoneIsNoNote DEF Submits
<1> QED
  BY <1>1, <1>2, <1>3 DEF NoteWork

LEMMA SubmitTagsWork ==
  ASSUME IInv, Penned, Running', SubmitTags
  PROVE  NotesKeep
<1> DEFINE e == mem.editor
           now == Current(e.of, e.name)
           review == [op |-> "set", by |-> ServedAs(e.of), n |-> e.name, same |-> e.same, expect |-> now]
           was == ReviewRequested(mem)
           asked == [was EXCEPT !.editor.shown = None]
           drawn == [asked EXCEPT !.editor.step = "Review"]
           shown == [Reviewed(asked, "MutationReview") EXCEPT
                       !.review = review, !.editor.shown = review, !.editor.step = "Review"]
<1>1. /\ Editing("PurposeTags") /\ mem.review = None /\ pending = None /\ pending' = pending /\ store' = store
      /\ \/ mem' = was
         \/ IdenticalContent(e, now) /\ mem' = drawn
         \/ mem' = shown
         \/ ended' # "no"
  BY DEF SubmitTags, MayRequestReview, Free, PreviewFails, CancelledAndEnded, InstallReview
<1>2. /\ Running /\ e # None /\ e \in NoteDrafts /\ e.step = "PurposeTags" /\ e.name \in Notes
      /\ mem.resolution = None /\ EditorAuthentic(mem)
  BY <1>1, WritingIs, OnLayerIs
<1>3. mem.bound # None /\ e.of = mem.bound.p /\ e.of \in Profiles
  BY <1>2, BoundIs DEF EditorAuthentic
<1>4. /\ ServedAs(e.of) \in AgentRefs /\ now \in [v : Nat, live : BOOLEAN] /\ e.same \in BOOLEAN
  BY <1>2, <1>3, ServedIs DEF NoteDrafts
<1> HIDE DEF now
<1>5. review \in NoteReviews
  BY <1>2, <1>4 DEF NoteReviews
<1>6. NoteWork(mem) /\ WorkFields \subseteq DOMAIN mem /\ Carries(mem, was)
  BY PennedIs, CarriesAre
<1> HIDE DEF review, was
<1>7. /\ WorkFields \subseteq DOMAIN asked
      /\ asked.bound = was.bound /\ asked.rows = was.rows /\ asked.sugs = was.sugs
      /\ asked.detail = was.detail /\ asked.origin = was.origin /\ asked.resolution = was.resolution
      /\ asked.review = was.review /\ asked.editor = [was.editor EXCEPT !.shown = None]
  BY <1>6 DEF Carries, WorkFields
<1> HIDE DEF asked
<1>8. NoteWork(was) /\ was.editor = e /\ was.resolution = None /\ was.review = None
  BY <1>1, <1>2, <1>6, CarriesWork
<1> DEFINE bare == [e EXCEPT !.shown = None]
<1>9. bare \in NoteDrafts /\ bare.of = e.of /\ bare.seed = e.seed /\ bare.name = e.name /\ bare.same = e.same
  BY <1>2 DEF NoteDrafts
<1> HIDE DEF bare
<1>10. asked.editor = bare
  BY <1>7, <1>8 DEF bare
<1>11. CASE IdenticalContent(e, now) /\ mem' = drawn
  <2>1. /\ WorkFields \subseteq DOMAIN drawn
        /\ drawn.bound = asked.bound /\ drawn.rows = asked.rows /\ drawn.sugs = asked.sugs
        /\ drawn.detail = asked.detail /\ drawn.origin = asked.origin
        /\ drawn.resolution = asked.resolution /\ drawn.review = asked.review
        /\ drawn.editor = [asked.editor EXCEPT !.step = "Review"]
    BY <1>7 DEF WorkFields
  <2> HIDE DEF drawn
  <2> DEFINE f == [bare EXCEPT !.step = "Review"]
  <2>2. /\ f \in NoteDrafts /\ f.of = bare.of /\ f.seed = bare.seed /\ f.name = bare.name
        /\ f.same = bare.same /\ f.step = "Review"
    BY <1>9 DEF NoteDrafts
  <2> HIDE DEF f
  <2>3. drawn.editor = f
    BY <1>10, <2>1 DEF f
  <2>4. f.seed # None /\ f.same = TRUE
    BY <1>4, <1>9, <1>11, <2>2 DEF IdenticalContent
  <2>5. Repeats(drawn.editor)
    BY <2>3, <2>4 DEF Repeats
  <2>6. Submits(was, drawn)
    BY <1>2, <1>7, <1>8, <1>9, <2>1, <2>2, <2>3, <2>5 DEF Submits
  <2>7. NoteWork(drawn) /\ drawn.editor # None
    BY <1>8, <2>6, SubmittedWork
  <2> QED
    BY <1>1, <1>11, <2>7, FreeWork
<1>12. CASE mem' = shown
  <2> DEFINE there == Reviewed(asked, "MutationReview")
             f == [[bare EXCEPT !.shown = review] EXCEPT !.step = "Review"]
  <2>1. /\ WorkFields \subseteq DOMAIN there
        /\ there.bound = asked.bound /\ there.rows = asked.rows /\ there.sugs = asked.sugs
        /\ there.detail = asked.detail /\ there.origin = asked.origin
        /\ there.resolution = asked.resolution /\ there.editor = asked.editor
    BY <1>7 DEF WorkFields, Reviewed, At
  <2>2. shown = [there EXCEPT !.review = review, !.editor.shown = review, !.editor.step = "Review"]
    OBVIOUS
  <2> HIDE DEF there, shown
  <2>3. /\ WorkFields \subseteq DOMAIN shown
        /\ shown.bound = there.bound /\ shown.rows = there.rows /\ shown.sugs = there.sugs
        /\ shown.detail = there.detail /\ shown.origin = there.origin
        /\ shown.resolution = there.resolution /\ shown.review = review
        /\ shown.editor = [[there.editor EXCEPT !.shown = review] EXCEPT !.step = "Review"]
    BY <2>1, <2>2 DEF WorkFields
  <2>4. /\ f \in NoteDrafts /\ f.of = bare.of /\ f.seed = bare.seed /\ f.name = bare.name
        /\ f.step = "Review"
    BY <1>5, <1>9 DEF NoteDrafts
  <2> HIDE DEF f
  <2>5. shown.editor = f /\ review # None
    BY <1>5, <1>10, <2>1, <2>3, NoneIsNoNote DEF f
  <2>6. Submits(was, shown)
    BY <1>2, <1>5, <1>7, <1>8, <1>9, <2>1, <2>3, <2>4, <2>5 DEF Submits
  <2>7. NoteWork(shown) /\ shown.editor # None
    BY <1>8, <2>6, SubmittedWork
  <2> QED
    BY <1>1, <1>12, <2>7, FreeWork
<1>13. CASE mem' = was
  BY <1>1, <1>8, <1>13, FreeWork
<1> QED
  BY <1>1, <1>11, <1>12, <1>13 DEF Running

LEMMA RequestedWork ==
  ASSUME Penned, mem.editor # None => mem.editor.step = "Review", NEW pane
  PROVE  LET k == Reviewed(ReviewRequested(mem), pane)
         IN /\ WorkFields \subseteq DOMAIN k /\ k.registered = TRUE
            /\ k.bound = mem.bound /\ k.rows = mem.rows /\ k.sugs = mem.sugs
            /\ k.detail = mem.detail \/ k.detail = None
            /\ k.editor = mem.editor /\ k.origin = mem.origin
            /\ k.review = mem.review /\ k.resolution = mem.resolution
<1> DEFINE was == ReviewRequested(mem)
<1>1. Carries(mem, was)
  BY PennedIs, CarriesAre
<1> HIDE DEF was
<1>2. LET k == Reviewed(was, pane)
      IN /\ WorkFields \subseteq DOMAIN k /\ k.registered = TRUE
         /\ k.bound = was.bound /\ k.rows = was.rows /\ k.sugs = was.sugs
         /\ k.detail = was.detail
         /\ k.editor = was.editor /\ k.origin = was.origin
         /\ k.review = was.review /\ k.resolution = was.resolution
  BY <1>1 DEF Carries, Reviewed, At, WorkFields
<1> QED
  BY <1>1, <1>2 DEF Carries, was

(* A review is requested from where no draft is being written. *)
LEMMA RequestDeleteWork ==
  ASSUME IInv, Penned, Running', RequestDelete
  PROVE  NotesKeep
<1> DEFINE n == mem.detail.n
           now == Current(mem.bound.p, n)
           review == [op |-> "delete", by |-> ServedAs(mem.bound.p), n |-> n, same |-> FALSE, expect |-> now]
           was == ReviewRequested(mem)
           there == Reviewed(was, "MutationReview")
           asked == [there EXCEPT !.review = review]
<1>1. /\ EnterOn("EntryDetail") /\ MayRequestReview(mem)
      /\ pending = None /\ pending' = pending /\ store' = store
      /\ mem' = was \/ mem' = asked \/ ended' # "no"
  BY DEF RequestDelete, Free, PreviewFails, CancelledAndEnded, InstallReview
<1>2. /\ Running /\ (mem.editor # None => mem.editor.step = "Review")
      /\ mem.review = None /\ mem.resolution = None /\ DetailAuthentic(mem)
  BY <1>1, OnLayerIs, LayerWork DEF MayRequestReview, EnterOn, OnLayer, LayerAuthentic
<1>3. n \in Notes /\ mem.bound # None
  BY <1>2, PennedIs DEF DetailAuthentic, RowAuthentic, NoteWork, Listed
<1>4. mem.bound.p \in Profiles
  BY <1>2, <1>3, BoundIs
<1>5. ServedAs(mem.bound.p) \in AgentRefs /\ now \in [v : Nat, live : BOOLEAN]
  BY <1>2, <1>3, <1>4, ServedIs
<1> HIDE DEF n, now
<1>6. review \in NoteReviews
  BY <1>3, <1>5 DEF NoteReviews
<1>7. NoteWork(mem) /\ Carries(mem, was)
  BY PennedIs, CarriesAre
<1>8. NoteWork(was) /\ was.editor = mem.editor
  BY <1>7, CarriesWork
<1>9. /\ WorkFields \subseteq DOMAIN there
      /\ there.bound = mem.bound /\ there.rows = mem.rows /\ there.sugs = mem.sugs
      /\ there.detail = mem.detail \/ there.detail = None
      /\ there.editor = mem.editor /\ there.origin = mem.origin
      /\ there.resolution = mem.resolution
  BY <1>2, RequestedWork
<1> HIDE DEF review, was, there
<1>10. /\ WorkFields \subseteq DOMAIN asked
       /\ asked.bound = there.bound /\ asked.rows = there.rows /\ asked.sugs = there.sugs
       /\ asked.detail = there.detail /\ asked.editor = there.editor /\ asked.origin = there.origin
       /\ asked.resolution = there.resolution /\ asked.review = review
  BY <1>9 DEF WorkFields
<1> HIDE DEF asked
<1>11. review # None
  BY <1>6, NoneIsNoNote
<1>12. Listed(asked)
  BY <1>2, <1>6, <1>7, <1>9, <1>10 DEF NoteWork, Listed
<1>13. Drafted(asked)
  BY <1>2, <1>7, <1>9, <1>10, <1>11 DEF NoteWork, Drafted, EditorAuthentic
<1>14. CASE mem' = asked
  BY <1>1, <1>9, <1>10, <1>12, <1>13, <1>14, FreeWork DEF NoteWork
<1>15. CASE mem' = was
  BY <1>1, <1>8, <1>15, FreeWork
<1> QED
  BY <1>1, <1>14, <1>15 DEF Running

LEMMA RequestResolutionWork ==
  ASSUME IInv, Penned, Running', RequestResolution
  PROVE  NotesKeep
<1> DEFINE s == mem.proposal.s
           resolution == [choice |-> mem.choice, s |-> s, by |-> ServedAs(store.sugs[s].p)]
           was == ReviewRequested(mem)
           there == Reviewed(was, "ProposalResolutionReview")
           asked == [there EXCEPT !.resolution = resolution]
<1>1. /\ EnterOn("ProposalDetail") /\ MayRequestReview(mem)
      /\ pending = None /\ pending' = pending /\ store' = store
      /\ mem' = was \/ mem' = asked \/ ended' # "no"
  BY DEF RequestResolution, Free, PreviewFails, CancelledAndEnded, InstallReview
<1>2. /\ Running /\ (mem.editor # None => mem.editor.step = "Review")
      /\ mem.review = None /\ mem.resolution = None /\ ProposalAuthentic(mem)
  BY <1>1, OnLayerIs, LayerWork DEF MayRequestReview, EnterOn, OnLayer, LayerAuthentic
<1>3. s \in Suggestions
  BY <1>2, PennedIs DEF ProposalAuthentic, NoteWork, Listed
<1>4. store.sugs[s].p \in Profiles
  BY <1>3 DEF Penned, Recorded
<1>5. ServedAs(store.sugs[s].p).p \in Profiles
  BY <1>2, <1>4, ServedIs
<1> HIDE DEF s
<1>6. Resolves(resolution)
  BY <1>3, <1>5 DEF Resolves
<1>7. NoteWork(mem) /\ Carries(mem, was)
  BY PennedIs, CarriesAre
<1>8. NoteWork(was) /\ was.editor = mem.editor
  BY <1>7, CarriesWork
<1>9. /\ WorkFields \subseteq DOMAIN there /\ there.registered = TRUE
      /\ there.bound = mem.bound /\ there.rows = mem.rows /\ there.sugs = mem.sugs
      /\ there.detail = mem.detail \/ there.detail = None
      /\ there.editor = mem.editor /\ there.origin = mem.origin
      /\ there.review = mem.review
  BY <1>2, RequestedWork
<1> HIDE DEF resolution, was, there
<1>10. /\ WorkFields \subseteq DOMAIN asked /\ asked.registered = TRUE
       /\ asked.bound = there.bound /\ asked.rows = there.rows /\ asked.sugs = there.sugs
       /\ asked.detail = there.detail /\ asked.editor = there.editor /\ asked.origin = there.origin
       /\ asked.resolution = resolution /\ asked.review = there.review
  BY <1>9 DEF WorkFields
<1> HIDE DEF asked
<1>11. Listed(asked)
  BY <1>2, <1>6, <1>7, <1>9, <1>10 DEF NoteWork, Listed
<1>12. Drafted(asked)
  BY <1>2, <1>7, <1>9, <1>10 DEF NoteWork, Drafted, EditorAuthentic
<1>13. CASE mem' = asked
  BY <1>1, <1>9, <1>10, <1>11, <1>12, <1>13, FreeWork DEF NoteWork
<1>14. CASE mem' = was
  BY <1>1, <1>8, <1>14, FreeWork
<1> QED
  BY <1>1, <1>13, <1>14 DEF Running

LEMMA ConfirmReviewWork ==
  ASSUME Penned, ConfirmReview \/ LeaveConfirmation
  PROVE  NotesKeep
<1>1. mem.editor # None => mem.editor.step = "Review"
  BY LayerWork DEF ConfirmReview, LeaveConfirmation
<1>2. \A pane : NoteWork(At(mem, pane)) /\ At(mem, pane).editor = mem.editor
                /\ At(mem, pane).review = mem.review
  BY <1>1, PennedIs, PanedWork
<1>3. CASE LeaveConfirmation
  BY <1>2, <1>3, ViewWork DEF LeaveConfirmation
<1>4. CASE ConfirmReview
  <2> DEFINE k == At(mem, "Confirmation")
  <2>1. NoteWork(k) /\ k.editor = mem.editor /\ k.review = mem.review /\ WorkFields \subseteq DOMAIN k
    BY <1>2 DEF NoteWork, Listed
  <2>2. PICK x : View([k EXCEPT !.confirmation = x])
    BY <1>4 DEF ConfirmReview
  <2> HIDE DEF k
  <2>3. Carries(k, [k EXCEPT !.confirmation = x])
    BY <2>1, CarriesAre
  <2> QED
    BY <2>1, <2>2, <2>3, CarriesWork, ViewWork
<1> QED
  BY <1>3, <1>4

LEMMA ExecuteWork ==
  ASSUME Penned, Execute
  PROVE  NotesKeep
<1> DEFINE command == ConfirmedCommand(mem)
           what == IF mem.review # None THEN "mutation" ELSE "resolution"
<1>1. Queue(mem, Intent(what, None), mem.bound.p, command, deferred)
  BY DEF Execute
<1>2. command # None
  BY DEF Execute, EnterOn, OnLayer, LayerAuthentic
<1>3. command = IF mem.review # None THEN mem.review ELSE mem.resolution
  BY <1>2 DEF ConfirmedCommand, ReviewCommand
<1> HIDE DEF command
<1>4. /\ what = "mutation" => command \in NoteReviews
      /\ what = "resolution" => Resolves(command) /\ mem.review = None
  BY <1>2, <1>3, PennedIs DEF NoteWork, Listed
<1> HIDE DEF what
<1>5. Intent(what, None).what = what
  BY DEF Intent
<1> QED
  BY <1>1, <1>4, <1>5, PennedIs, QueueWork

(* What cancelling leaves of the draft *)
LEMMA UnwoundWork ==
  ASSUME Penned
  PROVE  LET m == [Unwound(mem) EXCEPT !.intent = None]
         IN NoteWork(m) /\ (mem.editor # None => m.editor # None)
<1> DEFINE bare == [mem EXCEPT !.confirmation = None, !.registered = FALSE]
<1>1. /\ WorkFields \subseteq DOMAIN bare
      /\ bare.bound = mem.bound /\ bare.pane = mem.pane /\ bare.rows = mem.rows /\ bare.sugs = mem.sugs
      /\ bare.detail = mem.detail /\ bare.editor = mem.editor /\ bare.origin = mem.origin
      /\ bare.review = mem.review /\ bare.resolution = mem.resolution
  BY PennedIs DEF WorkFields
<1> HIDE DEF bare
<1>2. NoteWork(mem)
  BY PennedIs
<1>3. ASSUME NEW m, NoteWork(m), mem.editor # None => m.editor # None
      PROVE  LET k == [m EXCEPT !.intent = None]
             IN NoteWork(k) /\ (mem.editor # None => k.editor # None)
  <2>1. WorkFields \subseteq DOMAIN m
    BY <1>3 DEF NoteWork, Listed
  <2>2. Carries(m, [m EXCEPT !.intent = None])
    BY <2>1, CarriesAre
  <2> QED
    BY <1>3, <2>2, CarriesWork
<1>4. CASE mem.review # None
  <2> DEFINE pane == IF mem.editor # None THEN "Editor" ELSE "EntryDetail"
             k == At(bare, pane)
             f == IF mem.editor = None THEN None ELSE Unreviewed(mem.editor)
             m == [k EXCEPT !.review = None, !.editor = f]
  <2>1. /\ WorkFields \subseteq DOMAIN k
        /\ k.bound = mem.bound /\ k.pane = pane /\ k.rows = mem.rows /\ k.sugs = mem.sugs
        /\ k.detail = mem.detail /\ k.editor = mem.editor /\ k.origin = mem.origin
        /\ k.resolution = mem.resolution
    BY <1>1 DEF At, WorkFields
  <2>2. Unwound(mem) = [k EXCEPT !.review = None, !.editor = IF @ = None THEN None ELSE Unreviewed(@)]
    BY <1>4 DEF Unwound, bare
  <2> HIDE DEF k
  <2>3. Unwound(mem) = m
    BY <2>1, <2>2
  <2>4. /\ WorkFields \subseteq DOMAIN m
        /\ m.bound = mem.bound /\ m.pane = pane /\ m.rows = mem.rows /\ m.sugs = mem.sugs
        /\ m.detail = mem.detail /\ m.editor = f /\ m.origin = mem.origin
        /\ m.resolution = mem.resolution /\ m.review = None
    BY <2>1 DEF WorkFields
  <2> HIDE DEF m
  <2>5. mem.resolution = None
    BY <1>2, <1>4 DEF NoteWork, Listed
  <2>6. Listed(m)
    BY <1>2, <2>4, <2>5 DEF NoteWork, Listed
  <2>7. mem.editor # None =>
          /\ f \in NoteDrafts /\ f.of = mem.editor.of /\ f.seed = mem.editor.seed
          /\ f.name = mem.editor.name
          /\ f.step = IF mem.editor.step = "Review" THEN "PurposeTags" ELSE mem.editor.step
    <3> SUFFICES ASSUME mem.editor # None
                 PROVE  LET g == Unreviewed(mem.editor)
                        IN /\ g \in NoteDrafts /\ g.of = mem.editor.of /\ g.seed = mem.editor.seed
                           /\ g.name = mem.editor.name
                           /\ g.step = IF mem.editor.step = "Review" THEN "PurposeTags" ELSE mem.editor.step
      OBVIOUS
    <3>1. mem.editor \in NoteDrafts
      BY <1>2 DEF NoteWork, Drafted
    <3> QED
      BY <3>1 DEF NoteDrafts, Unreviewed
  <2>8. mem.editor = None => f = None
    OBVIOUS
  <2> HIDE DEF f
  <2>9. Drafted(m)
    BY <1>2, <2>4, <2>5, <2>7, <2>8 DEF NoteWork, Drafted, EditorAuthentic
  <2>10. mem.editor # None => m.editor # None
    BY <2>4, <2>7, NoneIsNoNote
  <2> QED
    BY <1>3, <2>3, <2>6, <2>9, <2>10 DEF NoteWork
<1>5. CASE mem.review = None /\ mem.resolution # None
  <2> DEFINE k == At(bare, "ProposalDetail")
             m == [k EXCEPT !.resolution = None]
  <2>1. /\ WorkFields \subseteq DOMAIN k
        /\ k.bound = mem.bound /\ k.rows = mem.rows /\ k.sugs = mem.sugs
        /\ k.detail = mem.detail /\ k.editor = mem.editor /\ k.origin = mem.origin
        /\ k.review = mem.review
    BY <1>1 DEF At, WorkFields
  <2>2. Unwound(mem) = m
    BY <1>5 DEF Unwound, bare
  <2> HIDE DEF k
  <2>3. /\ WorkFields \subseteq DOMAIN m
        /\ m.bound = mem.bound /\ m.rows = mem.rows /\ m.sugs = mem.sugs
        /\ m.detail = mem.detail /\ m.editor = mem.editor /\ m.origin = mem.origin
        /\ m.resolution = None /\ m.review = None
    BY <1>5, <2>1 DEF WorkFields
  <2> HIDE DEF m
  <2>4. Listed(m)
    BY <1>2, <2>3 DEF NoteWork, Listed
  <2>5. Drafted(m)
    BY <1>2, <1>5, <2>3 DEF NoteWork, Drafted, EditorAuthentic
  <2> QED
    BY <1>3, <2>2, <2>3, <2>4, <2>5 DEF NoteWork
<1>6. CASE mem.review = None /\ mem.resolution = None
  <2>1. Unwound(mem) = bare
    BY <1>6 DEF Unwound, bare
  <2>2. Listed(bare)
    BY <1>1, <1>2, <1>6 DEF NoteWork, Listed
  <2>3. Drafted(bare)
    BY <1>1, <1>2, <1>6 DEF NoteWork, Drafted, EditorAuthentic
  <2> QED
    BY <1>1, <1>3, <2>1, <2>2, <2>3 DEF NoteWork
<1> QED
  BY <1>4, <1>5, <1>6

LEMMA CancelReviewWork ==
  ASSUME Penned, Running', CancelReview
  PROVE  NotesKeep
<1>1. /\ pending = None /\ pending' = pending /\ store' = store
      /\ mem' = [Unwound(mem) EXCEPT !.intent = None] \/ ended' # "no"
  BY DEF CancelReview, Free, CancelAndUnwind
<1>2. mem' = [Unwound(mem) EXCEPT !.intent = None]
  BY <1>1 DEF Running
<1> QED
  BY <1>1, <1>2, UnwoundWork, FreeWork

-----------------------------------------------------------------------------
(* What the runtime answers *)

LEMMA HydratedWork ==
  ASSUME NEW m, NoteWork(m), NEW intent, NEW view, NEW row,
         intent.what = "entries" => view.rows \subseteq Notes,
         intent.what = "proposals" => view.rows \subseteq Suggestions,
         intent.what = "detail" /\ m.bound # None /\ view.item # None /\ view.item.n \in Notes =>
             view.item \in NoteRefs
  PROVE  NoteWork(Hydrated(m, intent, view, row)) /\ Hydrated(m, intent, view, row).editor = m.editor
<1> DEFINE cleared == [m EXCEPT !.intent = None]
           Good(k) == NoteWork(k) /\ WorkFields \subseteq DOMAIN k /\ k.editor = m.editor
<1>1. ASSUME NEW j, Good(j), NEW k, Carries(j, k)
      PROVE  Good(k)
  BY <1>1, CarriesWork
<1>2. Good(m)
  BY DEF NoteWork, Listed
<1>3. Carries(m, cleared)
  BY <1>2, CarriesAre
<1>4. Good(cleared) /\ cleared.bound = m.bound
  BY <1>1, <1>2, <1>3 DEF Carries
<1>5. Hydrated(m, intent, view, row) =
         CASE intent.what = "entries" -> WithRow([cleared EXCEPT !.rows = view.rows], row)
           [] intent.what = "detail" -> [cleared EXCEPT !.detail = view.item]
           [] intent.what = "history" ->
                  WithPast([cleared EXCEPT !.history = view.item], row)
           [] intent.what = "version" -> [cleared EXCEPT !.version = view.item]
           [] intent.what = "proposals" -> WithSug([cleared EXCEPT !.sugs = view.rows], row)
           [] intent.what = "proposal" -> [cleared EXCEPT !.proposal = view.item]
           [] intent.what = "episodes" -> WithEpisode([cleared EXCEPT !.episodes = view.rows], row)
           [] intent.what = "summary" -> [cleared EXCEPT !.summary = view.item]
           [] OTHER -> cleared
  BY DEF Hydrated
<1> HIDE DEF cleared
<1>6. \A x : /\ Good([cleared EXCEPT !.history = x]) /\ Good([cleared EXCEPT !.version = x])
             /\ Good([cleared EXCEPT !.proposal = x]) /\ Good([cleared EXCEPT !.episodes = x])
             /\ Good([cleared EXCEPT !.summary = x])
  BY <1>1, <1>4, CarriesAre
<1>7. ASSUME NEW k, Good(k)
      PROVE  Good(WithRow(k, row)) /\ Good(WithPast(k, row)) /\ Good(WithSug(k, row)) /\ Good(WithEpisode(k, row))
  BY <1>1, <1>7, CarriesAre
<1>8. view.rows \subseteq Notes => Good([cleared EXCEPT !.rows = view.rows])
  <2> DEFINE k == [cleared EXCEPT !.rows = view.rows]
  <2>1. /\ WorkFields \subseteq DOMAIN k
        /\ k.bound = cleared.bound /\ k.pane = cleared.pane /\ k.rows = view.rows /\ k.sugs = cleared.sugs
        /\ k.detail = cleared.detail /\ k.editor = cleared.editor /\ k.origin = cleared.origin
        /\ k.review = cleared.review /\ k.resolution = cleared.resolution
        /\ k.registered = cleared.registered
    BY <1>4 DEF WorkFields
  <2> HIDE DEF k
  <2>2. view.rows \subseteq Notes => Listed(k)
    BY <1>4, <2>1 DEF NoteWork, Listed
  <2>3. Drafted(k)
    BY <1>4, <2>1 DEF NoteWork, Drafted, EditorAuthentic
  <2> QED
    BY <1>4, <2>1, <2>2, <2>3 DEF NoteWork, k
<1>9. view.rows \subseteq Suggestions => Good([cleared EXCEPT !.sugs = view.rows])
  <2> DEFINE k == [cleared EXCEPT !.sugs = view.rows]
  <2>1. /\ WorkFields \subseteq DOMAIN k
        /\ k.bound = cleared.bound /\ k.pane = cleared.pane /\ k.rows = cleared.rows /\ k.sugs = view.rows
        /\ k.detail = cleared.detail /\ k.editor = cleared.editor /\ k.origin = cleared.origin
        /\ k.review = cleared.review /\ k.resolution = cleared.resolution
        /\ k.registered = cleared.registered
    BY <1>4 DEF WorkFields
  <2> HIDE DEF k
  <2>2. view.rows \subseteq Suggestions => Listed(k)
    BY <1>4, <2>1 DEF NoteWork, Listed
  <2>3. Drafted(k)
    BY <1>4, <2>1 DEF NoteWork, Drafted, EditorAuthentic
  <2> QED
    BY <1>4, <2>1, <2>2, <2>3 DEF NoteWork, k
<1>10. intent.what = "detail" => Good([cleared EXCEPT !.detail = view.item])
  <2> DEFINE k == [cleared EXCEPT !.detail = view.item]
  <2>1. /\ WorkFields \subseteq DOMAIN k
        /\ k.bound = cleared.bound /\ k.pane = cleared.pane /\ k.rows = cleared.rows /\ k.sugs = cleared.sugs
        /\ k.detail = view.item /\ k.editor = cleared.editor /\ k.origin = cleared.origin
        /\ k.review = cleared.review /\ k.resolution = cleared.resolution
        /\ k.registered = cleared.registered
    BY <1>4 DEF WorkFields
  <2> HIDE DEF k
  <2>2. intent.what = "detail" => Listed(k)
    BY <1>4, <2>1 DEF NoteWork, Listed
  <2>3. Drafted(k)
    BY <1>4, <2>1 DEF NoteWork, Drafted, EditorAuthentic
  <2> QED
    BY <1>4, <2>1, <2>2, <2>3 DEF NoteWork, k
<1> DEFINE after == Hydrated(m, intent, view, row)
<1>11. CASE intent.what = "entries"
  <2> DEFINE k == [cleared EXCEPT !.rows = view.rows]
  <2>1. after = WithRow(k, row)
    BY <1>5, <1>11
  <2>2. Good(k)
    BY <1>8, <1>11
  <2> HIDE DEF k
  <2>3. Good(WithRow(k, row))
    BY <1>7, <2>2
  <2> QED
    BY <2>1, <2>3
<1>12. CASE intent.what = "proposals"
  <2> DEFINE k == [cleared EXCEPT !.sugs = view.rows]
  <2>1. after = WithSug(k, row)
    BY <1>5, <1>12
  <2>2. Good(k)
    BY <1>9, <1>12
  <2> HIDE DEF k
  <2>3. Good(WithSug(k, row))
    BY <1>7, <2>2
  <2> QED
    BY <2>1, <2>3
<1>13. CASE intent.what \notin {"entries", "proposals"}
  <2>1. \/ intent.what = "detail" /\ after = [cleared EXCEPT !.detail = view.item]
        \/ after = WithPast([cleared EXCEPT !.history = view.item], row)
        \/ after = [cleared EXCEPT !.version = view.item]
        \/ after = [cleared EXCEPT !.proposal = view.item]
        \/ after = WithEpisode([cleared EXCEPT !.episodes = view.rows], row)
        \/ after = [cleared EXCEPT !.summary = view.item]
        \/ after = cleared
    BY <1>5, <1>13
  <2> HIDE DEF after, Good
  <2>2. Good(after)
    BY <1>4, <1>6, <1>7, <1>10, <2>1
  <2> QED
    BY <2>2 DEF Good, after
<1> QED
  BY <1>11, <1>12, <1>13

LEMMA ForgottenWork ==
  ASSUME Penned
  PROVE  NoteWork(Forgotten) /\ Forgotten.editor = mem.editor
<1>1. PICK x : Forgotten = [mem EXCEPT !.intent = x]
  BY DEF Forgotten
<1>2. Carries(mem, Forgotten)
  BY <1>1, PennedIs, CarriesAre
<1> QED
  BY <1>2, PennedIs, CarriesWork

LEMMA ReadAnsweredWork ==
  ASSUME IInv, Penned, Running', ReadAnswered
  PROVE  NotesKeep
<1> DEFINE view == Answer(pending)
           what == pending.intent.what
<1>1. /\ Running /\ pending' = None /\ store' = store
      /\ \/ mem' = mem \/ mem' = Forgotten
         \/ /\ view # None /\ ReadMatches(mem, pending.intent, view)
            /\ \E row : mem' = Hydrated(mem, pending.intent, view, row)
  BY PendingIs DEF ReadAnswered
<1>2. CASE mem' = mem \/ mem' = Forgotten
  BY <1>1, <1>2, PennedIs, ForgottenWork, FreeWork
<1>3. ASSUME view # None, ReadMatches(mem, pending.intent, view),
             NEW row, mem' = Hydrated(mem, pending.intent, view, row)
      PROVE  NotesKeep
  <2>1. what = "entries" => view.rows \subseteq Notes
    BY DEF Answer
  <2>2. what = "proposals" => view.rows \subseteq Suggestions
    BY DEF Answer
  <2>3. what = "detail" /\ mem.bound # None /\ view.item # None /\ view.item.n \in Notes =>
             view.item \in NoteRefs
    <3> SUFFICES ASSUME what = "detail", mem.bound # None, view.item.n \in Notes
                 PROVE  view.item \in NoteRefs
      OBVIOUS
    <3>1. /\ view.by = ServedAs(pending.p)
          /\ view.item = [n |-> pending.intent.key, v |-> store.notes[pending.p][pending.intent.key].v]
      BY <1>3 DEF Answer, Live
    <3>2. pending.p \in Profiles
      BY <1>1, <1>3, <3>1, BoundIs DEF ReadMatches, ServedAs
    <3>3. store.notes[pending.p][pending.intent.key] \in [v : Nat, live : BOOLEAN]
          /\ pending.intent.key \in Notes
      BY <3>1, <3>2 DEF Penned, Recorded
    <3> QED
      BY <3>1, <3>3 DEF NoteRefs
  <2> HIDE DEF view
  <2>4. NoteWork(mem') /\ mem'.editor = mem.editor
    BY <1>3, <2>1, <2>2, <2>3, PennedIs, HydratedWork
  <2> QED
    BY <1>1, <2>4, FreeWork
<1> QED
  BY <1>1, <1>2, <1>3

(* What is carried out is recorded: a note has another version, unless a     *)
(* suggestion was rejected. *)
LEMMA CarriedWork ==
  ASSUME Recorded, NEW c, c \in NoteReviews \/ Resolves(c)
  PROVE  LET after == CarriedOut(c)
         IN /\ {"notes", "sugs"} \subseteq DOMAIN after
            /\ after.notes \in [Profiles -> [Notes -> [v : Nat, live : BOOLEAN]]]
            /\ after.sugs \in [Suggestions ->
                  [p : Profiles, n : Notes, status : {"pending", "accepted", "rejected", "expired"}]]
            /\ c \in NoteReviews \/ c.choice = "approve" => after.notes # store.notes
<1> DEFINE Records == [Profiles -> [Notes -> [v : Nat, live : BOOLEAN]]]
           Tales == [p : Profiles, n : Notes, status : {"pending", "accepted", "rejected", "expired"}]
           Bump(n, live) == [store.notes EXCEPT ![c.by.p][n] = [v |-> @.v + 1, live |-> live]]
           Gone(gone, status) ==
               [s \in Suggestions |-> IF s \in gone THEN [store.sugs[s] EXCEPT !.status = status]
                                      ELSE store.sugs[s]]
           Old(n) == {s \in Suggestions : store.sugs[s].p = c.by.p /\ store.sugs[s].n = n
                                          /\ store.sugs[s].status = "pending"}
<1>1. c.by.p \in Profiles
  BY DEF Resolves, NoteReviews, AgentRefs
<1>2. ASSUME NEW n \in Notes, NEW live \in BOOLEAN
      PROVE  Bump(n, live) \in Records /\ Bump(n, live) # store.notes
  <2>1. store.notes \in Records /\ store.notes[c.by.p] \in [Notes -> [v : Nat, live : BOOLEAN]]
        /\ store.notes[c.by.p][n] \in [v : Nat, live : BOOLEAN]
    BY <1>1 DEF Recorded
  <2>2. store.notes[c.by.p][n].v \in Nat
    BY <2>1
  <2>3. [v |-> store.notes[c.by.p][n].v + 1, live |-> live] \in [v : Nat, live : BOOLEAN]
    BY <2>2
  <2>4. Bump(n, live) \in Records
    BY <2>1, <2>3, <1>1
  <2>5. Bump(n, live)[c.by.p][n].v = store.notes[c.by.p][n].v + 1
    BY <2>1, <1>1
  <2>6. store.notes[c.by.p][n].v + 1 # store.notes[c.by.p][n].v
    BY <2>2
  <2> QED
    BY <2>4, <2>5, <2>6
<1>3. \A s \in Suggestions : store.sugs[s] \in Tales
  BY DEF Recorded
<1>4. \A s \in Suggestions : \A status \in {"accepted", "rejected", "expired"} :
         [store.sugs[s] EXCEPT !.status = status] \in Tales
  BY <1>3
<1>5. \A gone : \A status \in {"accepted", "rejected", "expired"} : Gone(gone, status) \in [Suggestions -> Tales]
  BY <1>3, <1>4
<1>6. ASSUME NEW sugs \in [Suggestions -> Tales], NEW s \in Suggestions
      PROVE  [sugs EXCEPT ![s].status = "accepted"] \in [Suggestions -> Tales]
  <2>1. [sugs[s] EXCEPT !.status = "accepted"] \in Tales
    BY <1>6
  <2> HIDE DEF Tales
  <2> QED
    BY <1>6, <2>1
<1>7. store.notes \in Records /\ {"notes", "sugs"} \subseteq DOMAIN store
  BY DEF Recorded
<1> DEFINE after == CarriedOut(c)
<1>8. CASE "s" \notin DOMAIN c
  <2>1. c \in NoteReviews /\ c.n \in Notes /\ (c.op = "set") \in BOOLEAN
    BY <1>8 DEF Resolves, NoteReviews
  <2>2. after = [store EXCEPT !.notes = Bump(c.n, c.op = "set"), !.sugs = Gone(Old(c.n), "expired")]
    BY <1>8 DEF CarriedOut
  <2>3. Bump(c.n, c.op = "set") \in Records /\ Bump(c.n, c.op = "set") # store.notes
    BY <1>2, <2>1
  <2>4. Gone(Old(c.n), "expired") \in [Suggestions -> Tales]
    BY <1>5
  <2> HIDE DEF Bump, Gone, Old, after, Records, Tales
  <2>5. /\ {"notes", "sugs"} \subseteq DOMAIN after
        /\ after.notes = Bump(c.n, c.op = "set") /\ after.sugs = Gone(Old(c.n), "expired")
    BY <1>7, <2>2
  <2> QED
    BY <2>3, <2>4, <2>5 DEF after, Records, Tales
<1>9. CASE "s" \in DOMAIN c /\ c.choice = "approve"
  <2>1. Resolves(c) /\ c.s \in Suggestions
    BY <1>9 DEF Resolves, NoteReviews
  <2> DEFINE n == store.sugs[c.s].n
             sugs == [Gone(Old(n), "expired") EXCEPT ![c.s].status = "accepted"]
  <2>2. n \in Notes
    BY <1>3, <2>1
  <2>3. after = [store EXCEPT !.notes = Bump(n, TRUE), !.sugs = sugs]
    BY <1>9 DEF CarriedOut
  <2>4. Bump(n, TRUE) \in Records /\ Bump(n, TRUE) # store.notes
    BY <1>2, <2>2
  <2>5. Gone(Old(n), "expired") \in [Suggestions -> Tales]
    BY <1>5
  <2> HIDE DEF Bump, Gone, Old, after, Records, Tales
  <2>6. sugs \in [Suggestions -> Tales]
    BY <1>6, <2>1, <2>5
  <2> HIDE DEF sugs
  <2>7. /\ {"notes", "sugs"} \subseteq DOMAIN after
        /\ after.notes = Bump(n, TRUE) /\ after.sugs = sugs
    BY <1>7, <2>3
  <2> QED
    BY <2>4, <2>6, <2>7 DEF after, Records, Tales
<1>10. CASE "s" \in DOMAIN c /\ c.choice # "approve"
  <2>1. after = [store EXCEPT !.sugs = Gone({c.s}, "rejected")]
    BY <1>10 DEF CarriedOut
  <2>2. Gone({c.s}, "rejected") \in [Suggestions -> Tales]
    BY <1>5
  <2>3. c \notin NoteReviews
    BY <1>10 DEF NoteReviews
  <2> HIDE DEF Bump, Gone, Old, after, Records, Tales
  <2>4. /\ {"notes", "sugs"} \subseteq DOMAIN after
        /\ after.notes = store.notes /\ after.sugs = Gone({c.s}, "rejected")
    BY <1>7, <2>1
  <2> QED
    BY <1>7, <1>10, <2>2, <2>3, <2>4 DEF after, Records, Tales
<1> QED
  BY <1>8, <1>9, <1>10

LEMMA MutationAnsweredWork ==
  ASSUME Penned, Running', MutationAnswered
  PROVE  NotesKeep
<1> DEFINE c == pending.command
           intent == pending.intent
<1>1. /\ pending # None /\ pending.kind = "memory" /\ intent.what \in {"mutation", "resolution"}
      /\ pending' = None /\ store' = CarriedOut(c)
      /\ \E view : ResultMatches(mem, intent, view) /\ mem' = Completed(mem, intent.what)
  BY PendingIs DEF MutationAnswered, Mutations, Running
<1>2. /\ intent.what = "mutation" => c \in NoteReviews
      /\ intent.what = "resolution" => Resolves(c) /\ mem.review = None
      /\ Recorded /\ NoteWork(mem)
  BY <1>1 DEF Penned, Ordered
<1>3. Recorded' /\ (c \in NoteReviews \/ c.choice = "approve" => store'.notes # store.notes)
  BY <1>1, <1>2, CarriedWork DEF Recorded
<1>4. NoteWork(mem')
  <2> DEFINE there == At(mem, "Result")
             m == Completed(mem, intent.what)
  <2>1. /\ WorkFields \subseteq DOMAIN there
        /\ there.bound = mem.bound /\ there.rows = mem.rows /\ there.sugs = mem.sugs
        /\ there.detail = mem.detail
    BY PennedIs DEF At, WorkFields
  <2>2. m = [there EXCEPT !.registered = FALSE, !.review = None, !.resolution = None,
                !.confirmation = None, !.editor = None, !.result = intent.what, !.intent = None]
    BY DEF Completed
  <2> HIDE DEF there
  <2>3. /\ WorkFields \subseteq DOMAIN m
        /\ m.bound = mem.bound /\ m.rows = mem.rows /\ m.sugs = mem.sugs
        /\ m.detail = mem.detail /\ m.editor = None /\ m.review = None /\ m.resolution = None
    BY <2>1, <2>2 DEF WorkFields
  <2> HIDE DEF m
  <2>4. NoteWork(m)
    BY <1>2, <2>3 DEF NoteWork, Listed, Drafted
  <2> QED
    BY <1>1, <2>4 DEF m
<1>5. Penned'
  BY <1>1, <1>3, <1>4 DEF Penned, Ordered
<1>6. NotesKept
  <2>1. CASE c \in NoteReviews \/ c.choice = "approve"
    BY <1>3, <2>1 DEF NotesKept
  <2>2. CASE intent.what = "resolution"
    <3>1. ReviewCommand(mem) # None
      BY <1>1 DEF ResultMatches, ConfirmedCommand
    <3>2. mem.resolution # None
      BY <1>2, <2>2, <3>1 DEF ReviewCommand, ResolutionAuthentic
    <3> QED
      BY <1>2, <3>2 DEF NotesKept, NoteWork, Drafted, Repeats
  <2> QED
    BY <1>1, <1>2, <2>1, <2>2
<1> QED
  BY <1>5, <1>6 DEF NotesKeep

LEMMA MutationRefusedWork ==
  ASSUME Penned, Running', MutationRefused
  PROVE  NotesKeep
<1>1. /\ pending' = None /\ store' = store
      /\ mem' = Forgotten \/ mem' = [Unwound(mem) EXCEPT !.intent = None]
  BY DEF MutationRefused, Running
<1> QED
  BY <1>1, ForgottenWork, UnwoundWork, FreeWork

LEMMA RunDeferredMemoryWork ==
  ASSUME AInv, Penned, RunDeferredMemory
  PROVE  NotesKeep
<1> DEFINE refresh == Head(deferred.memory)
<1>1. PICK queue : Queue(mem, Intent(refresh.what, None), refresh.p, None, queue)
  BY DEF RunDeferredMemory
<1>2. Running /\ deferred.memory # <<>>
  BY DEF RunDeferredMemory
<1>3. refresh.what \in {"entries", "proposals"}
  BY <1>2, ThereIs, BacklogsAre DEF Waits
<1>4. Intent(refresh.what, None).what = refresh.what
  BY DEF Intent
<1> HIDE DEF refresh
<1>5. Intent(refresh.what, None).what # "mutation" /\ Intent(refresh.what, None).what # "resolution"
  BY <1>3, <1>4
<1> QED
  BY <1>1, <1>5, PennedIs, QueueWork

LEMMA NoteKeysWork ==
  ASSUME IInv, AInv, Penned, Running', NoteKeys \/ MemoryAnswers \/ RunDeferredMemory
  PROVE  NotesKeep
BY OpenMemoryWork, OpeningWork, LeaveLayerWork, PickingWork, OpenDraftWork, BackInEditorWork, WriteWork,
   SubmitTagsWork, RequestDeleteWork, RequestResolutionWork, ConfirmReviewWork, ExecuteWork,
   CancelReviewWork, ReadAnsweredWork, MutationAnsweredWork, MutationRefusedWork, RunDeferredMemoryWork
   DEF NoteKeys, MemoryAnswers

-----------------------------------------------------------------------------
(* Steps of the other screens *)

(* The view stays, or gives way where no work was begun. *)
Parks == mem' = mem \/ (mem' = BlankMemory /\ ~Protected(mem))
Passive(x, y) == y # None /\ y.kind = "memory" => y = x
Records ==
    {"notes", "sugs"} \subseteq DOMAIN store' /\ store'.notes = store.notes /\ store'.sugs = store.sugs
Elsewhere == Parks /\ Passive(pending, pending') /\ Records

LEMMA ElsewhereWork ==
  ASSUME Penned, Elsewhere
  PROVE  NotesKeep
<1>1. Recorded'
  BY DEF Elsewhere, Records, Penned, Recorded
<1>2. CASE mem' = mem
  <2>1. Ordered(pending', mem')
    BY <1>2 DEF Elsewhere, Passive, Penned, Ordered
  <2> QED
    BY <1>1, <1>2, <2>1 DEF Penned, NotesKeep, NotesKept
<1>3. CASE mem' = BlankMemory /\ ~Protected(mem)
  <2>1. Ordered(pending', mem')
    BY <1>3, BlankWork DEF Elsewhere, Passive, Penned, Ordered
  <2>2. mem.editor = None
    BY <1>3 DEF Protected
  <2> QED
    BY <1>1, <1>3, <2>1, <2>2, BlankWork DEF Penned, NotesKeep, NotesKept
<1> QED
  BY <1>2, <1>3 DEF Elsewhere, Parks

LEMMA ReachParks ==
  ASSUME NEW versions, NEW r, Reach(r, versions), mem' = MemoryAfter(r)
  PROVE  Parks
BY DEF Reach, Spares, SparesSelection, MemoryAfter, Parks

LEMMA SelectionParks ==
  ASSUME NEW q, mem' = IF MaySelect(q) /\ q # roster.sel THEN BlankMemory ELSE mem
  PROVE  Parks
BY DEF MaySelect, Parks

LEMMA PassiveAre ==
  ASSUME NEW x, NEW skills, Slot(x, skills)
  PROVE  /\ Passive(x, x) /\ Passive(x, None) /\ Passive(x, StaleTarget(x)) /\ Passive(x, Moved(x))
         /\ \A r : Passive(x, Retargeted(r, x)) /\ Passive(x, Retargeted(r, Moved(x)))
         /\ \A r, read : Passive(x, ReadRequest(r, read))
         /\ \A what, key, presents : Passive(x, Request(what, key, presents))
         /\ Passive(x, [kind |-> "shutdown"])
         /\ \A target : Passive(x, [kind |-> "preview", target |-> target])
<1>1. \A y : Slot(y, skills) => Passive(y, StaleTarget(y))
  BY DEF Slot, Passive, StaleTarget
<1>2. Passive(x, Moved(x))
  BY DEF Slot, Passive, Moved
<1>3. Passive(Moved(x), StaleTarget(Moved(x)))
  BY <1>1, ReadsAre
<1>4. Passive(x, StaleTarget(Moved(x)))
  BY <1>2, <1>3 DEF Passive
<1>5. \A r, read : Passive(x, ReadRequest(r, read))
  BY DEF Passive, ReadRequest
<1>6. \A what, key, presents : Passive(x, Request(what, key, presents))
  BY DEF Passive, Request
<1>7. Passive(x, x) /\ Passive(x, None) /\ Passive(x, [kind |-> "shutdown"])
      /\ \A target : Passive(x, [kind |-> "preview", target |-> target])
  BY DEF Passive
<1>8. Passive(x, StaleTarget(x))
  BY <1>1
<1> QED
  BY <1>2, <1>4, <1>5, <1>6, <1>7, <1>8 DEF Retargeted

LEMMA StillRecords ==
  ASSUME Penned, store' = store
  PROVE  Records
BY DEF Penned, Recorded, Records

LEMMA ReadPassive ==
  ASSUME NEW skills, Slot(pending, skills), NEW r, NEW read, NEW queue,
         Read(r, read, pending, queue) \/ Read(r, read, Retargeted(r, pending), queue)
  PROVE  Passive(pending, pending')
<1>1. pending' = pending \/ pending' = Retargeted(r, pending) \/ pending' = ReadRequest(r, read)
  BY DEF Read
<1> QED
  BY <1>1, PassiveAre

LEMMA AgentKeysWork ==
  ASSUME AInv, Penned, AgentKeys \/ RunDeferredProfile \/ ProfileAnswered
  PROVE  NotesKeep
<1>1. Running /\ store' = store
  BY KeyIsRunning DEF AgentKeys, RunDeferredProfile, ProfileAnswered, Pending, rosterVars,
     OpenAgent, AwaitDetail, Back, Tab, SelectAgent, OpenHistory, ShowPast, PickPast, OpenSkillPanel,
     AgentsKey, OnDetail
<1>2. Slot(pending, store.skills) /\ ReadOnly(deferred.profile)
  BY <1>1, ThereIs DEF Waits
<1>3. CASE AgentKeys
  <2>1. ASSUME NEW q, SelectAgent(q)
        PROVE  Elsewhere
    <3>1. Parks
      BY <2>1 DEF SelectAgent, MaySelect, Parks
    <3>2. PICK r : Read(r, "detail", Retargeted(r, pending), Retarget(r, deferred))
      BY <2>1 DEF SelectAgent
    <3>3. Passive(pending, pending')
      BY <1>2, <3>2, ReadPassive
    <3> QED
      BY <1>1, <3>1, <3>3, StillRecords DEF Elsewhere
  <2>2. ASSUME OpenAgent \/ AwaitDetail \/ Back \/ Tab \/ OpenHistory \/ ShowPast \/ OpenSkillPanel
        PROVE  Elsewhere
    <3>1. UNCHANGED pending \/ \E read : ReadNow(roster, read)
      BY <2>2 DEF OpenAgent, AwaitDetail, Back, Tab, OpenHistory, ShowPast, OpenSkillPanel, hostVars
    <3>2. mem' = mem
      BY <2>2 DEF OpenAgent, AwaitDetail, Back, Tab, OpenHistory, ShowPast, OpenSkillPanel, rosterVars
    <3>3. Passive(pending, pending')
      BY <1>2, <3>1, ReadPassive, PassiveAre DEF ReadNow
    <3> QED
      BY <1>1, <3>2, <3>3, StillRecords DEF Elsewhere, Parks
  <2>3. ASSUME NEW v, PickPast(v)
        PROVE  Elsewhere
    <3>1. pending' = StaleTarget(pending) /\ mem' = mem
      BY <2>3 DEF PickPast
    <3> QED
      BY <1>1, <1>2, <3>1, PassiveAre, StillRecords DEF Elsewhere, Parks
  <2> QED
    BY <1>3, <2>1, <2>2, <2>3, ElsewhereWork DEF AgentKeys
<1>4. CASE RunDeferredProfile
  <2>1. (pending' = deferred.profile \/ pending' = None) /\ mem' = mem
    BY <1>4 DEF RunDeferredProfile, rosterVars
  <2>2. Passive(pending, pending')
    BY <1>2, <2>1 DEF ReadOnly, Passive
  <2> QED
    BY <1>1, <2>1, <2>2, StillRecords, ElsewhereWork DEF Elsewhere, Parks
<1>5. CASE ProfileAnswered
  <2>1. Parks
    BY <1>5 DEF ProfileAnswered, Install, MayReplace, Rebound, Parks
  <2>2. Passive(pending, pending')
    BY <1>5 DEF ProfileAnswered, Passive
  <2> QED
    BY <1>1, <2>1, <2>2, StillRecords, ElsewhereWork DEF Elsewhere
<1> QED
  BY <1>3, <1>4, <1>5

LEMMA OutdatedParks ==
  ASSUME IInv, Running, NEW p \in Profiles, Outdated(p)
  PROVE  Parks
<1> DEFINE listed == Relisted(roster, store.version)
<1>1. PICK after : /\ after \in {roster, listed, Known(roster, p, store.version),
                                 Known(listed, p, store.version)}
                   /\ mem' = MemoryAfter(after)
  BY DEF Outdated
<1> HIDE DEF listed
<1>2. Reach(after, store.version)
  BY <1>1, NamedReach DEF listed
<1> QED
  BY <1>1, <1>2, ReachParks

LEMMA PreviewParks ==
  ASSUME IInv, Running, NEW e, Faithful(e), e.mode = "edit", Preview(e)
  PROVE  Parks
<1>1. CASE store.version[e.of] # e.expected
  BY <1>1, OutdatedParks DEF Preview, Faithful
<1>2. CASE store.version[e.of] = e.expected
  BY <1>2 DEF Preview, Parks
<1> QED
  BY <1>1, <1>2

LEMMA MadeParks ==
  ASSUME IInv, AInv, Running, Penned, NEW c, NEW p \in Profiles, Made(c, p)
  PROVE  Parks /\ Records
<1> DEFINE versions == [store.version EXCEPT ![p] = @ + 1]
           shown == Refreshed(p, versions)
<1>1. /\ "version" \in DOMAIN store /\ store.version \in Versions /\ Screen(roster, store.version)
      /\ mem.bound \in {None, Target(roster)}
  BY RunningIs DEF Screens
<1>2. versions \in Versions /\ Reach(shown, versions)
  BY <1>1, NextVersion, RefreshedReach
<1>3. store' = [store EXCEPT !.version[p] = @ + 1]
  BY DEF Made
<1>4. Records
  BY <1>3 DEF Penned, Recorded, Records
<1>5. mem' = MemoryAfter(shown) \/ mem' = mem
  BY DEF Made
<1> HIDE DEF shown, versions
<1>6. Parks
  BY <1>2, <1>5, ReachParks DEF Parks
<1> QED
  BY <1>4, <1>6

LEMMA DeskKeysElsewhere ==
  ASSUME IInv, AInv, Penned, DeskForms \/ DeskTyping
  PROVE  NotesKeep
<1>1. Running
  BY KeyIsRunning DEF DeskForms, DeskTyping, ResumeDraft, EditAgent, LeavePage, OpenDiscard, Discard,
     OpenReview, AskAgain, Propose, DeclineCommand, ConfirmCommand, NewAgent, ChooseTemplate,
     EditNamedAgent, OpenField, ChooseRole, TypeField, OnPage, InForm, Asked, OnAgent, OnList, OnDetail,
     AgentsKey
<1>2. Slot(pending, store.skills)
  BY <1>1, ThereIs
<1>3. ASSUME UNCHANGED <<store, pending>>, Parks
      PROVE  NotesKeep
  BY <1>2, <1>3, PassiveAre, StillRecords, ElsewhereWork DEF Elsewhere
<1>4. CASE ResumeDraft \/ LeavePage \/ OpenDiscard \/ Propose \/ DeclineCommand \/ ChooseTemplate \/ Discard
           \/ NewAgent
  BY <1>3, <1>4 DEF ResumeDraft, LeavePage, OpenDiscard, Propose, DeclineCommand, ChooseTemplate, Discard,
     NewAgent, ChangeForm, hostVars, rosterVars, Parks
<1>5. ASSUME NEW x, NEW y, OpenField(x) \/ ChooseRole(x) \/ TypeField(x, y)
      PROVE  NotesKeep
  BY <1>3, <1>5 DEF OpenField, ChooseRole, TypeField, ChangeForm, hostVars, rosterVars, Parks
<1>6. ASSUME NEW p \in Profiles, EditNamedAgent(p)
      PROVE  NotesKeep
  <2> DEFINE known == Known(roster, p, store.version)
  <2>1. Reach(known, store.version)
    BY <1>1, NamedReach
  <2>2. (mem' = MemoryAfter(known) \/ mem' = mem) /\ UNCHANGED <<store, pending>>
    BY <1>6 DEF EditNamedAgent
  <2> HIDE DEF known
  <2>3. Parks
    BY <2>1, <2>2, ReachParks DEF Parks
  <2> QED
    BY <1>3, <2>2, <2>3
<1>7. CASE EditAgent
  <2>1. mem' = mem /\ store' = store /\ (pending' = pending \/ ReadNow(roster, "detail"))
    BY <1>7 DEF EditAgent
  <2>2. Passive(pending, pending')
    BY <1>2, <2>1, ReadPassive, PassiveAre DEF ReadNow
  <2> QED
    BY <2>1, <2>2, StillRecords, ElsewhereWork DEF Elsewhere, Parks
<1>8. CASE OpenReview \/ AskAgain
  <2>1. InForm /\ Faithful(desk.editor)
    BY <1>8, OnPageIs, InFormIs DEF OpenReview, AskAgain
  <2> DEFINE e == E!SelectReview(desk.editor)
  <2>2. Faithful(e)
    BY <2>1, SelectReviewKeeps DEF Keeps
  <2>3. \/ E!AsksForPreview(e) /\ Preview(e)
        \/ E!AsksForPreview(desk.editor) /\ Preview(desk.editor)
        \/ ChangeForm(e, "review")
    BY <1>8 DEF OpenReview, AskAgain
  <2>4. /\ E!AsksForPreview(e) => e.mode = "edit"
        /\ E!AsksForPreview(desk.editor) => desk.editor.mode = "edit"
    BY DEF E!AsksForPreview
  <2> HIDE DEF e
  <2>5. CASE ChangeForm(e, "review")
    BY <1>3, <2>5 DEF ChangeForm, hostVars, rosterVars, Parks
  <2>6. ASSUME NEW form, Faithful(form), form.mode = "edit", Preview(form)
        PROVE  NotesKeep
    BY <1>1, <1>3, <2>6, PreviewParks DEF Preview
  <2> QED
    BY <2>1, <2>2, <2>3, <2>4, <2>5, <2>6
<1>9. CASE ConfirmCommand
  <2>1. /\ desk.confirmation.mode = desk.editor.mode
        /\ desk.editor.mode = "edit" => desk.confirmation.of \in Profiles
        /\ pending' = pending
    BY <1>9, AskedIs DEF ConfirmCommand
  <2>2. ASSUME NEW p \in Profiles, Made(desk.confirmation, p)
        PROVE  NotesKeep
    BY <1>1, <1>2, <2>1, <2>2, MadeParks, PassiveAre, ElsewhereWork DEF Elsewhere
  <2>3. CASE desk.confirmation.mode = "edit" /\ Outdated(desk.confirmation.of) /\ UNCHANGED store
    BY <1>1, <1>3, <2>1, <2>3, OutdatedParks
  <2>4. CASE UNCHANGED <<store, mem>>
    BY <1>3, <2>1, <2>4 DEF Parks
  <2> QED
    BY <1>9, <2>1, <2>2, <2>3, <2>4 DEF ConfirmCommand
<1> QED
  BY <1>4, <1>5, <1>6, <1>7, <1>8, <1>9 DEF DeskForms, DeskTyping

-----------------------------------------------------------------------------
(* The notes, while the skills and their assignment are worked on *)

LEMMA RecoverParks ==
  ASSUME Penned, NEW k, Recover(k)
  PROVE  Parks /\ Records
BY SelectionParks, StillRecords DEF Recover, Return, AgentTab, Parks

LEMMA RequestParks ==
  ASSUME Penned, NEW k, NEW r, RequestAssignment(k, r)
  PROVE  Parks /\ Records /\ pending' = pending
BY RecoverParks, StillRecords DEF RequestAssignment, Parks

LEMMA SkillKeysElsewhere ==
  ASSUME IInv, AInv, Penned, SkillKeys
  PROVE  NotesKeep
<1>1. ASSUME Running, pending' = pending, Parks, Records
      PROVE  NotesKeep
  <2>1. Passive(pending, pending')
    BY <1>1, ThereIs, PassiveAre
  <2> QED
    BY <1>1, <2>1, ElsewhereWork DEF Elsewhere
<1>2. ASSUME Running, UNCHANGED <<pending, mem, store>>
      PROVE  NotesKeep
  BY <1>1, <1>2, StillRecords DEF Parks
<1>3. ASSUME NEW k, Shelve(k)
      PROVE  UNCHANGED <<pending, mem, store>>
  BY <1>3 DEF Shelve, rosterVars
<1>4. CASE OpenSkill \/ TabOnShelf \/ OpenSkillHistory \/ OpenSkillVersion \/ ResumeSkillDraft \/ OpenSources
           \/ StartSkill \/ StartVersion \/ OpenSkillDiscard \/ WriteSkillNote \/ RemoveSkillNote
  <2>1. \E k : Shelve(k)
    BY <1>4 DEF OpenSkill, TabOnShelf, OpenSkillHistory, OpenSkillVersion, ResumeSkillDraft, OpenSources,
       StartSkill, StartVersion, OpenSkillDiscard, WriteSkillNote, RemoveSkillNote, Fetched, ShelveForm
  <2>2. Running
    BY <1>4, ShelfKeyIs DEF OpenSkill, TabOnShelf, OpenSkillHistory, OpenSkillVersion, ResumeSkillDraft,
       OpenSources, StartSkill, StartVersion, OpenSkillDiscard, WriteSkillNote, RemoveSkillNote
  <2> QED
    BY <1>2, <1>3, <2>1, <2>2
<1>5. ASSUME NEW x, \/ PickSkillVersion(x) \/ OpenSkillField(x) \/ TypeSkill(x) \/ OpenSkillNote(x)
                    \/ PutSkillNote(x) \/ AssignTo(x)
      PROVE  NotesKeep
  <2>1. \E k : Shelve(k)
    BY <1>5 DEF PickSkillVersion, OpenSkillField, TypeSkill, OpenSkillNote, PutSkillNote, AssignTo, Fetched,
       ShelveForm
  <2>2. Running
    BY <1>5, ShelfKeyIs DEF PickSkillVersion, OpenSkillField, TypeSkill, OpenSkillNote, PutSkillNote, AssignTo
  <2> QED
    BY <1>2, <1>3, <2>1, <2>2
<1>6. ASSUME NEW x, PickSkill(x) \/ PickSource(x) \/ ViewAssigned(x) \/ CloseSkillPanel
      PROVE  NotesKeep
  BY <1>2, <1>6, ShelfKeyIs, KeyIsRunning DEF PickSkill, PickSource, ViewAssigned, CloseSkillPanel,
     OnAgentSkills, AgentsKey, rosterVars, hostVars
<1>7. CASE UnwindShelf
  <2> DEFINE leaves == ShelfInteraction = "List" \/ (ShelfInteraction = "Detail" /\ shelf.origin \in Profiles)
  <2>1. Running /\ store' = store /\ pending' = Retargeted(roster', IF leaves THEN Moved(pending) ELSE pending)
    BY <1>7, ShelfKeyIs DEF UnwindShelf
  <2>2. Parks
    BY <1>7, SelectionParks DEF UnwindShelf, Parks
  <2>3. Passive(pending, pending')
    BY <2>1, ThereIs, PassiveAre
  <2> QED
    BY <2>1, <2>2, <2>3, StillRecords, ElsewhereWork DEF Elsewhere
<1>8. CASE LeaveSkillPage
  BY <1>2, <1>3, <1>8, ShelfKeyIs DEF LeaveSkillPage, rosterVars
<1>9. CASE DiscardSkill
  BY <1>2, <1>9, ShelfKeyIs DEF DiscardSkill, rosterVars
<1>10. CASE ReviewSkill
  <2>1. Running
    BY <1>10, ShelfKeyIs DEF ReviewSkill
  <2>2. \/ \E k : Shelve(k)
        \/ UNCHANGED <<pending, mem, store>>
        \/ pending' = pending /\ \E k : Recover(k)
    BY <1>10 DEF ReviewSkill
  <2> QED
    BY <1>1, <1>2, <1>3, <2>1, <2>2, RecoverParks
<1>11. CASE ReviewAssignment \/ \E row, kind : ChangeAssigned(row, kind)
  <2>1. Running /\ \E k, r : RequestAssignment(k, r)
    BY <1>11, ShelfKeyIs, KeyIsRunning DEF ReviewAssignment, ChangeAssigned, OnAgentSkills, AgentsKey
  <2> QED
    BY <1>1, <2>1, RequestParks
<1>12. CASE DeclineSkill
  <2>1. Running /\ UNCHANGED <<pending, store>> /\ (Return(shelf) \/ mem' = mem)
    BY <1>12, ShelfKeyIs DEF DeclineSkill
  <2>2. Parks
    BY <2>1, SelectionParks DEF Return, AgentTab, Parks
  <2> QED
    BY <1>1, <2>1, <2>2, StillRecords
<1>13. CASE ConfirmSkill
  <2> DEFINE c == shelf.confirmation.command
  <2>1. /\ SkillAsked /\ Running /\ pending' = pending
        /\ shelf.confirmation # None /\ Shelved(shelf)
    BY <1>13, SkillAskedIs DEF ConfirmSkill
  <2>2. CASE Recover(shelf)
    BY <1>1, <2>1, <2>2, RecoverParks
  <2>3. CASE UNCHANGED <<mem, store>>
    BY <1>2, <2>1, <2>3
  <2>4. ASSUME NEW s, store' = [store EXCEPT !.skills[s] = @ + 1], mem' = mem
        PROVE  NotesKeep
    <3>1. Parks /\ Records
      BY <2>4 DEF Penned, Recorded, Records, Parks
    <3> QED
      BY <1>1, <2>1, <3>1
  <2>5. CASE c.op = "assign" /\ AssignmentDone(c)
    <3> DEFINE p == c.request.p
               versions == [store.version EXCEPT ![p] = @ + 1]
               listed == Relisted(roster, versions)
               known == Known(listed, p, versions)
    <3>1. p \in Profiles
      BY <2>1, <2>5 DEF Shelved, ShelfSound
    <3>2. PICK s, v : store' = [store EXCEPT !.version = versions, !.uses[p][s] = v]
      BY <2>5 DEF AssignmentDone
    <3>3. mem' = MemoryAfter(known)
      BY <2>5 DEF AssignmentDone
    <3> HIDE DEF p
    <3>4. versions \in Versions /\ \A q \in Profiles : store.version[q] <= versions[q]
      BY <2>1, <3>1, NextVersion, RunningIs DEF Screens
    <3> HIDE DEF versions
    <3>5. Reach(listed, versions) /\ listed.sel = roster.sel
      BY <2>1, <3>4, RelistedReach, RunningIs DEF Screens
    <3> HIDE DEF listed
    <3>6. Reach(known, versions)
      BY <2>1, <3>1, <3>4, <3>5, KnownReach, RunningIs DEF Screens
    <3> HIDE DEF known
    <3>7. Parks
      BY <3>3, <3>6, ReachParks
    <3>8. Records
      BY <3>2 DEF Penned, Recorded, Records
    <3> QED
      BY <1>1, <2>1, <3>7, <3>8
  <2> HIDE DEF c
  <2> QED
    BY <1>13, <2>2, <2>3, <2>4, <2>5 DEF ConfirmSkill, c
<1> QED
  BY <1>4, <1>5, <1>6, <1>7, <1>8, <1>9, <1>10, <1>11, <1>12, <1>13
     DEF SkillKeys, ShelfBrowsing, ShelfVersions, ShelfForms, NoteForms, ShelfAssignments, ShelfConfirmations

-----------------------------------------------------------------------------
(* The notes, while the tabs and the command line are used *)

LEMMA RefreshParks ==
  ASSUME IInv, Running, NEW nav, NEW k, NEW r, SameScreen(roster, r), r.pane = roster.pane, NEW queue,
         Refresh(nav, k, r, queue)
  PROVE  Parks
<1> DEFINE listed == IF nav = "profiles" THEN Relisted(r, store.version) ELSE r
<1>1. /\ store.version \in Versions /\ Screen(roster, store.version)
      /\ mem.bound \in {None, Target(roster)}
  BY RunningIs DEF Screens
<1>2. Reach(listed, store.version)
  <2>1. CASE nav = "profiles"
    <3>1. \A p \in Profiles : store.version[p] <= store.version[p]
      BY <1>1 DEF Versions
    <3>2. Reach(Relisted(roster, store.version), store.version)
      BY <1>1, <3>1, RelistedReach
    <3>3. /\ SameScreen(Relisted(roster, store.version), Relisted(r, store.version))
          /\ Relisted(r, store.version).pane = Relisted(roster, store.version).pane
      BY <1>1, RelistedSame DEF Screen
    <3> QED
      BY <2>1, <3>2, <3>3, ReachSame
  <2>2. CASE nav # "profiles"
    BY <1>1, <2>2, StaysInReach, ReachSame
  <2> QED
    BY <2>1, <2>2
<1>3. mem' = MemoryAfter(listed)
  BY DEF Refresh
<1> HIDE DEF listed
<1> QED
  BY <1>2, <1>3, ReachParks

LEMMA TabsElsewhere ==
  ASSUME IInv, AInv, Penned, \/ RunDeferredRefresh \/ CockpitKeys \/ CockpitLine \/ CockpitWorkflows
                             \/ PreviewAnswered \/ StartPreview
  PROVE  NotesKeep
<1>1. ASSUME store' = store, Parks, Passive(pending, pending')
      PROVE  NotesKeep
  BY <1>1, StillRecords, ElsewhereWork DEF Elsewhere
<1>2. Running => Passive(pending, pending) /\ Passive(pending, Moved(pending)) /\ Passive(pending, None)
                 /\ \A what, key, presents : Passive(pending, Request(what, key, presents))
  BY ThereIs, PassiveAre
<1>3. CASE RunDeferredRefresh
  BY <1>1, <1>2, <1>3, MovesAreQuiet, RefreshParks DEF RunDeferredRefresh
<1>4. ASSUME NEW tab, SwitchTab(tab)
      PROVE  NotesKeep
  <2> DEFINE r == [roster EXCEPT !.tab = tab]
  <2>1. Running /\ pending' = Moved(pending) /\ store' = store
    BY <1>4, KeyIsRunning DEF SwitchTab
  <2>2. (\E nav, k : Refresh(nav, k, r, deferred)) \/ mem' = mem
    BY <1>4 DEF SwitchTab
  <2>3. SameScreen(roster, r) /\ r.pane = roster.pane
    BY <2>1, MovesAreQuiet
  <2> HIDE DEF r
  <2>4. Parks
    BY <2>1, <2>2, <2>3, RefreshParks DEF Parks
  <2> QED
    BY <1>1, <1>2, <2>1, <2>4
<1>5. CASE ReloadLibrary
  <2>1. Running /\ pending' = pending /\ store' = store
    BY <1>5, KeyIsRunning DEF ReloadLibrary, AgentsKey
  <2>2. Refresh("library", shelf, roster, deferred) \/ mem' = mem
    BY <1>5 DEF ReloadLibrary
  <2>3. Parks
    BY <2>1, <2>2, MovesAreQuiet, RefreshParks DEF Parks
  <2> QED
    BY <1>1, <1>2, <2>1, <2>3
<1>6. CASE ShowMade \/ CockpitLine
  <2>1. Running /\ UNCHANGED <<mem, store>>
    BY <1>6, ShelfKeyIs, KeyIsRunning DEF ShowMade, CockpitLine, TypeCommand, Line, rosterVars
  <2>2. \E what, key : pending' = Request(what, key, TRUE)
    BY <1>6 DEF ShowMade, CockpitLine, TypeCommand
  <2> QED
    BY <1>1, <1>2, <2>1, <2>2 DEF Parks
<1>7. CASE CockpitWorkflows
  <2>1. Running /\ \E k : GoToShelf(k)
    BY <1>7, KeyIsRunning DEF CockpitWorkflows, TypeAdd, TypeAssign, TypeUnassign, Workflow, Line
  <2>2. UNCHANGED <<pending, mem, store>>
    BY <2>1 DEF GoToShelf
  <2> QED
    BY <1>1, <1>2, <2>1, <2>2 DEF Parks
<1>8. CASE PreviewAnswered \/ StartPreview
  <2>1. UNCHANGED <<mem, store>>
    BY <1>8 DEF PreviewAnswered, StartPreview, rosterVars
  <2>2. Running /\ (pending' = None \/ pending' = pending \/ \E t : pending' = [kind |-> "preview", target |-> t])
    BY <1>8, KeyIsRunning DEF PreviewAnswered, StartPreview, Pending
  <2>3. Passive(pending, pending')
    BY <1>2, <2>2 DEF Passive
  <2> QED
    BY <1>1, <2>1, <2>3 DEF Parks
<1> QED
  BY <1>3, <1>4, <1>5, <1>6, <1>7, <1>8 DEF CockpitKeys

LEMMA CommandElsewhere ==
  ASSUME IInv, AInv, Penned, CommandAnswered
  PROVE  NotesKeep
<1>1. Running /\ store' = store /\ pending.what \in {"agents", "agent", "skills", "skill"}
      /\ (pending.what = "agent" => pending.key \in Profiles)
  BY PendingIs, RunningIs DEF CommandAnswered, Screens, Timely
<1>2. Passive(pending, pending')
  <2>1. pending' = None \/ \E what, key, presents : pending' = Request(what, key, presents)
    BY <1>1 DEF CommandAnswered, ShowAgents, ShowAgent, ShowSkills, ShowSkill
  <2> QED
    BY <1>1, <2>1, ThereIs, PassiveAre
<1>3. Parks
  <2>1. CASE pending.what = "agents"
    <3> DEFINE listed == Relisted(roster, store.version)
    <3>1. mem' = MemoryAfter(listed)
      BY <2>1 DEF CommandAnswered, ShowAgents
    <3>2. /\ store.version \in Versions /\ Screen(roster, store.version)
          /\ mem.bound \in {None, Target(roster)}
      BY <1>1, RunningIs DEF Screens
    <3>3. \A p \in Profiles : store.version[p] <= store.version[p]
      BY <3>2 DEF Versions
    <3>4. Reach(listed, store.version)
      BY <3>2, <3>3, RelistedReach
    <3> HIDE DEF listed
    <3> QED
      BY <3>1, <3>4, ReachParks
  <2>2. CASE pending.what = "agent"
    <3> DEFINE known == Known(roster, pending.key, store.version)
    <3>1. mem' = MemoryAfter(known) \/ mem' = mem
      BY <2>2 DEF CommandAnswered, ShowAgent
    <3>2. Reach(known, store.version)
      BY <1>1, <2>2, NamedReach
    <3> HIDE DEF known
    <3> QED
      BY <3>1, <3>2, ReachParks DEF Parks
  <2>3. CASE pending.what \in {"skills", "skill"}
    BY <2>3 DEF CommandAnswered, ShowSkills, ShowSkill, Parks
  <2> QED
    BY <1>1, <2>1, <2>2, <2>3
<1> QED
  BY <1>1, <1>2, <1>3, StillRecords, ElsewhereWork DEF Elsewhere

LEMMA QuitElsewhere ==
  ASSUME AInv, Running, Penned, Quit \/ SubmitQueuedShutdown, UNCHANGED rosterVars
  PROVE  NotesKeep
<1>1. pending' = pending \/ pending' = [kind |-> "shutdown"]
  BY DEF Quit, SubmitQueuedShutdown
<1>2. Passive(pending, pending')
  BY <1>1, ThereIs, PassiveAre
<1> QED
  BY <1>2, StillRecords, ElsewhereWork DEF Elsewhere, Parks, rosterVars

-----------------------------------------------------------------------------
(* All begun work *)

WInv == Running => DeskWork /\ ShelfWork(shelf) /\ Penned

WorkKeeps == DeskKeeps /\ ShelfKeeps /\ NotesKeep

(* The form of an agent is not touched from the other screens. *)
LEMMA SkillKeysSpareDesk ==
  ASSUME SkillKeys \/ TabKeys
  PROVE  Running /\ desk' = desk
<1>1. ASSUME NEW k, Shelve(k)
      PROVE  desk' = desk
  BY <1>1 DEF Shelve, deskVars
<1>2. CASE OpenSkill \/ TabOnShelf \/ OpenSkillHistory \/ OpenSkillVersion \/ ResumeSkillDraft \/ OpenSources
           \/ StartSkill \/ StartVersion \/ OpenSkillDiscard \/ WriteSkillNote \/ RemoveSkillNote
  <2>1. \E k : Shelve(k)
    BY <1>2 DEF OpenSkill, TabOnShelf, OpenSkillHistory, OpenSkillVersion, ResumeSkillDraft, OpenSources,
       StartSkill, StartVersion, OpenSkillDiscard, WriteSkillNote, RemoveSkillNote, Fetched, ShelveForm
  <2>2. Running
    BY <1>2, ShelfKeyIs DEF OpenSkill, TabOnShelf, OpenSkillHistory, OpenSkillVersion, ResumeSkillDraft,
       OpenSources, StartSkill, StartVersion, OpenSkillDiscard, WriteSkillNote, RemoveSkillNote
  <2> QED
    BY <1>1, <2>1, <2>2
<1>3. ASSUME NEW x, \/ PickSkillVersion(x) \/ OpenSkillField(x) \/ TypeSkill(x) \/ OpenSkillNote(x)
                    \/ PutSkillNote(x) \/ AssignTo(x)
      PROVE  Running /\ desk' = desk
  <2>1. \E k : Shelve(k)
    BY <1>3 DEF PickSkillVersion, OpenSkillField, TypeSkill, OpenSkillNote, PutSkillNote, AssignTo, Fetched,
       ShelveForm
  <2>2. Running
    BY <1>3, ShelfKeyIs DEF PickSkillVersion, OpenSkillField, TypeSkill, OpenSkillNote, PutSkillNote, AssignTo
  <2> QED
    BY <1>1, <2>1, <2>2
<1>4. ASSUME NEW x, PickSkill(x) \/ PickSource(x) \/ ViewAssigned(x) \/ CloseSkillPanel
      PROVE  Running /\ desk' = desk
  BY <1>4, ShelfKeyIs, KeyIsRunning DEF PickSkill, PickSource, ViewAssigned, CloseSkillPanel,
     OnAgentSkills, AgentsKey, deskVars
<1>5. CASE UnwindShelf \/ DiscardSkill \/ DeclineSkill \/ ConfirmSkill
  BY <1>5, ShelfKeyIs DEF UnwindShelf, DiscardSkill, DeclineSkill, ConfirmSkill, deskVars
<1>6. CASE LeaveSkillPage \/ ReviewSkill
  <2>1. Running
    BY <1>6, ShelfKeyIs DEF LeaveSkillPage, ReviewSkill
  <2>2. (\E k : Shelve(k)) \/ UNCHANGED deskVars
    BY <1>6 DEF LeaveSkillPage, ReviewSkill
  <2> QED
    BY <1>1, <2>1, <2>2 DEF deskVars
<1>7. CASE ReviewAssignment \/ \E row, kind : ChangeAssigned(row, kind)
  <2>1. Running /\ \E k, r : RequestAssignment(k, r)
    BY <1>7, ShelfKeyIs, KeyIsRunning DEF ReviewAssignment, ChangeAssigned, OnAgentSkills, AgentsKey
  <2> QED
    BY <2>1 DEF RequestAssignment, deskVars
<1>8. CASE CockpitKeys
  BY <1>8, ShelfKeyIs, KeyIsRunning DEF CockpitKeys, SwitchTab, ReloadLibrary, ShowMade, AgentsKey, deskVars
<1>9. CASE CockpitLine
  BY <1>9, KeyIsRunning DEF CockpitLine, TypeCommand, Line, deskVars
<1>10. CASE CockpitWorkflows
  <2>1. Running /\ \E k : GoToShelf(k)
    BY <1>10, KeyIsRunning DEF CockpitWorkflows, TypeAdd, TypeAssign, TypeUnassign, Workflow, Line
  <2> QED
    BY <2>1 DEF GoToShelf, deskVars
<1> QED
  BY <1>2, <1>3, <1>4, <1>5, <1>6, <1>7, <1>8, <1>9, <1>10
     DEF SkillKeys, TabKeys, ShelfBrowsing, ShelfVersions, ShelfForms, NoteForms, ShelfAssignments,
         ShelfConfirmations

LEMMA AgentsAreRunning ==
  ASSUME \/ AgentKeys \/ NoteKeys \/ DeskForms \/ DeskTyping
         \/ MemoryAnswers \/ ProfileAnswered \/ RunDeferredMemory \/ RunDeferredProfile
  PROVE  Running
<1>1. CASE AgentKeys \/ RunDeferredProfile \/ ProfileAnswered
  BY <1>1, KeyIsRunning DEF AgentKeys, RunDeferredProfile, ProfileAnswered, Pending,
     OpenAgent, AwaitDetail, Back, Tab, SelectAgent, OpenHistory, ShowPast, PickPast, OpenSkillPanel,
     AgentsKey, OnDetail
<1>2. CASE NoteKeys \/ MemoryAnswers \/ RunDeferredMemory
  BY <1>2, KeyIsRunning DEF NoteKeys, OpenMemory, OpenNote, LeaveLayer, PickNote, OpenCreate, OpenEdit,
     BackInEditor, SubmitTags, NameDraft, WriteDraft, RequestDelete, ConfirmReview, LeaveConfirmation,
     Execute, CancelReview, OpenNoteHistory, OpenVersion, PickVersion, OpenProposals, OpenSuggestion,
     RequestResolution, PickSuggestion, ChooseResolution, OpenEpisodes, OpenEpisode, PickEpisode,
     OnDetail, AgentsKey, OnLayer, EnterOn, Leaving, EditorKey, Editing, MemoryAnswers, ReadAnswered,
     MutationAnswered, MutationRefused, Pending, RunDeferredMemory
<1>3. CASE DeskForms \/ DeskTyping
  BY <1>3, KeyIsRunning DEF DeskForms, DeskTyping, ResumeDraft, EditAgent, LeavePage, OpenDiscard, Discard,
     OpenReview, AskAgain, Propose, DeclineCommand, ConfirmCommand, NewAgent, ChooseTemplate,
     EditNamedAgent, OpenField, ChooseRole, TypeField, OnPage, InForm, Asked, OnAgent, OnList, OnDetail,
     AgentsKey
<1> QED
  BY <1>1, <1>2, <1>3

(* One step of the terminal, and the work that was begun *)
LEMMA StepWork ==
  ASSUME IInv, AInv, WInv, [Next]_vars, Running'
  PROVE  WorkKeeps
<1>1. Running => DeskWork /\ ShelfWork(shelf) /\ Penned
  BY DEF WInv
<1>2. ASSUME Running, desk' = desk
      PROVE  DeskKeeps
  BY <1>1, <1>2, DeskUnmoved
<1>3. ASSUME Running, shelf' = shelf
      PROVE  ShelfKeeps
  BY <1>1, <1>3, ShelfUnmoved
<1>4. CASE (AgentKeys \/ RunDeferredProfile \/ ProfileAnswered) /\ UNCHANGED <<desk, shelf>>
  BY <1>1, <1>2, <1>3, <1>4, AgentsAreRunning, AgentKeysWork DEF WorkKeeps
<1>5. CASE (NoteKeys \/ MemoryAnswers \/ RunDeferredMemory) /\ UNCHANGED <<desk, shelf>>
  BY <1>1, <1>2, <1>3, <1>5, AgentsAreRunning, NoteKeysWork DEF WorkKeeps
<1>6. CASE (DeskForms \/ DeskTyping) /\ UNCHANGED shelf
  BY <1>1, <1>3, <1>6, AgentsAreRunning, DeskKeysWork, DeskKeysElsewhere DEF WorkKeeps
<1>7. CASE SkillKeys
  BY <1>1, <1>2, <1>7, SkillKeysSpareDesk, SkillKeysWork, SkillKeysElsewhere DEF WorkKeeps
<1>8. CASE TabKeys
  <2>1. Running /\ DeskKeeps
    BY <1>2, <1>8, SkillKeysSpareDesk
  <2>2. CockpitKeys \/ CockpitLine \/ CockpitWorkflows
    BY <1>8 DEF TabKeys
  <2> QED
    BY <1>1, <2>1, <2>2, RefreshesWork, TypedWork, TabsElsewhere DEF WorkKeeps
<1>9. CASE (Quit \/ SubmitQueuedShutdown) /\ UNCHANGED <<rosterVars, deskVars, shelf>>
  <2>1. Running /\ desk' = desk
    BY <1>9, KeyIsRunning DEF Quit, SubmitQueuedShutdown, deskVars
  <2> QED
    BY <1>1, <1>2, <1>3, <1>9, <2>1, QuitElsewhere DEF WorkKeeps
<1>10. CASE RunDeferredRefresh \/ StartPreview \/ PreviewAnswered
  <2>1. Running /\ desk' = desk
    BY <1>10, KeyIsRunning DEF RunDeferredRefresh, StartPreview, PreviewAnswered, Pending, deskVars
  <2> QED
    BY <1>1, <1>2, <1>10, <2>1, RefreshesWork, TabsElsewhere DEF WorkKeeps
<1>11. CASE CommandAnswered
  <2>1. Running /\ desk' = desk
    BY <1>11 DEF CommandAnswered, Pending, deskVars
  <2> QED
    BY <1>1, <1>2, <1>11, <2>1, CommandWork, CommandElsewhere DEF WorkKeeps
<1>12. CASE ShutdownAnswered \/ Exits \/ Teardown
  BY <1>12 DEF ShutdownAnswered, Exits, Interrupt, LoopFails, Close, Teardown, TearDown, Running
<1>13. CASE UNCHANGED <<hostVars, rosterVars, deskVars, shelfVars>>
  <2>1. UNCHANGED <<pending, ended, mem, store, desk, shelf>>
    BY <1>13 DEF hostVars, rosterVars, deskVars, shelfVars
  <2>2. Running
    BY <2>1 DEF Running
  <2>3. NotesKeep
    BY <1>1, <2>1, <2>2, StillRecords, ElsewhereWork DEF Elsewhere, Parks, Passive
  <2> QED
    BY <1>2, <1>3, <2>1, <2>2, <2>3 DEF WorkKeeps
<1>14. CASE Keys
  BY <1>4, <1>5, <1>6, <1>7, <1>8, <1>9, <1>14 DEF Keys
<1>15. CASE Answers
  BY <1>4, <1>5, <1>10, <1>11, <1>12, <1>15 DEF Answers
<1>16. CASE Catching
  BY <1>4, <1>5, <1>9, <1>10, <1>16 DEF Catching
<1> QED
  BY <1>12, <1>13, <1>14, <1>15, <1>16 DEF Next, Done, vars

LEMMA InitWork == Init => WInv
<1> SUFFICES ASSUME Init PROVE WInv
  OBVIOUS
<1>1. DeskWork
  BY DEF Init, DeskInit, DeskWork
<1>2. ShelfWork(shelf)
  BY DEF Init, BlankShelf, ShelfWork
<1>3. store = InitStore /\ mem = BlankMemory /\ pending = None
  BY DEF Init, HostInit
<1>4. Recorded
  <2>1. /\ {"notes", "sugs"} \subseteq DOMAIN InitStore
        /\ InitStore.notes = [p \in Profiles |-> [n \in Notes |->
                                 IF p = FirstAgent THEN [v |-> 1, live |-> TRUE] ELSE [v |-> 0, live |-> FALSE]]]
        /\ InitStore.sugs = [s \in Suggestions |->
                                [p |-> FirstAgent, n |-> CHOOSE n \in Notes : TRUE, status |-> "pending"]]
    BY DEF InitStore
  <2>2. InitStore.notes \in [Profiles -> [Notes -> [v : Nat, live : BOOLEAN]]]
    BY <2>1
  <2>3. \A s \in Suggestions : (CHOOSE n \in Notes : TRUE) \in Notes
    BY SuggestionAssumption
  <2>4. InitStore.sugs \in [Suggestions ->
           [p : Profiles, n : Notes, status : {"pending", "accepted", "rejected", "expired"}]]
    BY <2>1, <2>3, FirstAgentAssumption
  <2> QED
    BY <1>3, <2>1, <2>2, <2>4 DEF Recorded
<1>5. Penned
  BY <1>3, <1>4, BlankWork DEF Penned, Ordered
<1> QED
  BY <1>1, <1>2, <1>5 DEF WInv

(* Begun work outlives everything but the operator's own discard, its         *)
(* success, for the draft of an agent a newer version of that agent, and for   *)
(* the draft of a note that it says what the note says: no answer, refresh,    *)
(* error, change of tab or typed command takes a draft away or puts another in  *)
(* its place (the workflow guards of src/ui/tui/model.rs and                   *)
(* src/ui/tui/controller.rs, the answers and refreshes of src/ui/tui/host.rs). *)
THEOREM WorkIsNeverLost == Spec => WorkIsKept
<1>1. IInv /\ AInv /\ WInv /\ [Next]_vars => WInv'
  <2> SUFFICES ASSUME IInv, AInv, WInv, [Next]_vars, Running'
               PROVE  (DeskWork /\ ShelfWork(shelf) /\ Penned)'
    BY DEF WInv
  <2> QED
    BY StepWork DEF WorkKeeps, DeskKeeps, ShelfKeeps, NotesKeep
<1>2. IInv /\ AInv /\ WInv /\ [Next]_vars =>
        [Running' =>
          /\ desk.editor # None /\ ~Same(desk.editor, desk'.editor) =>
                 \/ desk.page = "discard"
                 \/ store' # store
                 \/ desk.editor.mode = "edit" /\ store.version[desk.editor.of] # desk.editor.expected
          /\ shelf.editor # None /\ ~Same(shelf.editor, shelf'.editor) =>
                 shelf.page = "discard" \/ store' # store
          /\ mem.editor # None /\ mem'.editor = None =>
                 \/ LeavesEditor(mem.editor)
                 \/ store'.notes # store.notes
                 \/ mem.editor.seed # None /\ mem.editor.same]_vars
  <2> SUFFICES ASSUME IInv, AInv, WInv, [Next]_vars, Running'
               PROVE  DeskKept /\ ShelfKept /\ NotesKept
    BY DEF DeskKept, ShelfKept, NotesKept
  <2> QED
    BY StepWork DEF WorkKeeps, DeskKeeps, ShelfKeeps, NotesKeep
<1> QED
  BY <1>1, <1>2, InitInv, StepInv, InitTells, StepTells, InitWork, PTL DEF Spec, WorkIsKept
=============================================================================
