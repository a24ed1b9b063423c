---------------------------- MODULE MemoryProofs ----------------------------
(***************************************************************************)
(* What holds of the memory for any namespaces, keys and values, any       *)
(* number of events and any damage to the tables.                          *)
(*                                                                         *)
(* The argument is that a command can read from damaged tables what it     *)
(* likes: the reducer lets an event through only if it fits the stream,    *)
(* and a pointer into the history of a key that has the right id is the    *)
(* right one.  So the inductive invariant says what the projection is in   *)
(* terms of the stream, and of the tables only that a pointer, wherever it *)
(* drifts, stays within the history of its key.                            *)
(***************************************************************************)
EXTENDS Recall, FiniteSetTheorems, WellFoundedInduction, TLAPS

New == Len(log) + 1

Events ==
    [kind : {"entry"}, version : Versions, expired : SUBSET Nat]
      \cup [kind : {"proposed"}, proposal : Proposals]
      \cup [kind : {"rejected"}, rejected : Nat]

Heads == [id : Nat, entry : Nat, number : Nat, value : Operations]

LogTyped == log \in Seq(Events)

(* The events that settled a proposal *)
Settled(p) == {j \in DOMAIN log : p \in DOMAIN Settles(log[j])}

(* The projection is what startup would derive from the stream. *)
Reduced ==
    /\ memory = [current |-> memory.current, proposals |-> memory.proposals,
                 status |-> memory.status]
    /\ memory.current \in [Places -> Heads]
    /\ memory.proposals = [p \in ProvenProposals |-> log[p].proposal]
    /\ memory.status = [p \in ProvenProposals |-> ProvenApproval(p)]

OnlyProposedIsSettled == \A j \in DOMAIN log : DOMAIN Settles(log[j]) \subseteq ProvenProposals

(* What a pointer of a key may say, and the current version does *)
Known(pl) == {NoEntry} \cup {Ref(i, log[i].version) : i \in Line(pl)}

PointersAreKnown ==
    /\ pointer \in [Places -> Heads]
    /\ \A pl \in Places : memory.current[pl] \in Known(pl) /\ pointer[pl] \in Known(pl)

(* An undecided proposal is for the key as it is, and would change it. *)
PendingIsCurrent ==
    \A p \in ProvenProposals : Settled(p) = {} =>
      LET c == memory.current[log[p].proposal.place] IN
      log[p].proposal.expected = c.id /\ log[p].proposal.value # c.value

IsLast(i, events) == i \in events /\ \A j \in events : j <= i

Before(i, line) == {j \in line : j < i}

(* How a version of a line goes on from the one before it *)
Linked(i, line, events) ==
    LET v == events[i].version IN
    /\ v.number = Cardinality(Before(i, line)) + 1
    /\ IF Before(i, line) = {}
         THEN v.pred = None /\ v.entry = i /\ v.value # Tombstone
         ELSE /\ IsLast(v.pred, Before(i, line))
              /\ v.entry = events[v.pred].version.entry
              /\ v.value # events[v.pred].version.value

(* HistoryIsOneLine, with a last version where there is one and as many as  *)
(* the current number says                                                  *)
Chained ==
    \A pl \in Places :
      /\ IF Line(pl) = {} THEN memory.current[pl] = NoEntry
                          ELSE IsLast(memory.current[pl].id, Line(pl))
      /\ memory.current[pl].number = Cardinality(Line(pl))
      /\ \A i \in Line(pl) : Linked(i, Line(pl), log)

IInv ==
    /\ LogTyped /\ Reduced /\ OnlyProposedIsSettled /\ PointersAreKnown /\ PendingIsCurrent
    /\ Chained /\ TablesTellTheStream

-----------------------------------------------------------------------------
(* The stream *)

LEMMA EventKinds ==
  ASSUME NEW event \in Events
  PROVE  \/ /\ event.kind = "entry" /\ event.version \in Versions
            /\ event.expired \in SUBSET Nat
         \/ event.kind = "proposed" /\ event.proposal \in Proposals
         \/ event.kind = "rejected" /\ event.rejected \in Nat
BY DEF Events

(* What one more event adds *)
LEMMA Grows ==
  ASSUME LogTyped, NEW event \in Events, log' = Append(log, event)
  PROVE  /\ LogTyped' /\ New \in Nat
         /\ DOMAIN log = 1 .. Len(log) /\ DOMAIN log' = DOMAIN log \cup {New}
         /\ New \notin DOMAIN log
         /\ \A j \in DOMAIN log : log'[j] = log[j]
         /\ log'[New] = event
BY DEF LogTyped, New

LEMMA SetsGrow ==
  ASSUME LogTyped, NEW event \in Events, log' = Append(log, event)
  PROVE  /\ ProvenProposals' = ProvenProposals \cup (IF event.kind = "proposed" THEN {New} ELSE {})
         /\ ProvenVersions' = ProvenVersions \cup (IF event.kind = "entry" THEN {New} ELSE {})
         /\ \A pl : Line(pl)' = Line(pl) \cup
              (IF event.kind = "entry" /\ event.version.place = pl THEN {New} ELSE {})
         /\ \A p : Settled(p)' = Settled(p) \cup
              (IF p \in DOMAIN Settles(event) THEN {New} ELSE {})
<1>1. /\ DOMAIN log' = DOMAIN log \cup {New}
      /\ \A j \in DOMAIN log : log'[j] = log[j]
      /\ log'[New] = event
  BY Grows
<1>2. ProvenProposals' = ProvenProposals \cup (IF event.kind = "proposed" THEN {New} ELSE {})
  BY <1>1 DEF ProvenProposals
<1>3. ProvenVersions' = ProvenVersions \cup (IF event.kind = "entry" THEN {New} ELSE {})
  BY <1>1 DEF ProvenVersions
<1>4. ASSUME NEW pl
      PROVE  Line(pl)' = Line(pl) \cup
               (IF event.kind = "entry" /\ event.version.place = pl THEN {New} ELSE {})
  BY <1>1, <1>3 DEF Line, ProvenVersions
<1>5. ASSUME NEW p
      PROVE  Settled(p)' = Settled(p) \cup (IF p \in DOMAIN Settles(event) THEN {New} ELSE {})
  BY <1>1 DEF Settled
<1> QED
  BY <1>2, <1>3, <1>4, <1>5

(* A proposal is pending exactly as long as no event settled it. *)
LEMMA PendingMeans ==
  ASSUME LogTyped, NEW p
  PROVE  ProvenApproval(p) = Pending <=> Settled(p) = {}
<1>1. CASE Settled(p) = {}
  BY <1>1 DEF ProvenApproval, Settled
<1>2. CASE Settled(p) # {}
  <2> DEFINE j == CHOOSE i \in Settled(p) : TRUE
  <2>1. j \in Settled(p)
    BY <1>2
  <2>2. ProvenApproval(p) = [status |-> Settles(log[j])[p], event |-> j]
    BY <1>2 DEF ProvenApproval, Settled
  <2>3. j # None
    BY <2>1 DEF Settled, LogTyped, None
  <2> QED
    BY <1>2, <2>2, <2>3 DEF Pending
<1> QED
  BY <1>1, <1>2

LEMMA PendingIs ==
  ASSUME LogTyped, Reduced
  PROVE  PendingIn(memory) = {p \in ProvenProposals : Settled(p) = {}}
BY PendingMeans DEF PendingIn, Reduced

LEMMA ProposalsTyped ==
  ASSUME LogTyped, NEW p \in ProvenProposals
  PROVE  p \in Nat \ {None} /\ p \in 1 .. Len(log) /\ log[p].proposal \in Proposals
<1>1. p \in 1 .. Len(log) /\ log[p] \in Events /\ log[p].kind = "proposed"
  BY DEF LogTyped, ProvenProposals
<1> QED
  BY <1>1, EventKinds DEF None

LEMMA VersionsTyped ==
  ASSUME LogTyped, NEW i \in ProvenVersions
  PROVE  i \in Nat \ {None} /\ i \in 1 .. Len(log) /\ log[i].version \in Versions
<1>1. i \in 1 .. Len(log) /\ log[i] \in Events /\ log[i].kind = "entry"
  BY DEF LogTyped, ProvenVersions
<1> QED
  BY <1>1, EventKinds DEF None

(* The id tells what a key held. *)
LEMMA IdsIdentify ==
  ASSUME LogTyped, NEW pl, NEW x \in Known(pl), NEW y \in Known(pl), x.id = y.id
  PROVE  x = y
<1>1. \A i \in Line(pl) : i \in Nat \ {None}
  BY VersionsTyped DEF Line
<1>2. NoEntry.id = None /\ \A i : Ref(i, log[i].version).id = i
  BY DEF NoEntry, Ref
<1> QED
  BY <1>1, <1>2 DEF Known

-----------------------------------------------------------------------------
(* What the reducer makes of the reading of damaged tables: the event that  *)
(* a command commits is right, whatever the command read.                   *)
WriteSound(event) ==
    LET v == event.version
        c == memory.current[v.place]
    IN  /\ v.pred = c.id /\ v.number = c.number + 1
        /\ v.entry = IF c = NoEntry THEN New ELSE c.entry
        /\ v.value # c.value
        /\ v.accepted # None =>
             /\ v.accepted \in PendingIn(memory)
             /\ memory.proposals[v.accepted].place = v.place
             /\ memory.proposals[v.accepted].value = v.value
        /\ event.expired =
             {p \in PendingIn(memory) \ {v.accepted} : memory.proposals[p].place = v.place}

OfferSound(event) ==
    LET c == memory.current[event.proposal.place] IN
    event.proposal.expected = c.id /\ event.proposal.value # c.value

EventSound(event) ==
    /\ event \in Events
    /\ event.kind = "entry" => WriteSound(event)
    /\ event.kind = "proposed" => OfferSound(event)
    /\ event.kind = "rejected" => event.rejected \in PendingIn(memory)

(* A pending proposal, seen from the projection *)
LEMMA PendingFacts ==
  ASSUME LogTyped, Reduced, PendingIsCurrent, NEW p \in PendingIn(memory)
  PROVE  /\ p \in ProvenProposals /\ p \in Nat \ {None} /\ p < New
         /\ memory.proposals[p] = log[p].proposal /\ memory.proposals[p] \in Proposals
         /\ memory.proposals[p].expected = memory.current[memory.proposals[p].place].id
         /\ memory.proposals[p].value # memory.current[memory.proposals[p].place].value
<1>1. p \in ProvenProposals /\ Settled(p) = {}
  BY PendingIs
<1>2. p \in Nat \ {None} /\ p \in 1 .. Len(log) /\ log[p].proposal \in Proposals
  BY <1>1, ProposalsTyped
<1>3. memory.proposals[p] = log[p].proposal
  BY <1>1 DEF Reduced
<1>4. p < New
  BY <1>2 DEF LogTyped, New
<1> QED
  BY <1>1, <1>2, <1>3, <1>4 DEF PendingIsCurrent

LEMMA HeadsAreOld ==
  ASSUME LogTyped, NEW pl, NEW x \in Known(pl)
  PROVE  x.id \in Nat /\ x.id < New
<1>1. \A i \in Line(pl) : i \in 1 .. Len(log)
  BY VersionsTyped DEF Line
<1>2. NoEntry.id = 0 /\ \A i : Ref(i, log[i].version).id = i
  BY DEF NoEntry, Ref, None
<1>3. Len(log) \in Nat
  BY DEF LogTyped
<1> QED
  BY <1>1, <1>2, <1>3 DEF Known, New

(* A new version goes on from what the pointer says; if it fits, the        *)
(* pointer says what the stream says.                                       *)
LEMMA WriteIsSound ==
  ASSUME IInv, NEW pl \in Places, NEW v \in Operations, NEW accepted \in Nat, NEW expired,
         LET event == EntrySet(NextVersion(pl, v, accepted), expired) IN Fits(memory, New, event),
         v # memory.current[pl].value,
         accepted # None =>
           memory.proposals[accepted].place = pl /\ memory.proposals[accepted].value = v
  PROVE  EventSound(EntrySet(NextVersion(pl, v, accepted), expired))
<1> DEFINE version == NextVersion(pl, v, accepted)
           event == EntrySet(version, expired)
           c == memory.current[pl]
<1>1. /\ event.kind = "entry" /\ event.version = version /\ event.expired = expired
      /\ event = [kind |-> "entry", version |-> version, expired |-> expired]
  BY DEF EntrySet
<1>2. /\ version.place = pl /\ version.pred = pointer[pl].id
      /\ version.number = pointer[pl].number + 1
      /\ version.entry = IF pointer[pl] = NoEntry THEN New ELSE pointer[pl].entry
      /\ version.value = v /\ version.accepted = accepted
  BY DEF NextVersion, New
<1> HIDE DEF version, event
<1>3. /\ version.pred = c.id
      /\ accepted # None => Approvable(memory, accepted, pl)
      /\ ExpiresAllStale(memory, New, event)
  <2>1. Fits(memory, New, event)
    BY DEF event, version
  <2>2. /\ event.version.accepted # None =>
             Approvable(memory, event.version.accepted, event.version.place)
        /\ Succeeds(memory, event.version)
        /\ ExpiresAllStale(memory, New, event)
    BY <1>1, <2>1 DEF Fits
  <2> QED
    BY <1>1, <1>2, <2>2 DEF Succeeds
<1>4. pointer[pl] = c
  BY <1>2, <1>3, IdsIdentify DEF IInv, PointersAreKnown
<1>5. c \in Heads /\ New \in Nat
  BY DEF IInv, Reduced, LogTyped, New
<1>6. version \in Versions
  <2>1. /\ version.pred \in Nat /\ version.number \in Nat /\ version.entry \in Nat
    BY <1>2, <1>4, <1>5 DEF Heads
  <2>2. version = [place |-> version.place, entry |-> version.entry, number |-> version.number,
                   pred |-> version.pred, value |-> version.value, accepted |-> version.accepted]
    BY DEF version, NextVersion
  <2> QED
    BY <1>2, <2>1, <2>2 DEF Versions
<1>7. \A p \in PendingIn(memory) :
        memory.proposals[p].place = pl => memory.proposals[p].expected # New
  <2>1. c.id < New
    BY HeadsAreOld DEF IInv, PointersAreKnown
  <2>2. \A p \in PendingIn(memory) :
          memory.proposals[p].place = pl => memory.proposals[p].expected = c.id
    BY PendingFacts DEF IInv
  <2> QED
    BY <1>5, <2>1, <2>2 DEF Heads
<1>8. expired = {p \in PendingIn(memory) \ {accepted} : memory.proposals[p].place = pl}
  BY <1>1, <1>2, <1>3, <1>7 DEF ExpiresAllStale
<1>9. expired \in SUBSET Nat
  BY <1>8, PendingFacts DEF IInv
<1>10. event \in Events
  BY <1>1, <1>6, <1>9 DEF Events
<1>11. WriteSound(event)
  BY <1>1, <1>2, <1>3, <1>4, <1>8 DEF WriteSound, Approvable
<1> QED
  BY <1>1, <1>10, <1>11 DEF EventSound, event, version

(* The four commands *)
LEMMA CommandsCommit ==
  ASSUME IInv, Commands
  PROVE  \E event : Commit(event) /\ EventSound(event)
<1> PICK expected \in 0 .. Len(log) :
      \/ \E pl \in Places, v \in Operations : SetEntry(pl, expected, v) \/ Propose(pl, expected, v)
      \/ \E p \in DOMAIN rows.proposals \ {Foreign} :
           ApproveProposal(p, expected) \/ RejectProposal(p, expected)
  BY DEF Commands
<1>1. ASSUME NEW pl \in Places, NEW v \in Operations, SetEntry(pl, expected, v)
      PROVE  \E event : Commit(event) /\ EventSound(event)
  <2> DEFINE event == EntrySet(NextVersion(pl, v, None), StaleFor(pl, None))
  <2>1. Commit(event) /\ v # pointer[pl].value
    BY <1>1 DEF SetEntry, Changes
  <2>2. Fits(memory, New, event)
    BY <2>1 DEF Commit, New
  <2>3. memory.current[pl].id = pointer[pl].id
    BY <2>2 DEF Fits, EntrySet, Succeeds, NextVersion
  <2>4. v # memory.current[pl].value
    BY <2>1, <2>3, IdsIdentify DEF IInv, PointersAreKnown
  <2>5. EventSound(event)
    BY <2>2, <2>4, WriteIsSound DEF None
  <2> QED
    BY <2>1, <2>5
<1>2. ASSUME NEW pl \in Places, NEW v \in Operations, Propose(pl, expected, v)
      PROVE  \E event : Commit(event) /\ EventSound(event)
  <2> DEFINE proposal == [place |-> pl, expected |-> expected, value |-> v]
             event == ProposalCreated(proposal)
  <2>1. Commit(event) /\ v # pointer[pl].value /\ pointer[pl].id = expected
    BY <1>2 DEF Propose, Changes
  <2>2. Fits(memory, New, event)
    BY <2>1 DEF Commit, New
  <2>3. memory.current[pl].id = expected
    BY <2>2 DEF Fits, ProposalCreated
  <2>4. v # memory.current[pl].value
    BY <2>1, <2>3, IdsIdentify DEF IInv, PointersAreKnown
  <2>5. event \in Events
    BY DEF ProposalCreated, Events, Proposals
  <2>6. EventSound(event)
    BY <2>3, <2>4, <2>5 DEF EventSound, OfferSound, ProposalCreated
  <2> QED
    BY <2>1, <2>6
<1>3. ASSUME NEW p \in DOMAIN rows.proposals \ {Foreign}, ApproveProposal(p, expected)
      PROVE  \E event : Commit(event) /\ EventSound(event)
  <2> DEFINE pl == rows.proposals[p].place
             v == rows.proposals[p].value
             event == EntrySet(NextVersion(pl, v, p), StaleFor(pl, p))
  <2>1. /\ Commit(event)
        /\ p \in PendingIn(memory) /\ memory.proposals[p] = rows.proposals[p]
    BY <1>3 DEF ApproveProposal, Resolvable, PendingIn
  <2>2. /\ pl \in Places /\ v \in Operations /\ p \in Nat
        /\ v # memory.current[pl].value
    BY <2>1, PendingFacts DEF IInv, Proposals
  <2>3. Fits(memory, New, event)
    BY <2>1 DEF Commit, New
  <2>4. EventSound(event)
    BY <2>1, <2>2, <2>3, WriteIsSound
  <2> QED
    BY <2>1, <2>4
<1>4. ASSUME NEW p \in DOMAIN rows.proposals \ {Foreign}, RejectProposal(p, expected)
      PROVE  \E event : Commit(event) /\ EventSound(event)
  <2>1. Commit(ProposalRejected(p)) /\ p \in PendingIn(memory)
    BY <1>4 DEF RejectProposal, Resolvable, PendingIn
  <2>2. p \in Nat
    BY <2>1, PendingFacts DEF IInv
  <2>3. EventSound(ProposalRejected(p))
    BY <2>1, <2>2 DEF EventSound, Events, ProposalRejected
  <2> QED
    BY <2>1, <2>3
<1> QED
  BY <1>1, <1>2, <1>3, <1>4

-----------------------------------------------------------------------------
(* What an event settles *)
LEMMA SettlesWhat ==
  ASSUME NEW event \in Events
  PROVE  /\ event.kind = "entry" =>
              DOMAIN Settles(event) = event.expired \cup ({event.version.accepted} \ {None})
         /\ event.kind = "rejected" => DOMAIN Settles(event) = {event.rejected}
         /\ event.kind = "proposed" => DOMAIN Settles(event) = {}
<1>1. CASE event.kind = "entry"
  BY <1>1 DEF Settles
<1>2. CASE event.kind = "rejected"
  BY <1>2 DEF Settles
<1>3. CASE event.kind = "proposed"
  BY <1>3 DEF Settles
<1> QED
  BY <1>1, <1>2, <1>3

LEMMA OnlyPendingIsSettled ==
  ASSUME LogTyped, Reduced, NEW event, EventSound(event)
  PROVE  /\ DOMAIN Settles(event) \subseteq PendingIn(memory)
         /\ DOMAIN Settles(event) \subseteq ProvenProposals
         /\ event.kind = "entry" =>
              DOMAIN Settles(event) =
                {p \in PendingIn(memory) : memory.proposals[p].place = event.version.place}
<1>1. event \in Events
  BY DEF EventSound
<1>2. CASE event.kind = "entry"
  <2>1. WriteSound(event)
    BY <1>2 DEF EventSound
  <2>2. DOMAIN Settles(event) = event.expired \cup ({event.version.accepted} \ {None})
    BY <1>1, <1>2, SettlesWhat
  <2> DEFINE v == event.version
             stale == {p \in PendingIn(memory) : memory.proposals[p].place = v.place}
  <2>3. event.expired = stale \ {v.accepted}
    BY <2>1 DEF WriteSound
  <2>4. v.accepted # None => v.accepted \in stale
    BY <2>1 DEF WriteSound
  <2>5. None \notin stale
    BY PendingIs, ProposalsTyped
  <2>6. DOMAIN Settles(event) = stale
    BY <2>2, <2>3, <2>4, <2>5
  <2> QED
    BY <1>2, <2>6, PendingIs
<1>3. CASE event.kind = "rejected"
  BY <1>1, <1>3, SettlesWhat, PendingIs DEF EventSound
<1>4. CASE event.kind = "proposed"
  BY <1>1, <1>4, SettlesWhat
<1> QED
  BY <1>1, <1>2, <1>3, <1>4, EventKinds

LEMMA ApprovalGrows ==
  ASSUME LogTyped, NEW event \in Events, log' = Append(log, event), NEW p
  PROVE  /\ p \notin DOMAIN Settles(event) => ProvenApproval(p)' = ProvenApproval(p)
         /\ p \in DOMAIN Settles(event) /\ Settled(p) = {} =>
              ProvenApproval(p)' = ResolutionRows(New, event)[p]
<1>1. /\ log'[New] = event /\ \A j \in DOMAIN log : log'[j] = log[j]
      /\ Settled(p)' = Settled(p) \cup (IF p \in DOMAIN Settles(event) THEN {New} ELSE {})
  BY Grows, SetsGrow
<1>2. /\ ProvenApproval(p) =
           IF Settled(p) = {} THEN Pending
           ELSE LET i == CHOOSE j \in Settled(p) : TRUE IN
                [status |-> Settles(log[i])[p], event |-> i]
      /\ ProvenApproval(p)' =
           IF Settled(p)' = {} THEN Pending
           ELSE LET i == CHOOSE j \in Settled(p)' : TRUE IN
                [status |-> Settles(log'[i])[p], event |-> i]
  BY DEF ProvenApproval, Settled
<1>3. CASE p \notin DOMAIN Settles(event)
  <2>1. Settled(p)' = Settled(p)
    BY <1>1, <1>3
  <2>2. CASE Settled(p) = {}
    BY <1>2, <1>3, <2>1, <2>2
  <2>3. CASE Settled(p) # {}
    <3>1. PICK i : i = CHOOSE j \in Settled(p) : TRUE
      OBVIOUS
    <3>2. i \in DOMAIN log
      BY <2>3, <3>1 DEF Settled
    <3> QED
      BY <1>1, <1>2, <1>3, <2>1, <2>3, <3>1, <3>2
  <2> QED
    BY <2>2, <2>3
<1>4. CASE p \in DOMAIN Settles(event) /\ Settled(p) = {}
  <2>1. Settled(p)' = {New}
    BY <1>1, <1>4
  <2>2. ProvenApproval(p)' = [status |-> Settles(event)[p], event |-> New]
    BY <1>1, <1>2, <2>1
  <2> QED
    BY <1>4, <2>2 DEF ResolutionRows
<1> QED
  BY <1>3, <1>4

LEMMA MemoryAfter ==
  ASSUME Reduced, NEW event \in Events, memory' = Reduce(memory, New, event)
  PROVE  /\ memory' = [current |-> memory'.current, proposals |-> memory'.proposals,
                       status |-> memory'.status]
         /\ memory'.current =
              IF event.kind = "entry"
                THEN [memory.current EXCEPT ![event.version.place] = Ref(New, event.version)]
                ELSE memory.current
         /\ memory'.proposals = IF event.kind = "proposed"
                                  THEN Insert(memory.proposals, New, event.proposal)
                                  ELSE memory.proposals
         /\ memory'.status = IF event.kind = "proposed"
                               THEN Insert(memory.status, New, Pending)
                               ELSE Updated(memory.status, ResolutionRows(New, event))
<1> DEFINE m == [current |-> memory.current, proposals |-> memory.proposals,
                 status |-> memory.status]
<1>1. memory = m
  BY DEF Reduced
<1>2. CASE event.kind = "entry"
  <2>1. memory' = [m EXCEPT !.current[event.version.place] = Ref(New, event.version),
                            !.status = Updated(@, ResolutionRows(New, event))]
    BY <1>1, <1>2 DEF Reduce
  <2> QED
    BY <1>2, <2>1
<1>3. CASE event.kind = "proposed"
  <2>1. memory' = [m EXCEPT !.proposals = Insert(@, New, event.proposal),
                            !.status = Insert(@, New, Pending)]
    BY <1>1, <1>3 DEF Reduce
  <2> QED
    BY <1>3, <2>1
<1>4. CASE event.kind = "rejected"
  <2>1. memory' = [m EXCEPT !.status = Updated(@, ResolutionRows(New, event))]
    BY <1>1, <1>4 DEF Reduce
  <2> QED
    BY <1>4, <2>1
<1> QED
  BY <1>2, <1>3, <1>4, EventKinds

(* Maps *)
LEMMA InsertedMap ==
  ASSUME NEW g, NEW x, NEW y
  PROVE  Insert(g, x, y) = [z \in DOMAIN g \cup {x} |-> IF z = x THEN y ELSE g[z]]
BY DEF Insert, Updated

LEMMA UpdatedMap ==
  ASSUME NEW f, NEW g, DOMAIN g \subseteq DOMAIN f
  PROVE  Updated(f, g) = [z \in DOMAIN f |-> IF z \in DOMAIN g THEN g[z] ELSE f[z]]
<1>1. DOMAIN f \cup DOMAIN g = DOMAIN f
  OBVIOUS
<1> QED
  BY <1>1 DEF Updated

-----------------------------------------------------------------------------
(* A commit, part by part *)
LEMMA ReducedCommit ==
  ASSUME IInv, NEW event, EventSound(event),
         log' = Append(log, event), memory' = Reduce(memory, New, event)
  PROVE  Reduced'
<1> USE DEF IInv
<1>1. event \in Events /\ New \in Nat /\ New \notin ProvenProposals
  BY Grows, ProposalsTyped DEF EventSound, ProvenProposals
<1>2. /\ memory' = [current |-> memory'.current, proposals |-> memory'.proposals,
                    status |-> memory'.status]
      /\ memory'.current =
           IF event.kind = "entry"
             THEN [memory.current EXCEPT ![event.version.place] = Ref(New, event.version)]
             ELSE memory.current
      /\ memory'.proposals = IF event.kind = "proposed"
                               THEN Insert(memory.proposals, New, event.proposal)
                               ELSE memory.proposals
      /\ memory'.status = IF event.kind = "proposed"
                            THEN Insert(memory.status, New, Pending)
                            ELSE Updated(memory.status, ResolutionRows(New, event))
  BY <1>1, MemoryAfter
<1>3. memory'.current \in [Places -> Heads]
  <2>1. CASE event.kind = "entry"
    <3>1. event.version \in Versions
      BY <1>1, <2>1, EventKinds
    <3>2. Ref(New, event.version) \in Heads
      BY <1>1, <3>1 DEF Ref, Heads, Versions
    <3> QED
      BY <1>2, <2>1, <3>2 DEF Reduced
  <2>2. CASE event.kind # "entry"
    BY <1>2, <2>2 DEF Reduced
  <2> QED
    BY <2>1, <2>2
<1>4. /\ ProvenProposals' = ProvenProposals \cup (IF event.kind = "proposed" THEN {New} ELSE {})
      /\ \A j \in ProvenProposals : log'[j] = log[j]
      /\ log'[New] = event
  BY <1>1, Grows, SetsGrow DEF ProvenProposals
<1>5. memory'.proposals = [p \in ProvenProposals' |-> log'[p].proposal]
  <2>1. CASE event.kind = "proposed"
    <3>1. memory'.proposals = [p \in ProvenProposals \cup {New} |->
                                 IF p = New THEN event.proposal ELSE memory.proposals[p]]
      BY <1>2, <2>1, InsertedMap DEF Reduced
    <3>2. ProvenProposals' = ProvenProposals \cup {New}
      BY <1>4, <2>1
    <3>3. \A p \in ProvenProposals' :
            log'[p].proposal = IF p = New THEN event.proposal ELSE memory.proposals[p]
      <4>1. \A p \in ProvenProposals : p # New /\ memory.proposals[p] = log[p].proposal
        BY <1>1 DEF Reduced
      <4> QED
        BY <1>4, <3>2, <4>1
    <3> QED
      BY <3>1, <3>2, <3>3
  <2>2. CASE event.kind # "proposed"
    BY <1>2, <1>4, <2>2 DEF Reduced
  <2> QED
    BY <2>1, <2>2
<1>6. /\ DOMAIN Settles(event) \subseteq ProvenProposals
      /\ \A p \in DOMAIN Settles(event) : Settled(p) = {}
  BY OnlyPendingIsSettled, PendingIs
<1>7. memory'.status = [p \in ProvenProposals' |-> ProvenApproval(p)']
  <2>1. CASE event.kind = "proposed"
    <3>1. memory'.status = [p \in ProvenProposals \cup {New} |->
                              IF p = New THEN Pending ELSE memory.status[p]]
      BY <1>2, <2>1, InsertedMap DEF Reduced
    <3>2. DOMAIN Settles(event) = {}
      BY <1>1, <2>1, SettlesWhat
    <3>3. \A p : ProvenApproval(p)' = ProvenApproval(p)
      BY <1>1, <3>2, ApprovalGrows
    <3>4. ProvenApproval(New) = Pending
      BY <1>1, PendingMeans DEF OnlyProposedIsSettled, Settled
    <3> QED
      BY <1>1, <1>4, <2>1, <3>1, <3>3, <3>4 DEF Reduced
  <2>2. CASE event.kind # "proposed"
    <3>1. DOMAIN ResolutionRows(New, event) = DOMAIN Settles(event)
      BY DEF ResolutionRows
    <3>2. memory'.status = [p \in ProvenProposals |->
                              IF p \in DOMAIN Settles(event) THEN ResolutionRows(New, event)[p]
                              ELSE memory.status[p]]
      BY <1>2, <1>6, <2>2, <3>1, UpdatedMap DEF Reduced
    <3>3. \A p \in ProvenProposals :
            ProvenApproval(p)' = IF p \in DOMAIN Settles(event) THEN ResolutionRows(New, event)[p]
                                 ELSE ProvenApproval(p)
      BY <1>1, <1>6, ApprovalGrows
    <3> QED
      BY <1>4, <2>2, <3>2, <3>3 DEF Reduced
  <2> QED
    BY <2>1, <2>2
<1> QED
  BY <1>2, <1>3, <1>5, <1>7 DEF Reduced

LEMMA OnlyProposedCommit ==
  ASSUME IInv, NEW event, EventSound(event), log' = Append(log, event)
  PROVE  OnlyProposedIsSettled'
<1>1. DOMAIN Settles(event) \subseteq ProvenProposals
  BY OnlyPendingIsSettled DEF IInv
<1>2. ProvenProposals \subseteq ProvenProposals'
  BY SetsGrow DEF IInv, EventSound
<1>3. /\ DOMAIN log' = DOMAIN log \cup {New} /\ log'[New] = event
      /\ \A j \in DOMAIN log : log'[j] = log[j]
  BY Grows DEF IInv, EventSound
<1> QED
  BY <1>1, <1>2, <1>3 DEF OnlyProposedIsSettled, IInv

(* The current version of every key after a commit *)
LEMMA CurrentAfter ==
  ASSUME IInv, NEW event, EventSound(event),
         log' = Append(log, event), memory' = Reduce(memory, New, event), NEW pl \in Places
  PROVE  /\ event.kind = "entry" /\ event.version.place = pl =>
              memory'.current[pl] = Ref(New, event.version) /\ Line(pl)' = Line(pl) \cup {New}
         /\ ~(event.kind = "entry" /\ event.version.place = pl) =>
              memory'.current[pl] = memory.current[pl] /\ Line(pl)' = Line(pl)
<1>1. event \in Events
  BY DEF EventSound
<1>2. memory'.current =
        IF event.kind = "entry"
          THEN [memory.current EXCEPT ![event.version.place] = Ref(New, event.version)]
          ELSE memory.current
  BY <1>1, MemoryAfter DEF IInv
<1>3. DOMAIN memory.current = Places
  BY DEF IInv, Reduced
<1>4. Line(pl)' = Line(pl) \cup
        (IF event.kind = "entry" /\ event.version.place = pl THEN {New} ELSE {})
  BY <1>1, SetsGrow DEF IInv
<1> QED
  BY <1>2, <1>3, <1>4

LEMMA PointersCommit ==
  ASSUME IInv, NEW event, EventSound(event), Reduced',
         log' = Append(log, event), memory' = Reduce(memory, New, event),
         pointer' = memory'.current
  PROVE  PointersAreKnown'
<1>1. \A j \in DOMAIN log : log'[j] = log[j]
  BY Grows DEF IInv, EventSound
<1>2. log'[New] = event
  BY Grows DEF IInv, EventSound
<1>3. ASSUME NEW pl \in Places
      PROVE  memory'.current[pl] \in Known(pl)'
  <2>1. Known(pl)' = {NoEntry} \cup {Ref(i, log'[i].version) : i \in Line(pl)'}
    BY DEF Known
  <2>2. CASE event.kind = "entry" /\ event.version.place = pl
    <3>1. New \in Line(pl)' /\ memory'.current[pl] = Ref(New, log'[New].version)
      BY <1>2, <2>2, CurrentAfter
    <3> QED
      BY <2>1, <3>1
  <2>3. CASE ~(event.kind = "entry" /\ event.version.place = pl)
    <3>1. memory'.current[pl] = memory.current[pl] /\ Line(pl)' = Line(pl)
      BY <2>3, CurrentAfter
    <3>2. \A i \in Line(pl) : log'[i] = log[i]
      BY <1>1 DEF Line, ProvenVersions
    <3> QED
      BY <2>1, <3>1, <3>2 DEF IInv, PointersAreKnown, Known
  <2> QED
    BY <2>2, <2>3
<1> QED
  BY <1>3 DEF PointersAreKnown, Reduced

LEMMA PendingCommit ==
  ASSUME IInv, NEW event, EventSound(event),
         log' = Append(log, event), memory' = Reduce(memory, New, event)
  PROVE  PendingIsCurrent'
<1> USE DEF IInv
<1>1. event \in Events
  BY DEF EventSound
<1>2. /\ ProvenProposals' = ProvenProposals \cup (IF event.kind = "proposed" THEN {New} ELSE {})
      /\ \A p : Settled(p)' = Settled(p) \cup (IF p \in DOMAIN Settles(event) THEN {New} ELSE {})
      /\ \A j \in ProvenProposals : log'[j] = log[j]
      /\ log'[New] = event
  BY <1>1, Grows, SetsGrow DEF ProvenProposals
<1>3. ASSUME NEW p \in ProvenProposals', Settled(p)' = {}
      PROVE  LET c == memory'.current[log'[p].proposal.place] IN
             log'[p].proposal.expected = c.id /\ log'[p].proposal.value # c.value
  <2>1. CASE event.kind = "proposed" /\ p = New
    <3>1. event.proposal \in Proposals
      BY <1>1, <2>1, EventKinds
    <3>2. memory'.current[event.proposal.place] = memory.current[event.proposal.place]
      BY <2>1, <3>1, CurrentAfter DEF Proposals
    <3> QED
      BY <1>2, <2>1, <3>2 DEF EventSound, OfferSound
  <2>2. CASE ~(event.kind = "proposed" /\ p = New)
    <3>1. p \in ProvenProposals /\ Settled(p) = {} /\ p \notin DOMAIN Settles(event)
      BY <1>2, <1>3, <2>2
    <3>2. p \in PendingIn(memory) /\ memory.proposals[p] = log[p].proposal
      BY <3>1, PendingIs DEF Reduced
    <3>3. log[p].proposal.place \in Places
      BY <3>1, ProposalsTyped DEF Proposals
    <3>4. ~(event.kind = "entry" /\ event.version.place = log[p].proposal.place)
      BY <3>1, <3>2, OnlyPendingIsSettled
    <3>5. memory'.current[log[p].proposal.place] = memory.current[log[p].proposal.place]
      BY <3>3, <3>4, CurrentAfter
    <3>6. LET c == memory.current[log[p].proposal.place] IN
          log[p].proposal.expected = c.id /\ log[p].proposal.value # c.value
      BY <3>1 DEF PendingIsCurrent
    <3>7. log'[p] = log[p]
      BY <1>2, <3>1
    <3> QED
      BY <3>5, <3>6, <3>7
  <2> QED
    BY <2>1, <2>2
<1> QED
  BY <1>3 DEF PendingIsCurrent

LEMMA LinesAreFinite ==
  ASSUME LogTyped, NEW pl
  PROVE  /\ IsFiniteSet(Line(pl)) /\ Line(pl) \subseteq 1 .. Len(log)
         /\ Cardinality(Line(pl)) \in Nat
         /\ \A i \in Line(pl) : i \in Nat \ {None} /\ i < New /\ i # New
<1>1. Line(pl) \subseteq 1 .. Len(log) /\ Len(log) \in Nat
  BY VersionsTyped DEF Line, LogTyped
<1>2. IsFiniteSet(1 .. Len(log))
  BY <1>1, FS_Interval
<1>3. IsFiniteSet(Line(pl))
  BY <1>1, <1>2, FS_Subset
<1> QED
  BY <1>1, <1>3, FS_CardinalityType DEF New, None

(* The current version is the last of the line, with its entry and value. *)
LEMMA CurrentIsLast ==
  ASSUME IInv, NEW pl \in Places
  PROVE  LET c == memory.current[pl] IN
         \/ Line(pl) = {} /\ c = NoEntry
         \/ /\ Line(pl) # {} /\ IsLast(c.id, Line(pl)) /\ c # NoEntry
            /\ c = Ref(c.id, log[c.id].version)
            /\ c.entry = log[c.id].version.entry /\ c.value = log[c.id].version.value
<1> DEFINE c == memory.current[pl]
<1>1. CASE Line(pl) = {}
  BY <1>1 DEF IInv, Chained
<1>2. CASE Line(pl) # {}
  <2>1. IsLast(c.id, Line(pl))
    BY <1>2 DEF IInv, Chained
  <2>2. c.id # None
    BY <2>1, LinesAreFinite DEF IInv, IsLast
  <2>3. PICK i \in Line(pl) : c = Ref(i, log[i].version)
    BY <2>2 DEF IInv, PointersAreKnown, Known, NoEntry
  <2>4. c.id = i /\ c.entry = log[i].version.entry /\ c.value = log[i].version.value
    BY <2>3 DEF Ref
  <2> QED
    BY <1>2, <2>1, <2>2, <2>3, <2>4 DEF NoEntry
<1> QED
  BY <1>1, <1>2

LEMMA ChainedCommit ==
  ASSUME IInv, NEW event, EventSound(event),
         log' = Append(log, event), memory' = Reduce(memory, New, event)
  PROVE  Chained'
<1> SUFFICES ASSUME NEW pl \in Places
             PROVE  /\ IF Line(pl)' = {} THEN memory'.current[pl] = NoEntry
                                         ELSE IsLast(memory'.current[pl].id, Line(pl)')
                    /\ memory'.current[pl].number = Cardinality(Line(pl)')
                    /\ \A i \in Line(pl)' : Linked(i, Line(pl)', log')
  BY DEF Chained, Linked, Before, IsLast
<1> DEFINE c == memory.current[pl]
           w == event.version
<1> USE DEF IInv
<1>1. /\ event \in Events /\ New \in Nat /\ log'[New] = event
      /\ \A j \in Line(pl) : log'[j] = log[j]
  BY Grows DEF EventSound, Line, ProvenVersions
<1>2. /\ IF Line(pl) = {} THEN c = NoEntry ELSE IsLast(c.id, Line(pl))
      /\ c.number = Cardinality(Line(pl))
      /\ \A i \in Line(pl) : Linked(i, Line(pl), log)
  BY DEF Chained
<1>3. \A i \in Line(pl) : i \in Nat /\ i < New /\ i # New
  BY LinesAreFinite
<1>4. \A i \in Line(pl) : Before(i, Line(pl)') = Before(i, Line(pl))
  <2>1. Line(pl)' = Line(pl) \/ Line(pl)' = Line(pl) \cup {New}
    BY CurrentAfter
  <2> QED
    BY <1>1, <1>3, <2>1 DEF Before
<1>5. ASSUME NEW i \in Line(pl)
      PROVE  Linked(i, Line(pl)', log')
  <2>1. log'[i] = log[i] /\ Before(i, Line(pl)') = Before(i, Line(pl))
    BY <1>1, <1>4
  <2>2. Linked(i, Line(pl), log)
    BY <1>2
  <2>3. Before(i, Line(pl)) # {} => log'[log[i].version.pred] = log[log[i].version.pred]
    BY <1>1, <2>2 DEF Linked, IsLast, Before
  <2> QED
    BY <2>1, <2>2, <2>3 DEF Linked
<1>6. CASE ~(event.kind = "entry" /\ w.place = pl)
  <2>1. memory'.current[pl] = c /\ Line(pl)' = Line(pl)
    BY <1>6, CurrentAfter
  <2> QED
    BY <1>2, <1>5, <2>1
<1>7. CASE event.kind = "entry" /\ w.place = pl
  <2>1. memory'.current[pl] = Ref(New, w) /\ Line(pl)' = Line(pl) \cup {New}
    BY <1>7, CurrentAfter
  <2>2. memory'.current[pl].id = New /\ memory'.current[pl].number = w.number
    BY <2>1 DEF Ref
  <2>3. /\ w.pred = c.id /\ w.number = c.number + 1
        /\ w.entry = IF c = NoEntry THEN New ELSE c.entry
        /\ w.value # c.value
    BY <1>7 DEF EventSound, WriteSound
  <2>4. IsLast(New, Line(pl)')
    BY <1>1, <1>3, <2>1 DEF IsLast
  <2>5. Cardinality(Line(pl)') = Cardinality(Line(pl)) + 1
    BY <1>3, <2>1, LinesAreFinite, FS_AddElement
  <2>6. Before(New, Line(pl)') = Line(pl)
    BY <1>1, <1>3, <2>1 DEF Before
  <2>7. IF Line(pl) = {}
          THEN w.pred = None /\ w.entry = New /\ w.value # Tombstone
          ELSE /\ IsLast(w.pred, Line(pl))
               /\ w.entry = log'[w.pred].version.entry
               /\ w.value # log'[w.pred].version.value
    <3>1. CASE Line(pl) = {}
      BY <2>3, <3>1, CurrentIsLast DEF NoEntry
    <3>2. CASE Line(pl) # {}
      <4>1. /\ IsLast(c.id, Line(pl)) /\ c # NoEntry
            /\ c.entry = log[c.id].version.entry /\ c.value = log[c.id].version.value
        BY <3>2, CurrentIsLast
      <4>2. log'[c.id] = log[c.id]
        BY <1>1, <4>1 DEF IsLast
      <4> QED
        BY <2>3, <3>2, <4>1, <4>2
    <3> QED
      BY <3>1, <3>2
  <2>8. w.number = Cardinality(Line(pl)) + 1
    BY <1>2, <2>3
  <2>9. ASSUME NEW i, i = New
        PROVE  Linked(i, Line(pl)', log')
    BY <1>1, <2>6, <2>7, <2>8, <2>9 DEF Linked
  <2>10. \A i \in Line(pl)' : Linked(i, Line(pl)', log')
    BY <1>5, <2>1, <2>9
  <2>11. memory'.current[pl].number = Cardinality(Line(pl)')
    BY <2>2, <2>5, <2>8
  <2> QED
    BY <2>1, <2>2, <2>4, <2>10, <2>11
<1> QED
  BY <1>6, <1>7

LEMMA Resolved ==
  ASSUME NEW a, NEW b, NEW c, NEW d, NEW z, NEW t,
         t = WithResolutions([versions |-> a, proposals |-> b, approvals |-> c,
                              resolutions |-> d], z)
  PROVE  t = [versions |-> a, proposals |-> b,
              approvals |-> Updated(c, z), resolutions |-> Updated(d, z)]
BY DEF WithResolutions

LEMMA Written ==
  ASSUME NEW a, NEW b, NEW c, NEW d, NEW x, NEW y, NEW t,
         t = [[versions |-> a, proposals |-> b, approvals |-> c, resolutions |-> d]
                EXCEPT !.versions = Insert(@, x, y)]
  PROVE  t = [versions |-> Insert(a, x, y), proposals |-> b, approvals |-> c, resolutions |-> d]
OBVIOUS

LEMMA Offered ==
  ASSUME NEW a, NEW b, NEW c, NEW d, NEW x, NEW y, NEW t,
         t = WithProposal([versions |-> a, proposals |-> b, approvals |-> c,
                           resolutions |-> d], x, y)
  PROVE  t = [versions |-> a, proposals |-> Insert(b, x, y),
              approvals |-> Insert(c, x, Pending), resolutions |-> d]
BY DEF WithProposal

(* The rows a commit adds to tables that tell the stream *)
LEMMA RowsCommit ==
  ASSUME IInv, NEW event, EventSound(event), Reduced',
         log' = Append(log, event), memory' = Reduce(memory, New, event),
         rows = ProvenRows, rows' = RowsAfter(New, event)
  PROVE  rows' = ProvenRows'
<1> USE DEF IInv
<1> DEFINE V == [i \in ProvenVersions |-> log[i].version]
           R == [p \in {q \in ProvenProposals : ProvenApproval(q) # Pending} |-> ProvenApproval(p)]
           RA == ResolutionRows(New, event)
<1>1. /\ event \in Events /\ New \in Nat /\ log'[New] = event /\ New \notin ProvenVersions
      /\ New \notin ProvenProposals
      /\ \A j \in ProvenVersions : log'[j] = log[j]
      /\ ProvenVersions' = ProvenVersions \cup (IF event.kind = "entry" THEN {New} ELSE {})
      /\ ProvenProposals' = ProvenProposals \cup (IF event.kind = "proposed" THEN {New} ELSE {})
  BY Grows, SetsGrow DEF EventSound, ProvenVersions, ProvenProposals
<1>2. rows = [versions |-> V, proposals |-> memory.proposals, approvals |-> memory.status,
              resolutions |-> R]
  BY DEF ProvenRows, Reduced
<1>3. ProvenRows' = [versions |-> V', proposals |-> memory'.proposals,
                     approvals |-> memory'.status, resolutions |-> R']
  BY DEF ProvenRows, Reduced
<1>4. V' = IF event.kind = "entry" THEN Insert(V, New, event.version) ELSE V
  <2>1. CASE event.kind = "entry"
    <3>1. Insert(V, New, event.version) =
            [i \in ProvenVersions \cup {New} |-> IF i = New THEN event.version ELSE V[i]]
      BY InsertedMap
    <3>2. \A i \in ProvenVersions' :
            log'[i].version = IF i = New THEN event.version ELSE V[i]
      BY <1>1, <2>1
    <3>3. V' = [i \in ProvenVersions' |-> log'[i].version]
      OBVIOUS
    <3> QED
      BY <1>1, <2>1, <3>1, <3>2, <3>3
  <2>2. CASE event.kind # "entry"
    BY <1>1, <2>2
  <2> QED
    BY <2>1, <2>2
<1>5. /\ memory'.proposals = IF event.kind = "proposed"
                               THEN Insert(memory.proposals, New, event.proposal)
                               ELSE memory.proposals
      /\ memory'.status = IF event.kind = "proposed"
                            THEN Insert(memory.status, New, Pending)
                            ELSE Updated(memory.status, RA)
  BY <1>1, MemoryAfter
<1>6. /\ DOMAIN Settles(event) \subseteq ProvenProposals
      /\ \A p \in DOMAIN Settles(event) : Settled(p) = {}
      /\ event.kind = "proposed" => DOMAIN Settles(event) = {}
  BY <1>1, OnlyPendingIsSettled, PendingIs, SettlesWhat
<1>7. /\ DOMAIN RA = DOMAIN Settles(event)
      /\ \A p \in DOMAIN RA : RA[p] # Pending
  BY <1>1 DEF ResolutionRows, Pending, None, New, LogTyped
<1>8. \A p \in ProvenProposals :
        ProvenApproval(p)' = IF p \in DOMAIN RA THEN RA[p] ELSE ProvenApproval(p)
  BY <1>1, <1>6, <1>7, ApprovalGrows
<1>9. ASSUME event.kind = "proposed", NEW p, p = New
      PROVE  ProvenApproval(p)' = Pending
  <2>1. Settled(p) = {}
    BY <1>1, <1>9 DEF OnlyProposedIsSettled, Settled
  <2>2. ProvenApproval(p)' = ProvenApproval(p)
    BY <1>1, <1>6, <1>9, ApprovalGrows
  <2> QED
    BY <2>1, <2>2, PendingMeans
<1>10. R' = Updated(R, RA)
  <2> DEFINE D == {q \in ProvenProposals : ProvenApproval(q) # Pending}
  <2>1. R' = [p \in {q \in ProvenProposals' : ProvenApproval(q)' # Pending} |-> ProvenApproval(p)']
    OBVIOUS
  <2>2. {q \in ProvenProposals' : ProvenApproval(q)' # Pending} = D \cup DOMAIN RA
    <3>1. {q \in ProvenProposals' : ProvenApproval(q)' # Pending}
            = {q \in ProvenProposals : ProvenApproval(q)' # Pending}
      <4>1. ASSUME NEW q \in ProvenProposals', ProvenApproval(q)' # Pending
            PROVE  q \in ProvenProposals
        BY <1>1, <1>9, <4>1
      <4> QED
        BY <1>1, <4>1
    <3> QED
      BY <1>6, <1>7, <1>8, <3>1
  <2>3. DOMAIN R = D /\ \A p \in D : R[p] = ProvenApproval(p)
    OBVIOUS
  <2>4. Updated(R, RA) = [p \in D \cup DOMAIN RA |-> IF p \in DOMAIN RA THEN RA[p] ELSE R[p]]
    BY <2>3 DEF Updated
  <2>5. \A p \in D \cup DOMAIN RA :
          ProvenApproval(p)' = IF p \in DOMAIN RA THEN RA[p] ELSE R[p]
    BY <1>6, <1>7, <1>8, <2>3
  <2> HIDE DEF RA, R
  <2> QED
    BY <2>1, <2>2, <2>4, <2>5
<1> HIDE DEF V, R, RA
<1>11. CASE event.kind = "entry"
  <2>1. rows' = WithResolutions([rows EXCEPT !.versions = Insert(@, New, event.version)], RA)
    BY <1>11 DEF RowsAfter, RA
  <2>2. rows' = [versions |-> Insert(V, New, event.version), proposals |-> memory.proposals,
                 approvals |-> Updated(memory.status, RA), resolutions |-> Updated(R, RA)]
    BY <1>2, <2>1, Written, Resolved
  <2> QED
    BY <1>3, <1>4, <1>5, <1>10, <1>11, <2>2
<1>12. CASE event.kind = "proposed"
  <2>1. rows' = WithProposal(rows, New, event.proposal)
    BY <1>12 DEF RowsAfter
  <2>3. rows' = [versions |-> V, proposals |-> Insert(memory.proposals, New, event.proposal),
                 approvals |-> Insert(memory.status, New, Pending), resolutions |-> R]
    BY <1>2, <2>1, Offered
  <2>2. R' = R
    <3>1. DOMAIN RA = {}
      BY <1>6, <1>7, <1>12
    <3> QED
      BY <1>10, <3>1 DEF Updated, R
  <2> QED
    BY <1>3, <1>4, <1>5, <1>12, <2>2, <2>3
<1>13. CASE event.kind = "rejected"
  <2>1. rows' = WithResolutions(rows, RA)
    BY <1>13 DEF RowsAfter, RA
  <2>2. rows' = [versions |-> V, proposals |-> memory.proposals,
                 approvals |-> Updated(memory.status, RA), resolutions |-> Updated(R, RA)]
    BY <1>2, <2>1, Resolved
  <2> QED
    BY <1>3, <1>4, <1>5, <1>10, <1>13, <2>2
<1> QED
  BY <1>1, <1>11, <1>12, <1>13, EventKinds

-----------------------------------------------------------------------------
(* Every step keeps the invariant. *)
LEMMA CommitKeeps ==
  ASSUME IInv, NEW event, Commit(event), EventSound(event)
  PROVE  IInv'
<1>1. /\ log' = Append(log, event) /\ memory' = Reduce(memory, New, event)
      /\ rows' = RowsAfter(New, event)
      /\ pointer' = memory'.current /\ status' = memory'.status
      /\ UNCHANGED <<serving, tampered>>
  BY DEF Commit, ReplaceCurrent, New
<1>2. LogTyped'
  BY <1>1, Grows DEF IInv, EventSound
<1>3. Reduced' /\ OnlyProposedIsSettled' /\ PendingIsCurrent' /\ Chained'
  BY <1>1, ReducedCommit, OnlyProposedCommit, PendingCommit, ChainedCommit
<1>4. PointersAreKnown'
  BY <1>1, <1>3, PointersCommit
<1>5. TablesTellTheStream'
  <2> SUFFICES ASSUME serving, ~tampered
               PROVE  rows' = ProvenRows'
    BY <1>1 DEF TablesTellTheStream
  <2>1. rows = ProvenRows
    BY DEF IInv, TablesTellTheStream
  <2> QED
    BY <1>1, <1>3, <2>1, RowsCommit
<1> QED
  BY <1>2, <1>3, <1>4, <1>5 DEF IInv

(* Without a new event the stream says what it said. *)
LEMMA SameStream ==
  ASSUME IInv, UNCHANGED <<log, memory>>
  PROVE  /\ LogTyped' /\ Reduced' /\ OnlyProposedIsSettled' /\ PendingIsCurrent' /\ Chained'
         /\ ProvenRows' = ProvenRows /\ ProvenVersions' = ProvenVersions
         /\ \A pl : Known(pl)' = Known(pl)
<1>1. ProvenVersions' = ProvenVersions /\ ProvenProposals' = ProvenProposals
  BY DEF ProvenVersions, ProvenProposals
<1>2. \A p : ProvenApproval(p)' = ProvenApproval(p) /\ Settled(p)' = Settled(p)
  BY DEF ProvenApproval, Settled
<1>3. \A pl : Line(pl)' = Line(pl)
  BY <1>1 DEF Line
<1>4. \A pl : Known(pl)' = Known(pl)
  BY <1>3 DEF Known
<1>5. LogTyped' /\ Reduced' /\ OnlyProposedIsSettled' /\ PendingIsCurrent'
  BY <1>1, <1>2 DEF IInv, LogTyped, Reduced, OnlyProposedIsSettled, PendingIsCurrent
<1>6. Chained'
  BY <1>3 DEF IInv, Chained, Linked, IsLast, Before
<1>7. ProvenRows' = ProvenRows
  BY <1>1, <1>2 DEF ProvenRows
<1> QED
  BY <1>1, <1>4, <1>5, <1>6, <1>7

LEMMA DriftIsKnown ==
  ASSUME IInv, NEW pl \in Places, NEW i \in ProvenVersions, log[i].version.place = pl
  PROVE  Ref(i, log[i].version) \in Known(pl) \cap Heads
<1>1. i \in Line(pl) /\ log[i].version \in Versions /\ i \in Nat
  BY VersionsTyped DEF IInv, Line
<1> QED
  BY <1>1 DEF Known, Ref, Heads, Versions

LEMMA NoEntryIsKnown ==
  ASSUME NEW pl
  PROVE  NoEntry \in Known(pl) \cap Heads
BY DEF Known, NoEntry, Heads, None, Operations

LEMMA OtherKeeps ==
  ASSUME IInv, OtherCommand \/ Start \/ Stop \/ Damage \/ UNCHANGED vars
  PROVE  IInv'
<1>1. UNCHANGED <<log, memory>>
  BY DEF OtherCommand, Start, Stop, Damage, ForgeRow, LoseRow, AlterRow, DriftPointer,
         DriftStatus, Tamper, vars
<1>2. /\ LogTyped' /\ Reduced' /\ OnlyProposedIsSettled' /\ PendingIsCurrent' /\ Chained'
      /\ ProvenRows' = ProvenRows /\ ProvenVersions' = ProvenVersions
      /\ \A pl : Known(pl)' = Known(pl)
  BY <1>1, SameStream
<1>3. CASE OtherCommand \/ Start
  <2>1. pointer' = memory.current /\ status' = memory.status
    BY <1>1, <1>3 DEF OtherCommand, Start, ReplaceCurrent
  <2>2. PointersAreKnown'
    BY <1>1, <1>2, <2>1 DEF IInv, PointersAreKnown, Reduced
  <2>3. TablesTellTheStream'
    <3>1. CASE OtherCommand
      BY <1>1, <1>2, <2>1, <3>1 DEF OtherCommand, IInv, TablesTellTheStream
    <3>2. CASE Start
      BY <1>1, <1>2, <2>1, <3>2 DEF Start, TablesTellTheStream
    <3> QED
      BY <1>3, <3>1, <3>2
  <2> QED
    BY <1>2, <2>2, <2>3 DEF IInv
<1>4. CASE Stop \/ UNCHANGED vars
  <2>1. UNCHANGED <<rows, pointer, status, tampered>> /\ (serving' => serving)
    BY <1>4 DEF Stop, vars
  <2> QED
    BY <1>1, <1>2, <2>1 DEF IInv, PointersAreKnown, TablesTellTheStream
<1>5. CASE Damage
  <2>1. tampered' = TRUE
    BY <1>5 DEF Damage, ForgeRow, LoseRow, AlterRow, DriftPointer, DriftStatus, Tamper
  <2>2. \/ UNCHANGED pointer
        \/ \E pl \in Places : \E ref \in Known(pl) \cap Heads :
             pointer' = [pointer EXCEPT ![pl] = ref]
    <3>1. ASSUME NEW pl \in Places, DriftPointer(pl, NoEntry)
          PROVE  \E ref \in Known(pl) \cap Heads : pointer' = [pointer EXCEPT ![pl] = ref]
      BY <3>1, NoEntryIsKnown DEF DriftPointer
    <3>2. ASSUME NEW pl \in Places, NEW i \in ProvenVersions, log[i].version.place = pl,
                 DriftPointer(pl, Ref(i, log[i].version))
          PROVE  \E ref \in Known(pl) \cap Heads : pointer' = [pointer EXCEPT ![pl] = ref]
      BY <3>2, DriftIsKnown DEF DriftPointer
    <3>3. ASSUME \/ \E t \in Tables : \/ ForgeRow(t)
                                      \/ \E id \in DOMAIN rows[t] : LoseRow(t, id) \/ AlterRow(t, id)
                 \/ \E p \in DOMAIN status :
                      \E to \in {Altered, Pending, [status |-> "rejected", event |-> p]} :
                        DriftStatus(p, to)
          PROVE  UNCHANGED pointer
      BY <3>3 DEF ForgeRow, LoseRow, AlterRow, DriftStatus
    <3> QED
      BY <1>5, <3>1, <3>2, <3>3 DEF Damage
  <2>3. PointersAreKnown'
    BY <1>1, <1>2, <2>2 DEF IInv, PointersAreKnown
  <2>4. TablesTellTheStream'
    BY <2>1 DEF TablesTellTheStream
  <2> QED
    BY <1>2, <2>3, <2>4 DEF IInv
<1> QED
  BY <1>3, <1>4, <1>5

LEMMA StepInv == IInv /\ [Next]_vars => IInv'
<1> SUFFICES ASSUME IInv, [Next]_vars
             PROVE  IInv'
  OBVIOUS
<1>1. CASE Commands
  BY <1>1, CommandsCommit, CommitKeeps
<1>2. CASE OtherCommand \/ Start \/ Stop \/ Damage \/ UNCHANGED vars
  BY <1>2, OtherKeeps
<1> QED
  BY <1>1, <1>2 DEF Next

LEMMA InitInv == Init => IInv
<1> SUFFICES ASSUME Init
             PROVE  IInv
  OBVIOUS
<1>1. log = << >> /\ memory = EmptyMemory /\ pointer = EmptyMemory.current /\ serving = FALSE
  BY DEF Init
<1>2. DOMAIN log = {} /\ ProvenVersions = {} /\ ProvenProposals = {} /\ \A pl : Line(pl) = {}
  BY <1>1 DEF ProvenVersions, ProvenProposals, Line
<1>3. LogTyped
  BY <1>1 DEF LogTyped
<1>4. /\ memory.current = [pl \in Places |-> NoEntry]
      /\ memory.proposals = << >> /\ memory.status = << >>
      /\ pointer = memory.current
  BY <1>1 DEF EmptyMemory
<1>5. Reduced
  <2>1. memory = [current |-> memory.current, proposals |-> memory.proposals,
                  status |-> memory.status]
    BY <1>1 DEF EmptyMemory
  <2>2. memory.current \in [Places -> Heads]
    BY <1>4, NoEntryIsKnown
  <2>3. << >> = [p \in ProvenProposals |-> log[p].proposal]
    BY <1>2
  <2>4. << >> = [p \in ProvenProposals |-> ProvenApproval(p)]
    BY <1>2
  <2> QED
    BY <1>4, <2>1, <2>2, <2>3, <2>4 DEF Reduced
<1>6. PointersAreKnown
  BY <1>4, <1>5, NoEntryIsKnown DEF PointersAreKnown, Reduced
<1>7. Chained
  <2>1. Cardinality({}) = 0 /\ NoEntry.number = 0
    BY FS_EmptySet DEF NoEntry
  <2>2. \A pl \in Places : memory.current[pl] = NoEntry
    BY <1>4
  <2> QED
    BY <1>2, <2>1, <2>2 DEF Chained
<1>8. OnlyProposedIsSettled /\ PendingIsCurrent /\ TablesTellTheStream
  BY <1>1, <1>2 DEF OnlyProposedIsSettled, PendingIsCurrent, TablesTellTheStream
<1> QED
  BY <1>3, <1>5, <1>6, <1>7, <1>8 DEF IInv

THEOREM Invariance == Spec => []IInv
BY InitInv, StepInv, PTL DEF Spec

(* The rows that commands, approvals and rejections wrote one by one are    *)
(* the rows the stream proves, in every table, for any number of events;    *)
(* and what startup put back after damage are these rows too.               *)
THEOREM TablesAlwaysTellTheStream == Spec => []TablesTellTheStream
<1>1. IInv => TablesTellTheStream
  BY DEF IInv
<1> QED
  BY <1>1, Invariance, PTL

LEMMA LastIsMax ==
  ASSUME NEW S \in SUBSET Nat, NEW m, IsLast(m, S)
  PROVE  LastOf(S) = m
<1>1. m \in S /\ \A y \in S : m >= y
  BY DEF IsLast
<1>2. PICK x : x = Max(S)
  OBVIOUS
<1>3. x \in S /\ \A y \in S : x >= y
  BY <1>1, <1>2 DEF Max
<1> QED
  BY <1>1, <1>2, <1>3 DEF LastOf

(* Whatever was damaged when a command ran, the versions of a key are one   *)
(* unbroken line of one entry.                                              *)
THEOREM HistoryIsAlwaysOneLine == Spec => []HistoryIsOneLine
<1>1. IInv => HistoryIsOneLine
  <2> SUFFICES ASSUME IInv, NEW pl \in Places
               PROVE  /\ memory.current[pl].id = LastOf(Line(pl))
                      /\ \A i \in Line(pl) :
                           LET v == log[i].version
                               earlier == {j \in Line(pl) : j < i}
                           IN  /\ v.number = Cardinality(earlier) + 1
                               /\ v.pred = LastOf(earlier)
                               /\ v.entry = IF earlier = {} THEN i ELSE log[v.pred].version.entry
                               /\ v.value # IF earlier = {} THEN Tombstone
                                            ELSE log[v.pred].version.value
    BY DEF HistoryIsOneLine
  <2>1. Line(pl) \in SUBSET Nat
    BY LinesAreFinite DEF IInv
  <2>2. memory.current[pl].id = LastOf(Line(pl))
    BY <2>1, LastIsMax DEF IInv, Chained, LastOf, NoEntry
  <2>3. ASSUME NEW i \in Line(pl)
        PROVE  LET v == log[i].version
                   earlier == Before(i, Line(pl))
               IN  /\ v.number = Cardinality(earlier) + 1
                   /\ v.pred = LastOf(earlier)
                   /\ v.entry = IF earlier = {} THEN i ELSE log[v.pred].version.entry
                   /\ v.value # IF earlier = {} THEN Tombstone ELSE log[v.pred].version.value
    <3>1. Linked(i, Line(pl), log)
      BY DEF IInv, Chained
    <3>2. Before(i, Line(pl)) \in SUBSET Nat
      BY <2>1 DEF Before
    <3> QED
      BY <3>1, <3>2, LastIsMax DEF Linked, LastOf
  <2> QED
    BY <2>2, <2>3 DEF Before
<1> QED
  BY <1>1, Invariance, PTL

-----------------------------------------------------------------------------
(* The promise: what the projection says in its terms *)
Held(pl) ==
    [value |-> memory.current[pl].value, edition |-> memory.current[pl].number,
     by |-> IF memory.current[pl] = NoEntry THEN None
            ELSE log[memory.current[pl].id].version.accepted]

Store == [pl \in Places |-> Held(pl)]

OfferOf(p) ==
    [id |-> p, place |-> memory.proposals[p].place,
     edition |-> memory.current[memory.proposals[p].place].number,
     value |-> memory.proposals[p].value]

OpenOffers == {OfferOf(p) : p \in PendingIn(memory)}

EverOffered == DOMAIN memory.proposals

(* The keys, offers and names after a commit *)
LEMMA HeldAfter ==
  ASSUME IInv, NEW event, Commit(event), EventSound(event), NEW pl \in Places
  PROVE  /\ event.kind = "entry" /\ event.version.place = pl =>
              Held(pl)' = [value |-> event.version.value, edition |-> Held(pl).edition + 1,
                           by |-> event.version.accepted]
         /\ ~(event.kind = "entry" /\ event.version.place = pl) => Held(pl)' = Held(pl)
<1>1. log' = Append(log, event) /\ memory' = Reduce(memory, New, event)
  BY DEF Commit, New
<1>2. log'[New] = event /\ \A j \in Line(pl) : log'[j] = log[j]
  BY <1>1, Grows DEF IInv, EventSound, Line, ProvenVersions
<1>3. CASE event.kind = "entry" /\ event.version.place = pl
  <2>1. memory'.current[pl] = Ref(New, event.version)
    BY <1>1, <1>3, CurrentAfter
  <2>2. New # None
    BY DEF IInv, LogTyped, New, None
  <2>3. /\ memory'.current[pl].value = event.version.value
        /\ memory'.current[pl].number = event.version.number
        /\ memory'.current[pl].id = New /\ memory'.current[pl] # NoEntry
    BY <2>1, <2>2 DEF Ref, NoEntry
  <2>4. event.version.number = Held(pl).edition + 1
    BY <1>3 DEF EventSound, WriteSound, Held
  <2> QED
    BY <1>2, <1>3, <2>3, <2>4 DEF Held
<1>4. CASE ~(event.kind = "entry" /\ event.version.place = pl)
  <2>1. memory'.current[pl] = memory.current[pl]
    BY <1>1, <1>4, CurrentAfter
  <2>2. memory.current[pl] # NoEntry => memory.current[pl].id \in Line(pl)
    BY CurrentIsLast DEF IsLast
  <2> QED
    BY <1>2, <1>4, <2>1, <2>2 DEF Held
<1> QED
  BY <1>3, <1>4

LEMMA PendingAfter ==
  ASSUME IInv, NEW event, Commit(event), EventSound(event)
  PROVE  /\ PendingIn(memory') = (PendingIn(memory) \ DOMAIN Settles(event))
                                    \cup (IF event.kind = "proposed" THEN {New} ELSE {})
         /\ EverOffered' = EverOffered \cup (IF event.kind = "proposed" THEN {New} ELSE {})
         /\ New \notin EverOffered /\ PendingIn(memory) \subseteq EverOffered
         /\ \A p \in PendingIn(memory) : memory'.proposals[p] = memory.proposals[p]
         /\ event.kind = "proposed" => memory'.proposals[New] = event.proposal
<1> USE DEF IInv
<1>1. event \in Events /\ New \in Nat /\ New # None
  BY DEF EventSound, LogTyped, New, None
<1>2. /\ memory'.proposals = IF event.kind = "proposed"
                               THEN Insert(memory.proposals, New, event.proposal)
                               ELSE memory.proposals
      /\ memory'.status = IF event.kind = "proposed"
                            THEN Insert(memory.status, New, Pending)
                            ELSE Updated(memory.status, ResolutionRows(New, event))
  BY <1>1, MemoryAfter DEF Commit, New
<1>3. DOMAIN memory.proposals = ProvenProposals /\ DOMAIN memory.status = ProvenProposals
  BY DEF Reduced
<1>4. New \notin ProvenProposals
  BY <1>1, Grows DEF ProvenProposals, LogTyped, New
<1>5. CASE event.kind = "proposed"
  <2>1. /\ memory'.proposals = [p \in ProvenProposals \cup {New} |->
                                  IF p = New THEN event.proposal ELSE memory.proposals[p]]
        /\ memory'.status = [p \in ProvenProposals \cup {New} |->
                               IF p = New THEN Pending ELSE memory.status[p]]
    BY <1>2, <1>3, <1>5, InsertedMap
  <2>2. DOMAIN Settles(event) = {}
    BY <1>1, <1>5, SettlesWhat
  <2> QED
    BY <1>3, <1>4, <1>5, <2>1, <2>2 DEF PendingIn, EverOffered
<1>6. CASE event.kind # "proposed"
  <2>1. DOMAIN ResolutionRows(New, event) = DOMAIN Settles(event)
    BY DEF ResolutionRows
  <2>2. \A p \in DOMAIN Settles(event) : ResolutionRows(New, event)[p] # Pending
    BY <1>1 DEF ResolutionRows, Pending
  <2>3. DOMAIN Settles(event) \subseteq ProvenProposals
    BY OnlyPendingIsSettled
  <2>4. memory'.status = [p \in ProvenProposals |->
                            IF p \in DOMAIN Settles(event) THEN ResolutionRows(New, event)[p]
                            ELSE memory.status[p]]
    BY <1>2, <1>3, <1>6, <2>1, <2>3, UpdatedMap
  <2> QED
    BY <1>2, <1>3, <1>4, <1>6, <2>2, <2>4 DEF PendingIn, EverOffered
<1> QED
  BY <1>5, <1>6

(* An offer stays what it is as long as its key does. *)
LEMMA OfferStays ==
  ASSUME IInv, NEW event, Commit(event), EventSound(event), NEW p \in PendingIn(memory),
         ~(event.kind = "entry" /\ event.version.place = memory.proposals[p].place)
  PROVE  OfferOf(p)' = OfferOf(p)
<1>1. memory.proposals[p].place \in Places
  BY PendingFacts DEF IInv, Proposals
<1>2. memory'.current[memory.proposals[p].place] = memory.current[memory.proposals[p].place]
  BY <1>1, CurrentAfter DEF Commit, New
<1>3. memory'.proposals[p] = memory.proposals[p]
  BY PendingAfter
<1> QED
  BY <1>2, <1>3 DEF OfferOf

LEMMA OffersAfter ==
  ASSUME IInv, NEW event, Commit(event), EventSound(event)
  PROVE  /\ event.kind = "entry" =>
              OpenOffers' = {o \in OpenOffers : o.place # event.version.place}
         /\ event.kind = "rejected" => OpenOffers' = OpenOffers \ {OfferOf(event.rejected)}
         /\ event.kind = "proposed" =>
              OpenOffers' = OpenOffers \cup
                {[id |-> New, place |-> event.proposal.place,
                  edition |-> memory.current[event.proposal.place].number,
                  value |-> event.proposal.value]}
<1>1. event \in Events
  BY DEF EventSound
<1>2. PendingIn(memory') = (PendingIn(memory) \ DOMAIN Settles(event))
                              \cup (IF event.kind = "proposed" THEN {New} ELSE {})
  BY PendingAfter
<1>3. OpenOffers' = {OfferOf(p)' : p \in PendingIn(memory')}
  BY DEF OpenOffers
<1>4. \A p : OfferOf(p).id = p /\ OfferOf(p).place = memory.proposals[p].place
  BY DEF OfferOf
<1>5. ASSUME event.kind = "entry"
      PROVE  OpenOffers' = {o \in OpenOffers : o.place # event.version.place}
  <2>1. PendingIn(memory') =
          {p \in PendingIn(memory) : memory.proposals[p].place # event.version.place}
    BY <1>2, <1>5, OnlyPendingIsSettled DEF IInv
  <2>2. \A p \in PendingIn(memory') : OfferOf(p)' = OfferOf(p)
    BY <2>1, OfferStays
  <2> QED
    BY <1>3, <1>4, <2>1, <2>2 DEF OpenOffers
<1>6. ASSUME event.kind # "entry"
      PROVE  \A p \in PendingIn(memory) : OfferOf(p)' = OfferOf(p)
  BY <1>6, OfferStays
<1>7. ASSUME event.kind = "rejected"
      PROVE  OpenOffers' = OpenOffers \ {OfferOf(event.rejected)}
  <2>1. PendingIn(memory') = PendingIn(memory) \ {event.rejected}
    BY <1>1, <1>2, <1>7, SettlesWhat
  <2> QED
    BY <1>3, <1>4, <1>6, <1>7, <2>1 DEF OpenOffers
<1>8. ASSUME event.kind = "proposed"
      PROVE  OpenOffers' = OpenOffers \cup
               {[id |-> New, place |-> event.proposal.place,
                 edition |-> memory.current[event.proposal.place].number,
                 value |-> event.proposal.value]}
  <2>1. PendingIn(memory') = PendingIn(memory) \cup {New}
    BY <1>1, <1>2, <1>8, SettlesWhat
  <2>2. event.proposal.place \in Places
    BY <1>1, <1>8, EventKinds DEF Proposals
  <2>3. memory'.current[event.proposal.place] = memory.current[event.proposal.place]
    BY <1>8, <2>2, CurrentAfter DEF Commit, New
  <2>4. memory'.proposals[New] = event.proposal
    BY <1>8, PendingAfter
  <2>5. PICK n : n = New
    OBVIOUS
  <2>6. OfferOf(n)' = [id |-> n, place |-> event.proposal.place,
                       edition |-> memory.current[event.proposal.place].number,
                       value |-> event.proposal.value]
    BY <2>3, <2>4, <2>5 DEF OfferOf
  <2> QED
    BY <1>3, <1>6, <1>8, <2>1, <2>5, <2>6 DEF OpenOffers
<1> QED
  BY <1>5, <1>7, <1>8

(* A commit is one step of the promise: an entry version changes its key,   *)
(* from a write or from the offer it accepts, and withdraws the other       *)
(* offers for it; a proposal offers; a rejection declines.                  *)
ChangeStep(pl, v, by) ==
    /\ v # Store[pl].value
    /\ Store' = [Store EXCEPT ![pl] = [value |-> v, edition |-> @.edition + 1, by |-> by]]
    /\ OpenOffers' = {o \in OpenOffers : o.place # pl}
    /\ EverOffered' = EverOffered

LEMMA EntryChanges ==
  ASSUME IInv, NEW event, Commit(event), EventSound(event), event.kind = "entry"
  PROVE  LET v == event.version IN
         /\ v.place \in Places /\ v.value \in Operations
         /\ ChangeStep(v.place, v.value, v.accepted)
         /\ \/ v.accepted = None
            \/ /\ OfferOf(v.accepted) \in OpenOffers
               /\ OfferOf(v.accepted).id = v.accepted /\ OfferOf(v.accepted).place = v.place
               /\ OfferOf(v.accepted).value = v.value
               /\ OfferOf(v.accepted).edition = Store[v.place].edition
<1> DEFINE v == event.version
<1>1. v \in Versions /\ v.place \in Places /\ v.value \in Operations
  BY EventKinds DEF EventSound, Versions
<1>2. WriteSound(event)
  BY DEF EventSound
<1>3. Store[v.place].value = memory.current[v.place].value
      /\ Store[v.place].edition = memory.current[v.place].number
  BY <1>1 DEF Store, Held
<1>4. v.value # Store[v.place].value
  BY <1>2, <1>3 DEF WriteSound
<1>5. Store' = [Store EXCEPT ![v.place] =
                  [value |-> v.value, edition |-> @.edition + 1, by |-> v.accepted]]
  <2>1. Store' = [pl \in Places |-> Held(pl)']
    BY DEF Store
  <2>2. \A pl \in Places :
          Held(pl)' = IF pl = v.place
                        THEN [value |-> v.value, edition |-> Held(pl).edition + 1,
                              by |-> v.accepted]
                        ELSE Held(pl)
    BY HeldAfter
  <2> QED
    BY <1>1, <2>1, <2>2 DEF Store
<1>6. OpenOffers' = {o \in OpenOffers : o.place # v.place} /\ EverOffered' = EverOffered
  BY OffersAfter, PendingAfter
<1>7. ASSUME v.accepted # None
      PROVE  /\ OfferOf(v.accepted) \in OpenOffers
             /\ OfferOf(v.accepted).id = v.accepted /\ OfferOf(v.accepted).place = v.place
             /\ OfferOf(v.accepted).value = v.value
             /\ OfferOf(v.accepted).edition = Store[v.place].edition
  BY <1>2, <1>3, <1>7 DEF WriteSound, OfferOf, OpenOffers
<1> QED
  BY <1>1, <1>4, <1>5, <1>6, <1>7 DEF ChangeStep

LEMMA StoreStays ==
  ASSUME IInv, NEW event, Commit(event), EventSound(event), event.kind # "entry"
  PROVE  Store' = Store
<1>1. Store' = [pl \in Places |-> Held(pl)']
  BY DEF Store
<1>2. \A pl \in Places : Held(pl)' = Held(pl)
  BY HeldAfter
<1> QED
  BY <1>1, <1>2 DEF Store

LEMMA ProposedOffers ==
  ASSUME IInv, NEW event, Commit(event), EventSound(event), event.kind = "proposed"
  PROVE  LET o == event.proposal IN
         /\ o.place \in Places /\ o.value \in Operations /\ New \in Ids
         /\ New \notin EverOffered /\ o.value # Store[o.place].value
         /\ EverOffered' = EverOffered \cup {New}
         /\ OpenOffers' = OpenOffers \cup
              {[id |-> New, place |-> o.place, edition |-> Store[o.place].edition,
                value |-> o.value]}
         /\ Store' = Store
<1> DEFINE o == event.proposal
<1>1. o.place \in Places /\ o.value \in Operations
  BY EventKinds DEF EventSound, Proposals
<1>2. New \in Ids
  BY DEF Commit, New, Ids, IInv, LogTyped
<1>3. Store[o.place].value = memory.current[o.place].value
      /\ Store[o.place].edition = memory.current[o.place].number
  BY <1>1 DEF Store, Held
<1>4. o.value # Store[o.place].value
  BY <1>3 DEF EventSound, OfferSound
<1>5. /\ EverOffered' = EverOffered \cup {New} /\ New \notin EverOffered
  BY PendingAfter
<1>6. OpenOffers' = OpenOffers \cup
        {[id |-> New, place |-> o.place, edition |-> Store[o.place].edition,
          value |-> o.value]}
  BY <1>3, OffersAfter
<1> QED
  BY <1>1, <1>2, <1>4, <1>5, <1>6, StoreStays

LEMMA RejectedDeclines ==
  ASSUME IInv, NEW event, Commit(event), EventSound(event), event.kind = "rejected"
  PROVE  LET o == OfferOf(event.rejected) IN
         /\ o \in OpenOffers /\ o.edition = Store[o.place].edition
         /\ OpenOffers' = OpenOffers \ {o} /\ Store' = Store /\ EverOffered' = EverOffered
<1> DEFINE p == event.rejected
<1>1. p \in PendingIn(memory)
  BY DEF EventSound
<1>2. memory.proposals[p].place \in Places
  BY <1>1, PendingFacts DEF IInv, Proposals
<1>3. OfferOf(p) \in OpenOffers /\ OfferOf(p).edition = Store[OfferOf(p).place].edition
  BY <1>1, <1>2 DEF OfferOf, OpenOffers, Store, Held
<1>4. OpenOffers' = OpenOffers \ {OfferOf(p)}
  BY OffersAfter
<1>5. EverOffered' = EverOffered
  BY PendingAfter
<1> QED
  BY <1>3, <1>4, <1>5, StoreStays

PromiseVars == <<Store, OpenOffers, EverOffered>>

LEMMA CommitPromises ==
  ASSUME IInv, NEW event, Commit(event), EventSound(event)
  PROVE  Promise!Next
<1>1. CASE event.kind = "entry"
  <2> DEFINE v == event.version
  <2>1. /\ v.place \in Places /\ v.value \in Operations
        /\ ChangeStep(v.place, v.value, v.accepted)
    BY <1>1, EntryChanges
  <2>2. CASE v.accepted = None
    <3>1. Promise!Write(v.place, v.value)
      BY <2>1, <2>2 DEF ChangeStep, Promise!Write, Promise!Change, Promise!NoOffer, None,
           Store, Held, OpenOffers, OfferOf, EverOffered
    <3> QED
      BY <2>1, <3>1 DEF Promise!Next, Operations
  <2>3. CASE v.accepted # None
    <3>1. PICK o \in OpenOffers : /\ o.id = v.accepted /\ o.place = v.place
                                  /\ o.value = v.value
                                  /\ o.edition = Store[v.place].edition
      BY <1>1, <2>3, EntryChanges
    <3>2. o.edition = Store[o.place].edition /\ ChangeStep(o.place, o.value, o.id)
      BY <2>1, <3>1
    <3>3. Promise!Approve(o)
      BY <3>2 DEF ChangeStep, Promise!Approve, Promise!Change,
           Store, Held, OpenOffers, OfferOf, EverOffered
    <3> QED
      BY <3>1, <3>3 DEF Promise!Next, OpenOffers, OfferOf
  <2> QED
    BY <2>2, <2>3
<1>2. CASE event.kind = "proposed"
  <2> DEFINE o == event.proposal
  <2>1. PICK n : n = New
    OBVIOUS
  <2>2. /\ o.place \in Places /\ o.value \in Operations /\ n \in Ids
        /\ n \notin EverOffered /\ o.value # Store[o.place].value
        /\ EverOffered' = EverOffered \cup {n}
        /\ OpenOffers' = OpenOffers \cup
             {[id |-> n, place |-> o.place, edition |-> Store[o.place].edition,
               value |-> o.value]}
        /\ Store' = Store
    BY <1>2, <2>1, ProposedOffers
  <2>3. Promise!Offer(n, o.place, o.value)
    BY <2>2 DEF Promise!Offer, Store, Held, OpenOffers, OfferOf, EverOffered
  <2> QED
    BY <2>2, <2>3 DEF Promise!Next, Operations
<1>3. CASE event.kind = "rejected"
  <2>1. PICK o : o = OfferOf(event.rejected)
    OBVIOUS
  <2>2. /\ o \in OpenOffers /\ o.edition = Store[o.place].edition
        /\ OpenOffers' = OpenOffers \ {o} /\ Store' = Store /\ EverOffered' = EverOffered
    BY <1>3, <2>1, RejectedDeclines
  <2>3. Promise!Decline(o)
    BY <2>2 DEF Promise!Decline, Store, Held, OpenOffers, OfferOf, EverOffered
  <2> QED
    BY <2>2, <2>3 DEF Promise!Next, OpenOffers, OfferOf
<1> QED
  BY <1>1, <1>2, <1>3, EventKinds DEF EventSound

LEMMA PromiseStep == IInv /\ [Next]_vars => [Promise!Next]_PromiseVars
<1> SUFFICES ASSUME IInv, [Next]_vars
             PROVE  Promise!Next \/ UNCHANGED PromiseVars
  OBVIOUS
<1>1. CASE Commands
  BY <1>1, CommandsCommit, CommitPromises
<1>2. CASE OtherCommand \/ Start \/ Stop \/ Damage \/ UNCHANGED vars
  <2>1. UNCHANGED <<log, memory>>
    BY <1>2 DEF OtherCommand, Start, Stop, Damage, ForgeRow, LoseRow, AlterRow, DriftPointer,
         DriftStatus, Tamper, vars
  <2> QED
    BY <2>1 DEF PromiseVars, Store, Held, OpenOffers, OfferOf, EverOffered, PendingIn
<1> QED
  BY <1>1, <1>2 DEF Next

LEMMA PromiseInit == Init => Promise!Init
<1> SUFFICES ASSUME Init
             PROVE  Promise!Init
  OBVIOUS
<1>1. /\ memory.current = [pl \in Places |-> NoEntry]
      /\ memory.proposals = << >> /\ memory.status = << >>
  BY DEF Init, EmptyMemory
<1>2. DOMAIN memory.proposals = {} /\ PendingIn(memory) = {}
  BY <1>1 DEF PendingIn
<1>3. \A pl \in Places : Held(pl) = [value |-> Tombstone, edition |-> 0, by |-> None]
  BY <1>1 DEF Held, NoEntry
<1>4. Store = [pl \in Places |-> [value |-> Tombstone, edition |-> 0, by |-> None]]
  BY <1>3 DEF Store
<1>5. OpenOffers = {} /\ EverOffered = {}
  BY <1>2 DEF OpenOffers, EverOffered
<1> QED
  BY <1>4, <1>5 DEF Promise!Init, Promise!NoOffer, None, Store, Held, OpenOffers, OfferOf,
       EverOffered

(* Whatever is damaged, lost, restarted or repaired, a key changes only when *)
(* the human writes it or approves an offer that was made for what the key   *)
(* held, and every offer is decided at most once.                            *)
THEOREM MemoryKeepsItsPromise == Spec => KeepsPromise
BY PromiseInit, PromiseStep, Invariance, PTL
DEF Spec, KeepsPromise, Promise!Spec, PromiseVars, Store, Held, OpenOffers, OfferOf, EverOffered

-----------------------------------------------------------------------------
(* Induction, over the least counterexample *)

LEMMA Least ==
  ASSUME NEW S \in SUBSET Nat, S # {}
  PROVE  \E m \in S : \A k \in S : m <= k
<1>1. PICK m \in S : \A k \in S : ~ (<<k, m>> \in OpToRel(<, Nat))
  BY NatLessThanWellFounded, WFMin
<1>2. \A k \in S : ~ (k < m)
  BY <1>1 DEF OpToRel
<1> QED
  BY <1>2

-----------------------------------------------------------------------------
(* Sorting *)

StrictOrder(R, S) ==
    /\ \A x \in S : <<x, x>> \notin R
    /\ \A x, y \in S : x # y => <<x, y>> \in R \/ <<y, x>> \in R
    /\ \A x, y, z \in S : <<x, y>> \in R /\ <<y, z>> \in R => <<x, z>> \in R

Rank(R, S, x) == Cardinality({y \in S : <<y, x>> \in R})

LineOf(R, S) == [j \in 1 .. Cardinality(S) |-> CHOOSE x \in S : Rank(R, S, x) = j - 1]

LEMMA RanksDiffer ==
  ASSUME NEW S, IsFiniteSet(S), NEW R, StrictOrder(R, S), NEW x \in S, NEW y \in S,
         <<x, y>> \in R
  PROVE  Rank(R, S, x) < Rank(R, S, y)
<1> DEFINE A == {z \in S : <<z, x>> \in R}
           B == {z \in S : <<z, y>> \in R}
<1>1. A \subseteq B /\ x \in B /\ x \notin A /\ B \in SUBSET S
  BY DEF StrictOrder
<1>2. IsFiniteSet(B)
  BY <1>1, FS_Subset
<1>3. A \in SUBSET B /\ A # B
  BY <1>1
<1>4. IsFiniteSet(A) /\ Cardinality(A) <= Cardinality(B) /\ Cardinality(A) # Cardinality(B)
  BY <1>2, <1>3, FS_Subset
<1>5. Cardinality(A) \in Nat /\ Cardinality(B) \in Nat
  BY <1>2, <1>4, FS_CardinalityType
<1> QED
  BY <1>4, <1>5 DEF Rank

LEMMA RanksAreBelow ==
  ASSUME NEW S, IsFiniteSet(S), NEW R, StrictOrder(R, S), NEW x \in S
  PROVE  Cardinality(S) \in Nat /\ Rank(R, S, x) \in 0 .. Cardinality(S) - 1
<1> DEFINE A == {z \in S : <<z, x>> \in R}
<1>1. A \in SUBSET (S \ {x})
  BY DEF StrictOrder
<1>2. IsFiniteSet(S \ {x}) /\ Cardinality(S \ {x}) = Cardinality(S) - 1
  BY FS_RemoveElement
<1>3. IsFiniteSet(A) /\ Cardinality(A) <= Cardinality(S \ {x})
  BY <1>1, <1>2, FS_Subset
<1>4. Cardinality(A) \in Nat /\ Cardinality(S) \in Nat
  BY <1>3, FS_CardinalityType
<1> QED
  BY <1>2, <1>3, <1>4 DEF Rank

(* Every place of the line is somebody's, and everybody has one. *)
LEMMA LineIsSorted ==
  ASSUME NEW S, IsFiniteSet(S), NEW R, StrictOrder(R, S)
  PROVE  /\ Cardinality(S) \in Nat
         /\ \A j \in 1 .. Cardinality(S) :
              LineOf(R, S)[j] \in S /\ Rank(R, S, LineOf(R, S)[j]) = j - 1
         /\ \A x \in S : Rank(R, S, x) + 1 \in 1 .. Cardinality(S)
                           /\ LineOf(R, S)[Rank(R, S, x) + 1] = x
<1> DEFINE N == Cardinality(S)
           f == [x \in S |-> Rank(R, S, x) + 1]
<1>1. N \in Nat /\ IsFiniteSet(1 .. N) /\ Cardinality(1 .. N) = N
  <2>1. N \in Nat
    BY FS_CardinalityType
  <2> QED
    BY <2>1, FS_Interval
<1>2. \A x \in S : Rank(R, S, x) \in 0 .. N - 1
  BY RanksAreBelow
<1>3. \A x, y \in S : Rank(R, S, x) = Rank(R, S, y) => x = y
  <2> SUFFICES ASSUME NEW x \in S, NEW y \in S, x # y
               PROVE  Rank(R, S, x) # Rank(R, S, y)
    OBVIOUS
  <2>1. <<x, y>> \in R \/ <<y, x>> \in R
    BY DEF StrictOrder
  <2> QED
    BY <2>1, <1>1, <1>2, RanksDiffer
<1>4. f \in Injection(S, 1 .. N)
  <2>1. f \in [S -> 1 .. N]
    BY <1>1, <1>2
  <2>2. \A x, y \in S : f[x] = f[y] => x = y
    BY <1>1, <1>2, <1>3
  <2> QED
    BY <2>1, <2>2 DEF Injection, IsInjective
<1>5. f \in Surjection(S, 1 .. N)
  BY <1>1, <1>4, FS_Injection
<1>6. \A j \in 1 .. N : \E x \in S : Rank(R, S, x) = j - 1
  <2> SUFFICES ASSUME NEW j \in 1 .. N
               PROVE  \E x \in S : Rank(R, S, x) = j - 1
    OBVIOUS
  <2>1. PICK x \in S : f[x] = j
    BY <1>5 DEF Surjection
  <2> QED
    BY <2>1, <1>1, <1>2
<1>7. \A j \in 1 .. N : LineOf(R, S)[j] \in S /\ Rank(R, S, LineOf(R, S)[j]) = j - 1
  BY <1>6 DEF LineOf
<1>8. ASSUME NEW x \in S
      PROVE  Rank(R, S, x) + 1 \in 1 .. N /\ LineOf(R, S)[Rank(R, S, x) + 1] = x
  <2>1. PICK j : j = Rank(R, S, x) + 1
    OBVIOUS
  <2>2. j \in 1 .. N /\ j - 1 = Rank(R, S, x)
    BY <2>1, <1>1, <1>2
  <2>3. LineOf(R, S)[j] \in S /\ Rank(R, S, LineOf(R, S)[j]) = Rank(R, S, x)
    BY <2>2, <1>7
  <2> QED
    BY <2>1, <2>2, <2>3, <1>3
<1> QED
  BY <1>1, <1>7, <1>8

LEMMA PlaceInLine ==
  ASSUME NEW S, IsFiniteSet(S), NEW R, StrictOrder(R, S),
         NEW x \in S, NEW j \in 1 .. Cardinality(S), Rank(R, S, x) = j - 1
  PROVE  LineOf(R, S)[j] = x
<1>1. LineOf(R, S)[Rank(R, S, x) + 1] = x /\ Cardinality(S) \in Nat
  BY LineIsSorted
<1>2. Rank(R, S, x) + 1 = j
  BY <1>1
<1> QED
  BY <1>1, <1>2

Rising(S) == {p \in S \X S : p[1] < p[2]}
Falling(S) == {p \in S \X S : p[1] > p[2]}

LEMMA NumbersAreOrdered ==
  ASSUME NEW S \in SUBSET Nat
  PROVE  StrictOrder(Rising(S), S) /\ StrictOrder(Falling(S), S)
BY DEF StrictOrder, Rising, Falling

LEMMA SortedUp ==
  ASSUME NEW S \in SUBSET Nat, IsFiniteSet(S)
  PROVE  /\ Sorted(S, <) = LineOf(Rising(S), S)
         /\ \A x \in S : Rank(Rising(S), S, x) = Cardinality({y \in S : y < x})
<1>1. \A x \in S : {y \in S : <<y, x>> \in Rising(S)} = {y \in S : y < x}
  BY DEF Rising
<1>2. \A x \in S : Rank(Rising(S), S, x) = Cardinality({y \in S : y < x})
  BY <1>1 DEF Rank
<1>3. ASSUME NEW j \in 1 .. Cardinality(S)
      PROVE  (CHOOSE x \in S : Cardinality({y \in S : y < x}) = j - 1) = LineOf(Rising(S), S)[j]
  <2>1. PICK x : x = CHOOSE z \in S : Cardinality({y \in S : y < z}) = j - 1
    OBVIOUS
  <2>2. /\ LineOf(Rising(S), S)[j] \in S
        /\ Rank(Rising(S), S, LineOf(Rising(S), S)[j]) = j - 1
    BY NumbersAreOrdered, LineIsSorted
  <2>3. x \in S /\ Rank(Rising(S), S, x) = j - 1
    BY <2>1, <2>2, <1>2
  <2> QED
    BY <2>1, <2>3, NumbersAreOrdered, PlaceInLine
<1> QED
  BY <1>2, <1>3 DEF Sorted, LineOf

LEMMA SortedDown ==
  ASSUME NEW S \in SUBSET Nat, IsFiniteSet(S)
  PROVE  /\ Sorted(S, >) = LineOf(Falling(S), S)
         /\ \A x \in S : Rank(Falling(S), S, x) = Cardinality({y \in S : y > x})
<1>1. \A x \in S : {y \in S : <<y, x>> \in Falling(S)} = {y \in S : y > x}
  BY DEF Falling
<1>2. \A x \in S : Rank(Falling(S), S, x) = Cardinality({y \in S : y > x})
  BY <1>1 DEF Rank
<1>3. ASSUME NEW j \in 1 .. Cardinality(S)
      PROVE  (CHOOSE x \in S : Cardinality({y \in S : y > x}) = j - 1) = LineOf(Falling(S), S)[j]
  <2>1. PICK x : x = CHOOSE z \in S : Cardinality({y \in S : y > z}) = j - 1
    OBVIOUS
  <2>2. /\ LineOf(Falling(S), S)[j] \in S
        /\ Rank(Falling(S), S, LineOf(Falling(S), S)[j]) = j - 1
    BY NumbersAreOrdered, LineIsSorted
  <2>3. x \in S /\ Rank(Falling(S), S, x) = j - 1
    BY <2>1, <2>2, <1>2
  <2> QED
    BY <2>1, <2>3, NumbersAreOrdered, PlaceInLine
<1> QED
  BY <1>2, <1>3 DEF Sorted, LineOf

-----------------------------------------------------------------------------
(* What else holds of the stream and of the immutable rows *)

Bounded == Len(log) <= MaxEvents

SettledOnce == \A p \in ProvenProposals : \A i, j \in Settled(p) : i = j

(* A version that was proposed is what the proposal says, and a proposal is *)
(* for an earlier version of its key.                                       *)
Sourced ==
    /\ \A i \in ProvenVersions :
         LET v == log[i].version IN
         v.accepted # None =>
           /\ v.accepted \in ProvenProposals /\ v.accepted < i
           /\ v.accepted \in DOMAIN Settles(log[i])
           /\ log[v.accepted].proposal = [place |-> v.place, expected |-> v.pred, value |-> v.value]
    /\ \A p \in ProvenProposals :
         LET o == log[p].proposal IN o.expected # None => o.expected \in Line(o.place) /\ o.expected < p

(* Nobody can make up a row: it is what was written, or seen to be altered. *)
Tabled ==
    rows = [versions |-> rows.versions, proposals |-> rows.proposals,
            approvals |-> rows.approvals, resolutions |-> rows.resolutions]

VersionsHonest ==
    \A i \in DOMAIN rows.versions :
      \/ rows.versions[i] = Altered
      \/ i \in ProvenVersions /\ rows.versions[i] = log[i].version

ProposalsHonest ==
    \A p \in DOMAIN rows.proposals :
      \/ rows.proposals[p] = Altered
      \/ p \in ProvenProposals /\ rows.proposals[p] = log[p].proposal

ApprovalsHonest ==
    \A p \in DOMAIN rows.approvals :
      \/ rows.approvals[p] = Altered
      \/ p \in ProvenProposals /\ rows.approvals[p] = ProvenApproval(p)

RowsHonest == Tabled /\ VersionsHonest /\ ProposalsHonest /\ ApprovalsHonest

SInv == Bounded /\ SettledOnce /\ Sourced /\ RowsHonest

LEMMA SourcedCommit ==
  ASSUME IInv, SInv, NEW event, EventSound(event), Commit(event)
  PROVE  Bounded' /\ SettledOnce' /\ Sourced'
<1> USE DEF IInv, SInv
<1>1. /\ event \in Events /\ log' = Append(log, event) /\ New <= MaxEvents
      /\ memory' = Reduce(memory, New, event)
  BY DEF EventSound, Commit, New
<1>2. /\ New \in Nat /\ log'[New] = event /\ \A j \in DOMAIN log : log'[j] = log[j]
      /\ ProvenProposals' = ProvenProposals \cup (IF event.kind = "proposed" THEN {New} ELSE {})
      /\ ProvenVersions' = ProvenVersions \cup (IF event.kind = "entry" THEN {New} ELSE {})
      /\ \A pl : Line(pl)' = Line(pl) \cup
           (IF event.kind = "entry" /\ event.version.place = pl THEN {New} ELSE {})
      /\ \A p : Settled(p)' = Settled(p) \cup
           (IF p \in DOMAIN Settles(event) THEN {New} ELSE {})
      /\ New \notin ProvenProposals /\ New \notin ProvenVersions
  BY <1>1, Grows, SetsGrow DEF ProvenProposals, ProvenVersions
<1>3. Bounded'
  <2>1. Len(log') = New
    BY <1>1 DEF LogTyped, New
  <2> QED
    BY <1>1, <2>1 DEF Bounded
<1>4. SettledOnce'
  <2> SUFFICES ASSUME NEW p \in ProvenProposals'
               PROVE  \A i, j \in Settled(p)' : i = j
    BY DEF SettledOnce
  <2>1. CASE p \in DOMAIN Settles(event)
    <3>1. Settled(p) = {}
      BY <2>1, OnlyPendingIsSettled, PendingIs
    <3> QED
      BY <1>2, <3>1
  <2>2. CASE p \notin DOMAIN Settles(event)
    <3>1. Settled(p)' = Settled(p)
      BY <1>2, <2>2
    <3>2. p \notin ProvenProposals => Settled(p) = {}
      BY DEF Settled, OnlyProposedIsSettled
    <3> QED
      BY <3>1, <3>2 DEF SettledOnce
  <2> QED
    BY <2>1, <2>2
<1>5. \A i \in ProvenProposals \cup ProvenVersions : log'[i] = log[i]
  BY <1>2 DEF ProvenProposals, ProvenVersions
<1>6. ASSUME NEW i \in ProvenVersions', log'[i].version.accepted # None
      PROVE  LET v == log'[i].version IN
             /\ v.accepted \in ProvenProposals' /\ v.accepted < i
             /\ v.accepted \in DOMAIN Settles(log'[i])
             /\ log'[v.accepted].proposal =
                  [place |-> v.place, expected |-> v.pred, value |-> v.value]
  <2> DEFINE v == log'[i].version
  <2>1. CASE i \in ProvenVersions
    BY <1>2, <1>5, <1>6, <2>1 DEF Sourced
  <2>2. CASE i = New /\ event.kind = "entry"
    <3>1. v = event.version /\ v \in Versions
      BY <1>1, <1>2, <2>2, EventKinds
    <3>2. /\ v.accepted \in PendingIn(memory)
          /\ memory.proposals[v.accepted].place = v.place
          /\ memory.proposals[v.accepted].value = v.value
          /\ v.pred = memory.current[v.place].id
      BY <1>6, <2>2, <3>1 DEF EventSound, WriteSound
    <3>3. /\ v.accepted \in ProvenProposals /\ v.accepted < New
          /\ memory.proposals[v.accepted] = log[v.accepted].proposal
          /\ memory.proposals[v.accepted] \in Proposals
          /\ memory.proposals[v.accepted].expected = v.pred
      BY <3>2, PendingFacts
    <3>4. v.accepted \in DOMAIN Settles(event)
      BY <1>1, <1>6, <2>2, <3>1, SettlesWhat
    <3>5. log[v.accepted].proposal = [place |-> v.place, expected |-> v.pred, value |-> v.value]
      BY <3>2, <3>3 DEF Proposals
    <3> QED
      BY <1>2, <1>5, <2>2, <3>3, <3>4, <3>5
  <2> QED
    BY <1>2, <2>1, <2>2
<1>7. ASSUME NEW p \in ProvenProposals', NEW o, o = log'[p].proposal, o.expected # None
      PROVE  /\ o.expected \in ProvenVersions' /\ log'[o.expected].version.place = o.place
             /\ o.expected < p
  <2>1. CASE p \in ProvenProposals
    <3>1. o = log[p].proposal
      BY <1>5, <1>7, <2>1
    <3>2. o.expected \in Line(o.place) /\ o.expected < p
      BY <1>7, <2>1, <3>1 DEF Sourced
    <3> QED
      BY <1>2, <1>5, <3>2 DEF Line
  <2>2. CASE p = New /\ event.kind = "proposed"
    <3>1. o = event.proposal /\ o.place \in Places /\ o.expected = memory.current[o.place].id
      BY <1>1, <1>2, <1>7, <2>2, EventKinds DEF EventSound, OfferSound, Proposals
    <3>2. o.expected \in Line(o.place)
      BY <1>7, <3>1, CurrentIsLast DEF IsLast, NoEntry
    <3>3. o.expected < New
      BY <3>2, LinesAreFinite
    <3> QED
      BY <1>2, <1>5, <2>2, <3>2, <3>3 DEF Line
  <2> QED
    BY <1>2, <2>1, <2>2
<1>8. Sourced'
  <2>1. \A p \in ProvenProposals' :
          LET o == log'[p].proposal IN
          o.expected # None => /\ o.expected \in ProvenVersions'
                               /\ log'[o.expected].version.place = o.place /\ o.expected < p
    BY <1>7
  <2> QED
    BY <1>6, <2>1 DEF Sourced, Line
<1> QED
  BY <1>3, <1>4, <1>8

LEMMA ApprovalsCommit ==
  ASSUME IInv, SInv, NEW event, EventSound(event), Commit(event)
  PROVE  ApprovalsHonest'
<1> USE DEF IInv, SInv, RowsHonest
<1> DEFINE RA == ResolutionRows(New, event)
<1>1. /\ event \in Events /\ log' = Append(log, event) /\ rows' = RowsAfter(New, event)
  BY DEF EventSound, Commit, New
<1>2. /\ New \in Nat /\ New \notin ProvenProposals /\ New \notin DOMAIN log
      /\ ProvenProposals' = ProvenProposals \cup (IF event.kind = "proposed" THEN {New} ELSE {})
      /\ DOMAIN RA = DOMAIN Settles(event)
  BY <1>1, Grows, SetsGrow DEF ProvenProposals, ResolutionRows
<1>3. rows = [versions |-> rows.versions, proposals |-> rows.proposals,
              approvals |-> rows.approvals, resolutions |-> rows.resolutions]
  BY DEF Tabled
<1>4. ASSUME NEW p \in DOMAIN Settles(event)
      PROVE  p \in ProvenProposals /\ ProvenApproval(p)' = RA[p]
  <2>1. p \in PendingIn(memory)
    BY <1>4, OnlyPendingIsSettled
  <2>2. p \in ProvenProposals /\ Settled(p) = {}
    BY <2>1, PendingIs
  <2> QED
    BY <1>1, <1>4, <2>2, ApprovalGrows
<1>5. ASSUME NEW p, p \notin DOMAIN Settles(event)
      PROVE  ProvenApproval(p)' = ProvenApproval(p)
  BY <1>1, <1>5, ApprovalGrows
<1> HIDE DEF RA
<1>6. ASSUME rows'.approvals = Updated(rows.approvals, RA)
      PROVE  ApprovalsHonest'
  <2> SUFFICES ASSUME NEW p \in DOMAIN rows'.approvals
               PROVE  \/ rows'.approvals[p] = Altered
                      \/ p \in ProvenProposals' /\ rows'.approvals[p] = ProvenApproval(p)'
    BY DEF ApprovalsHonest
  <2>1. /\ p \in DOMAIN rows.approvals \cup DOMAIN RA
        /\ rows'.approvals[p] = IF p \in DOMAIN RA THEN RA[p] ELSE rows.approvals[p]
    BY <1>6 DEF Updated
  <2>2. CASE p \in DOMAIN RA
    BY <1>2, <1>4, <2>1, <2>2
  <2>3. CASE p \notin DOMAIN RA
    BY <1>2, <1>5, <2>1, <2>3 DEF ApprovalsHonest
  <2> QED
    BY <2>2, <2>3
<1>7. CASE event.kind = "entry"
  <2>1. PICK t : t = [rows EXCEPT !.versions = Insert(@, New, event.version)]
    OBVIOUS
  <2>2. t = [versions |-> Insert(rows.versions, New, event.version), proposals |-> rows.proposals,
             approvals |-> rows.approvals, resolutions |-> rows.resolutions]
    BY <1>3, <2>1
  <2>3. rows' = WithResolutions(t, RA)
    BY <1>1, <1>7, <2>1 DEF RowsAfter, RA
  <2>4. rows'.approvals = Updated(rows.approvals, RA)
    BY <2>2, <2>3, Resolved
  <2> QED
    BY <1>6, <2>4
<1>8. CASE event.kind = "rejected"
  <2>1. rows' = WithResolutions(rows, RA)
    BY <1>1, <1>8 DEF RowsAfter, RA
  <2>2. rows'.approvals = Updated(rows.approvals, RA)
    BY <1>3, <2>1, Resolved
  <2> QED
    BY <1>6, <2>2
<1>9. CASE event.kind = "proposed"
  <2>1. rows' = WithProposal(rows, New, event.proposal)
    BY <1>1, <1>9 DEF RowsAfter
  <2>2. rows'.approvals = Insert(rows.approvals, New, Pending)
    BY <1>3, <2>1, Offered
  <2>3. rows'.approvals = [z \in DOMAIN rows.approvals \cup {New} |->
                             IF z = New THEN Pending ELSE rows.approvals[z]]
    BY <2>2, InsertedMap
  <2>4. DOMAIN Settles(event) = {}
    BY <1>1, <1>9, SettlesWhat
  <2>5. \A p : ProvenApproval(p)' = ProvenApproval(p)
    BY <1>5, <2>4
  <2>6. ProvenApproval(New) = Pending
    BY <1>2, PendingMeans DEF OnlyProposedIsSettled, Settled
  <2>7. New \in ProvenProposals' /\ ProvenProposals \subseteq ProvenProposals'
    BY <1>2, <1>9
  <2> SUFFICES ASSUME NEW p \in DOMAIN rows'.approvals
               PROVE  \/ rows'.approvals[p] = Altered
                      \/ p \in ProvenProposals' /\ rows'.approvals[p] = ProvenApproval(p)'
    BY DEF ApprovalsHonest
  <2>8. CASE p = New
    BY <2>3, <2>5, <2>6, <2>7, <2>8
  <2>9. CASE p # New
    <3>1. p \in DOMAIN rows.approvals /\ rows'.approvals[p] = rows.approvals[p]
      BY <2>3, <2>9
    <3>2. rows.approvals[p] = Altered \/ (p \in ProvenProposals /\ rows.approvals[p] = ProvenApproval(p))
      BY <3>1 DEF ApprovalsHonest
    <3> QED
      BY <2>5, <2>7, <3>1, <3>2
  <2> QED
    BY <2>8, <2>9
<1> QED
  BY <1>1, <1>7, <1>8, <1>9, EventKinds

LEMMA HonestCommit ==
  ASSUME IInv, SInv, NEW event, EventSound(event), Commit(event)
  PROVE  RowsHonest'
<1> SUFFICES Tabled' /\ VersionsHonest' /\ ProposalsHonest'
  BY ApprovalsCommit DEF RowsHonest
<1> USE DEF IInv, SInv, RowsHonest
<1> DEFINE RA == ResolutionRows(New, event)
<1>1. /\ event \in Events /\ log' = Append(log, event) /\ rows' = RowsAfter(New, event)
  BY DEF EventSound, Commit, New
<1>2. /\ New \in Nat /\ log'[New] = event /\ \A j \in DOMAIN log : log'[j] = log[j]
      /\ ProvenProposals' = ProvenProposals \cup (IF event.kind = "proposed" THEN {New} ELSE {})
      /\ ProvenVersions' = ProvenVersions \cup (IF event.kind = "entry" THEN {New} ELSE {})
      /\ New \notin ProvenProposals /\ New \notin ProvenVersions
  BY <1>1, Grows, SetsGrow DEF ProvenProposals, ProvenVersions
<1>3. \A i \in ProvenProposals \cup ProvenVersions : log'[i] = log[i]
  BY <1>2 DEF ProvenProposals, ProvenVersions
<1>4. rows = [versions |-> rows.versions, proposals |-> rows.proposals,
              approvals |-> rows.approvals, resolutions |-> rows.resolutions]
  BY DEF Tabled
<1>5. CASE event.kind = "entry"
  <2>1. rows' = WithResolutions([rows EXCEPT !.versions = Insert(@, New, event.version)], RA)
    BY <1>1, <1>5 DEF RowsAfter, RA
  <2>2. PICK t : t = [rows EXCEPT !.versions = Insert(@, New, event.version)]
    OBVIOUS
  <2>3. t = [versions |-> Insert(rows.versions, New, event.version), proposals |-> rows.proposals,
             approvals |-> rows.approvals, resolutions |-> rows.resolutions]
    BY <1>4, <2>2
  <2>4. rows' = [versions |-> Insert(rows.versions, New, event.version),
                 proposals |-> rows.proposals, approvals |-> Updated(rows.approvals, RA),
                 resolutions |-> Updated(rows.resolutions, RA)]
    <3>1. rows' = WithResolutions(t, RA)
      BY <2>1, <2>2
    <3> HIDE DEF RA
    <3> QED
      BY <2>3, <3>1, Resolved
  <2>5. Insert(rows.versions, New, event.version) =
          [z \in DOMAIN rows.versions \cup {New} |->
             IF z = New THEN event.version ELSE rows.versions[z]]
    BY InsertedMap
  <2>6. VersionsHonest'
    BY <1>2, <1>3, <1>5, <2>4, <2>5 DEF VersionsHonest
  <2> QED
    BY <1>2, <1>3, <1>5, <2>4, <2>6 DEF Tabled, ProposalsHonest
<1>6. CASE event.kind = "proposed"
  <2>1. rows' = WithProposal(rows, New, event.proposal)
    BY <1>1, <1>6 DEF RowsAfter, RA
  <2>2. rows' = [versions |-> rows.versions,
                 proposals |-> Insert(rows.proposals, New, event.proposal),
                 approvals |-> Insert(rows.approvals, New, Pending),
                 resolutions |-> rows.resolutions]
    BY <1>4, <2>1, Offered
  <2>3. Insert(rows.proposals, New, event.proposal) =
          [z \in DOMAIN rows.proposals \cup {New} |->
             IF z = New THEN event.proposal ELSE rows.proposals[z]]
    BY InsertedMap
  <2>4. ProposalsHonest'
    BY <1>2, <1>3, <1>6, <2>2, <2>3 DEF ProposalsHonest
  <2> QED
    BY <1>2, <1>3, <1>6, <2>2, <2>4 DEF Tabled, VersionsHonest
<1>7. CASE event.kind = "rejected"
  <2>1. rows' = WithResolutions(rows, RA)
    BY <1>1, <1>7 DEF RowsAfter, RA
  <2>2. rows' = [versions |-> rows.versions, proposals |-> rows.proposals,
                 approvals |-> Updated(rows.approvals, RA),
                 resolutions |-> Updated(rows.resolutions, RA)]
    BY <1>4, <2>1, Resolved
  <2> QED
    BY <1>2, <1>3, <1>7, <2>2 DEF Tabled, VersionsHonest, ProposalsHonest
<1> QED
  BY <1>1, <1>5, <1>6, <1>7, EventKinds

LEMMA SameSourced ==
  ASSUME SInv, UNCHANGED log
  PROVE  /\ Bounded' /\ SettledOnce' /\ Sourced'
         /\ ProvenVersions' = ProvenVersions /\ ProvenProposals' = ProvenProposals
         /\ \A p : ProvenApproval(p)' = ProvenApproval(p)
BY DEF ProvenApproval, SInv, Bounded, SettledOnce, Sourced, ProvenProposals, ProvenVersions, Settled, Line

(* What becomes of the tables when somebody meddles with one *)
LEMMA MeddledRows ==
  ASSUME SInv, UNCHANGED log, NEW t \in Tables, NEW f,
         rows' = [rows EXCEPT ![t] = f],
         \A id \in DOMAIN f : f[id] = Altered \/ (id \in DOMAIN rows[t] /\ f[id] = rows[t][id])
  PROVE  RowsHonest'
<1>1. rows = [versions |-> rows.versions, proposals |-> rows.proposals,
              approvals |-> rows.approvals, resolutions |-> rows.resolutions]
  BY DEF SInv, RowsHonest, Tabled
<1>2. /\ DOMAIN rows' = DOMAIN rows /\ rows'[t] = f
      /\ \A s \in Tables : s # t => rows'[s] = rows[s]
  BY <1>1 DEF Tables
<1>3. Tabled'
  BY <1>1, <1>2 DEF Tabled, Tables
<1>4. \A i \in DOMAIN rows'.versions :
        rows'.versions[i] = Altered
          \/ (i \in DOMAIN rows.versions /\ rows'.versions[i] = rows.versions[i])
  BY <1>1, <1>2 DEF Tables
<1>5. \A i \in DOMAIN rows'.proposals :
        rows'.proposals[i] = Altered
          \/ (i \in DOMAIN rows.proposals /\ rows'.proposals[i] = rows.proposals[i])
  BY <1>1, <1>2 DEF Tables
<1>6. \A i \in DOMAIN rows'.approvals :
        rows'.approvals[i] = Altered
          \/ (i \in DOMAIN rows.approvals /\ rows'.approvals[i] = rows.approvals[i])
  BY <1>1, <1>2 DEF Tables
<1>7. VersionsHonest' /\ ProposalsHonest' /\ ApprovalsHonest'
  BY <1>4, <1>5, <1>6, SameSourced
     DEF SInv, RowsHonest, VersionsHonest, ProposalsHonest, ApprovalsHonest
<1> QED
  BY <1>3, <1>7 DEF RowsHonest

LEMMA DamageIsHonest ==
  ASSUME SInv, Damage
  PROVE  RowsHonest' /\ UNCHANGED log
<1>1. UNCHANGED log
  BY DEF Damage, ForgeRow, LoseRow, AlterRow, DriftPointer, DriftStatus, Tamper
<1>2. ASSUME NEW t \in Tables, ForgeRow(t)
      PROVE  RowsHonest'
  <2>1. PICK f : f = Insert(rows[t], Foreign, Altered)
    OBVIOUS
  <2>2. f = [z \in DOMAIN rows[t] \cup {Foreign} |-> IF z = Foreign THEN Altered ELSE rows[t][z]]
    BY <2>1, InsertedMap
  <2>3. t \in DOMAIN rows
    BY DEF SInv, RowsHonest, Tabled, Tables
  <2>4. rows' = [rows EXCEPT ![t] = f]
    BY <1>2, <2>1, <2>3 DEF ForgeRow
  <2> QED
    BY <1>1, <2>2, <2>4, MeddledRows
<1>3. ASSUME NEW t \in Tables, NEW id \in DOMAIN rows[t], LoseRow(t, id)
      PROVE  RowsHonest'
  <2>1. PICK f : f = [x \in DOMAIN rows[t] \ {id} |-> rows[t][x]]
    OBVIOUS
  <2>2. t \in DOMAIN rows
    BY DEF SInv, RowsHonest, Tabled, Tables
  <2>3. rows' = [rows EXCEPT ![t] = f]
    BY <1>3, <2>1, <2>2 DEF LoseRow
  <2> QED
    BY <1>1, <2>1, <2>3, MeddledRows
<1>4. ASSUME NEW t \in Tables, NEW id \in DOMAIN rows[t], AlterRow(t, id)
      PROVE  RowsHonest'
  <2>1. PICK f : f = [z \in DOMAIN rows[t] |-> IF z = id THEN Altered ELSE rows[t][z]]
    OBVIOUS
  <2>2. t \in DOMAIN rows
    BY DEF SInv, RowsHonest, Tabled, Tables
  <2>3. rows' = [rows EXCEPT ![t] = f]
    BY <1>4, <2>1, <2>2 DEF AlterRow
  <2> QED
    BY <1>1, <2>1, <2>3, MeddledRows
<1>5. ASSUME UNCHANGED rows
      PROVE  RowsHonest'
  BY <1>1, <1>5, SameSourced DEF SInv, RowsHonest, Tabled, VersionsHonest, ProposalsHonest, ApprovalsHonest
<1>6. ASSUME \/ \E pl, ref : DriftPointer(pl, ref)
             \/ \E p, to : DriftStatus(p, to)
      PROVE  UNCHANGED rows
  BY <1>6 DEF DriftPointer, DriftStatus
<1> QED
  BY <1>1, <1>2, <1>3, <1>4, <1>5, <1>6 DEF Damage

LEMMA OtherStaysSourced ==
  ASSUME IInv, SInv, OtherCommand \/ Start \/ Stop \/ Damage \/ UNCHANGED vars
  PROVE  SInv'
<1>1. CASE OtherCommand \/ Stop \/ UNCHANGED vars
  <2>1. UNCHANGED <<log, rows>>
    BY <1>1 DEF OtherCommand, Stop, vars
  <2> QED
    BY <2>1, SameSourced DEF SInv, RowsHonest, Tabled, VersionsHonest, ProposalsHonest, ApprovalsHonest
<1>2. CASE Start
  <2>1. UNCHANGED log /\ rows' = ProvenRows
    BY <1>2 DEF Start
  <2>2. RowsHonest'
    BY <2>1, SameSourced DEF RowsHonest, Tabled, VersionsHonest, ProposalsHonest, ApprovalsHonest, ProvenRows
  <2> QED
    BY <2>1, <2>2, SameSourced DEF SInv
<1>3. CASE Damage
  BY <1>3, DamageIsHonest, SameSourced DEF SInv
<1> QED
  BY <1>1, <1>2, <1>3

LEMMA StepSourced ==
  ASSUME IInv, SInv, [Next]_vars
  PROVE  SInv'
<1>1. CASE Commands
  <2>1. PICK event : Commit(event) /\ EventSound(event)
    BY <1>1, CommandsCommit
  <2> QED
    BY <2>1, SourcedCommit, HonestCommit DEF SInv
<1>2. CASE OtherCommand \/ Start \/ Stop \/ Damage \/ UNCHANGED vars
  BY <1>2, OtherStaysSourced
<1> QED
  BY <1>1, <1>2 DEF Next

LEMMA InitSourced == Init => SInv
<1> SUFFICES ASSUME Init
             PROVE  SInv
  OBVIOUS
<1>1. log = << >> /\ rows = [t \in Tables |-> << >>]
  BY DEF Init
<1>2. ProvenVersions = {} /\ ProvenProposals = {} /\ Len(log) = 0
  BY <1>1 DEF ProvenVersions, ProvenProposals
<1>3. Bounded /\ SettledOnce /\ Sourced
  BY <1>2, MemoryAssumption DEF Bounded, SettledOnce, Sourced
<1>4. rows = [versions |-> << >>, proposals |-> << >>, approvals |-> << >>, resolutions |-> << >>]
  BY <1>1 DEF Tables
<1>5. RowsHonest
  BY <1>4 DEF RowsHonest, Tabled, VersionsHonest, ProposalsHonest, ApprovalsHonest
<1> QED
  BY <1>3, <1>5 DEF SInv

-----------------------------------------------------------------------------
(* The dependencies of a version, in tables that tell the stream *)

Proposed(p) == IF Intact("proposals", p) THEN rows.proposals[p].expected ELSE None

(* What a version leads to, given what the earlier ones do *)
Leads(reached, i) ==
    IF i = None \/ ~Intact("versions", i) THEN {i} \ {None}
    ELSE LET v == rows.versions[i] IN
         {i} \cup reached[v.pred]
           \cup IF v.accepted = None THEN {} ELSE {v.accepted} \cup reached[Proposed(v.accepted)]

(* The tables tell the stream. *)
Told ==
    /\ rows = ProvenRows /\ pointer = memory.current /\ status = memory.status

LEMMA ToldRows ==
  ASSUME IInv, SInv, Told
  PROVE  /\ \A i : Intact("versions", i) <=> i \in ProvenVersions
         /\ \A i \in ProvenVersions : rows.versions[i] = log[i].version
         /\ \A p : Intact("proposals", p) <=> p \in ProvenProposals
         /\ \A p \in ProvenProposals : rows.proposals[p] = log[p].proposal
<1>1. /\ rows.versions = [i \in ProvenVersions |-> log[i].version]
      /\ rows.proposals = [p \in ProvenProposals |-> log[p].proposal]
  BY DEF Told, ProvenRows
<1>2. \A i \in ProvenVersions : log[i].version # Altered
  BY VersionsTyped, AlteredIsNoRow DEF IInv
<1>3. \A p \in ProvenProposals : log[p].proposal # Altered
  BY ProposalsTyped, AlteredIsNoRow DEF IInv
<1> QED
  BY <1>1, <1>2, <1>3 DEF Intact

LEMMA LeadsBack ==
  ASSUME IInv, SInv, Told, NEW i \in ProvenVersions
  PROVE  LET v == log[i].version IN
         /\ i \in 1 .. MaxEvents /\ i # None
         /\ v.pred \in 0 .. i - 1 /\ (v.pred = None \/ v.pred \in ProvenVersions)
         /\ v.accepted # None =>
              /\ v.accepted \in ProvenProposals
              /\ Proposed(v.accepted) = v.pred
<1> DEFINE v == log[i].version
<1>1. i \in 1 .. Len(log) /\ v \in Versions /\ Len(log) <= MaxEvents /\ i # None /\ i \in Nat
      /\ Len(log) \in Nat /\ MaxEvents \in Nat
  BY VersionsTyped, MemoryAssumption DEF IInv, SInv, Bounded, LogTyped
<1>2. v.place \in Places /\ i \in Line(v.place)
  BY <1>1 DEF Versions, Line
<1>3. Linked(i, Line(v.place), log)
  BY <1>2 DEF IInv, Chained
<1>4. v.pred = None \/ v.pred \in Before(i, Line(v.place))
  BY <1>3 DEF Linked, IsLast
<1>5. v.pred = None \/ (v.pred \in ProvenVersions /\ v.pred < i /\ v.pred \in Nat)
  BY <1>1, <1>4 DEF Before, Line, Versions
<1>6. v.accepted # None =>
        v.accepted \in ProvenProposals /\ log[v.accepted].proposal.expected = v.pred
  <2> SUFFICES ASSUME v.accepted # None
               PROVE  v.accepted \in ProvenProposals /\ log[v.accepted].proposal.expected = v.pred
    OBVIOUS
  <2>1. /\ v.accepted \in ProvenProposals
        /\ log[v.accepted].proposal =
             [place |-> v.place, expected |-> v.pred, value |-> v.value]
    BY DEF SInv, Sourced
  <2> QED
    BY <2>1
<1>7. v.accepted # None => Proposed(v.accepted) = v.pred
  BY <1>6, ToldRows DEF Proposed
<1> QED
  BY <1>1, <1>5, <1>6, <1>7 DEF None

LEMMA LeadsAgree ==
  ASSUME IInv, SInv, Told, NEW i \in 0 .. MaxEvents, NEW f, NEW g,
         \A j \in 0 .. i - 1 : f[j] = g[j]
  PROVE  Leads(f, i) = Leads(g, i)
<1>1. CASE i = None \/ ~Intact("versions", i)
  BY <1>1 DEF Leads
<1>2. CASE i # None /\ Intact("versions", i)
  <2>1. i \in ProvenVersions /\ rows.versions[i] = log[i].version
    BY <1>2, ToldRows
  <2>2. /\ log[i].version.pred \in 0 .. i - 1
        /\ log[i].version.accepted # None =>
             Proposed(log[i].version.accepted) = log[i].version.pred
    BY <2>1, LeadsBack
  <2> QED
    BY <1>2, <2>1, <2>2 DEF Leads
<1> QED
  BY <1>1, <1>2

LEMMA LeadsIsDefined ==
  ASSUME IInv, SInv, Told
  PROVE  \E f : f = [i \in 0 .. MaxEvents |-> Leads(f, i)]
<1> DEFINE Has(m) == \E f : f = [i \in 0 .. m |-> Leads(f, i)]
           Bad == {m \in 0 .. MaxEvents : ~Has(m)}
<1>1. MaxEvents \in Nat
  BY MemoryAssumption
<1>2. ASSUME Bad # {}
      PROVE  FALSE
  <2>a. Bad \in SUBSET Nat
    BY <1>1
  <2>1. PICK m \in Bad : \A k \in Bad : m <= k
    <3> HIDE DEF Bad
    <3> QED
      BY <1>2, <2>a, Least
  <2>2. CASE m = 0
    <3>1. \A f : Leads(f, 0) = {}
      BY DEF Leads, None
    <3>2. PICK f : f = [i \in 0 .. 0 |-> {}]
      OBVIOUS
    <3>3. f = [i \in 0 .. 0 |-> Leads(f, i)]
      <4>1. \A i \in 0 .. 0 : Leads(f, i) = {}
        BY <3>1
      <4> QED
        BY <3>2, <4>1
    <3> QED
      BY <2>1, <2>2, <3>3
  <2>3. CASE m > 0
    <3>1. m - 1 \in 0 .. MaxEvents /\ ~(m <= m - 1) /\ m \in Nat
      BY <1>1, <2>1, <2>3
    <3>2. Has(m - 1)
      BY <2>1, <3>1
    <3>3. PICK f : f = [i \in 0 .. m - 1 |-> Leads(f, i)]
      BY <3>2
    <3>4. PICK g : g = [i \in 0 .. m |-> IF i = m THEN Leads(f, m) ELSE f[i]]
      OBVIOUS
    <3>5. ASSUME NEW i \in 0 .. m
          PROVE  g[i] = Leads(g, i)
      <4>1. \A j \in 0 .. i - 1 : f[j] = g[j]
        BY <3>1, <3>4
      <4>2. i \in 0 .. MaxEvents
        BY <1>1, <2>1
      <4>3. Leads(f, i) = Leads(g, i)
        BY <4>1, <4>2, LeadsAgree
      <4>4. CASE i = m
        BY <3>4, <4>3, <4>4
      <4>5. CASE i # m
        <5>1. i \in 0 .. m - 1
          BY <3>1, <4>5
        <5>2. f[i] = Leads(f, i)
          BY <3>3, <5>1
        <5> QED
          BY <3>4, <4>3, <4>5, <5>2
      <4> QED
        BY <4>4, <4>5
    <3>6. g = [i \in 0 .. m |-> Leads(g, i)]
      BY <3>4, <3>5
    <3> QED
      BY <2>1, <3>6
  <2> QED
    BY <1>1, <2>1, <2>2, <2>3
<1> QED
  BY <1>1, <1>2

LEMMA DependenciesAre ==
  ASSUME IInv, SInv, Told
  PROVE  \E f : /\ f = [i \in 0 .. MaxEvents |-> Leads(f, i)]
                /\ \A i : Dependencies(i) = f[i]
<1> DEFINE f == CHOOSE g : g = [i \in 0 .. MaxEvents |-> Leads(g, i)]
<1>1. f = [i \in 0 .. MaxEvents |-> Leads(f, i)]
  BY LeadsIsDefined
<1>2. \A i : Dependencies(i) = f[i]
  BY DEF Dependencies, Leads, Proposed
<1> QED
  BY <1>1, <1>2

(* A proposal is decided by the event that accepted it. *)
LEMMA AcceptedIs ==
  ASSUME IInv, SInv, NEW i \in ProvenVersions, log[i].version.accepted # None
  PROVE  LET p == log[i].version.accepted IN
         p \in ProvenProposals /\ ProvenApproval(p) = [status |-> "accepted", event |-> i]
<1> DEFINE p == log[i].version.accepted
<1>1. p \in ProvenProposals /\ p \in DOMAIN Settles(log[i])
  BY DEF SInv, Sourced
<1>2. i \in Settled(p)
  BY <1>1 DEF Settled, ProvenVersions
<1>3. Settled(p) = {i}
  BY <1>1, <1>2 DEF SInv, SettledOnce
<1>4. ProvenApproval(p) = [status |-> Settles(log[i])[p], event |-> i]
  BY <1>3 DEF ProvenApproval, Settled
<1>5. log[i].kind = "entry"
  BY DEF ProvenVersions
<1>6. Settles(log[i])[p] = "accepted"
  BY <1>1, <1>5 DEF Settles
<1> QED
  BY <1>1, <1>4, <1>6

LEMMA RejectedIs ==
  ASSUME IInv, SInv, NEW i \in DOMAIN log, log[i].kind = "rejected"
  PROVE  LET p == log[i].rejected IN
         p \in ProvenProposals /\ ProvenApproval(p) = [status |-> "rejected", event |-> i]
<1> DEFINE p == log[i].rejected
<1>1. DOMAIN Settles(log[i]) = {p} /\ Settles(log[i])[p] = "rejected"
  BY DEF Settles
<1>2. i \in Settled(p) /\ p \in ProvenProposals
  BY <1>1 DEF Settled, IInv, OnlyProposedIsSettled
<1>3. Settled(p) = {i}
  BY <1>2 DEF SInv, SettledOnce
<1>4. ProvenApproval(p) = [status |-> Settles(log[i])[p], event |-> i]
  BY <1>3 DEF ProvenApproval, Settled
<1> QED
  BY <1>1, <1>2, <1>4

LEMMA ApprovalTyped ==
  ASSUME IInv, SInv, NEW p
  PROVE  ProvenApproval(p) \in Approvals
<1>1. CASE Settled(p) = {}
  <2>1. ProvenApproval(p) = Pending
    BY <1>1, PendingMeans DEF IInv
  <2> QED
    BY <2>1 DEF Pending, Approvals, None
<1>2. CASE Settled(p) # {}
  <2>1. PICK i : i = CHOOSE j \in Settled(p) : TRUE
    OBVIOUS
  <2>2. i \in DOMAIN log /\ p \in DOMAIN Settles(log[i])
    BY <1>2, <2>1 DEF Settled
  <2>3. ProvenApproval(p) = [status |-> Settles(log[i])[p], event |-> i]
    BY <1>2, <2>1 DEF ProvenApproval, Settled
  <2>4. i \in Nat /\ log[i] \in Events
    BY <2>2 DEF IInv, LogTyped
  <2>5. CASE log[i].kind = "entry"
    <3>1. Settles(log[i])[p] \in {"accepted", "expired"}
      BY <2>2, <2>5 DEF Settles
    <3> QED
      BY <2>3, <2>4, <3>1 DEF Approvals
  <2>6. CASE log[i].kind = "rejected"
    <3>1. Settles(log[i])[p] = "rejected"
      BY <2>2, <2>6 DEF Settles
    <3> QED
      BY <2>3, <2>4, <3>1 DEF Approvals
  <2>7. log[i].kind # "proposed"
    BY <2>2, <2>4, SettlesWhat
  <2> QED
    BY <2>4, <2>5, <2>6, <2>7, EventKinds
<1> QED
  BY <1>1, <1>2

LEMMA ToldCoherent ==
  ASSUME IInv, SInv, Told, NEW p \in ProvenProposals
  PROVE  Coherent(p) /\ status[p] = ProvenApproval(p)
<1>1. /\ rows.approvals = [q \in ProvenProposals |-> ProvenApproval(q)]
      /\ rows.resolutions = [q \in {r \in ProvenProposals : ProvenApproval(r) # Pending} |->
                               ProvenApproval(q)]
      /\ status = [q \in ProvenProposals |-> ProvenApproval(q)]
  BY DEF Told, ProvenRows, IInv, Reduced
<1>2. ProvenApproval(p) # Altered
  BY ApprovalTyped, AlteredIsNoRow
<1>3. Intact("proposals", p)
  BY ToldRows
<1> QED
  BY <1>1, <1>2, <1>3 DEF Coherent, Intact

LEMMA AllLoadable ==
  ASSUME IInv, SInv, Told, NEW i \in ProvenVersions
  PROVE  Loadable(i)
<1>1. PICK f : /\ f = [j \in 0 .. MaxEvents |-> Leads(f, j)]
               /\ \A j : Dependencies(j) = f[j]
  BY DependenciesAre
<1> DEFINE Good(d) == Intact("versions", d) \/ AcceptedProposal(d)
           Bad == {j \in ProvenVersions : \E d \in f[j] : ~Good(d)}
<1>2. Bad \in SUBSET Nat
  BY VersionsTyped DEF IInv
<1>3. ASSUME Bad # {}
      PROVE  FALSE
  <2>1. PICK j \in Bad : \A k \in Bad : j <= k
    BY <1>2, <1>3, Least
  <2> DEFINE v == log[j].version
  <2>2. /\ j \in 1 .. MaxEvents /\ j # None
        /\ v.pred \in 0 .. j - 1 /\ (v.pred = None \/ v.pred \in ProvenVersions)
        /\ v.accepted # None =>
             v.accepted \in ProvenProposals /\ Proposed(v.accepted) = v.pred
    BY <2>1, LeadsBack
  <2>3. Intact("versions", j) /\ rows.versions[j] = v
    BY <2>1, ToldRows
  <2>4. f[j] = Leads(f, j)
    BY <1>1, <2>2, MemoryAssumption
  <2>5. f[j] = {j} \cup f[v.pred]
                 \cup IF v.accepted = None THEN {} ELSE {v.accepted} \cup f[v.pred]
    BY <2>2, <2>3, <2>4 DEF Leads
  <2>6. \A d \in f[v.pred] : Good(d)
    <3>1. CASE v.pred = None
      <4>1. f[0] = {}
        BY <1>1, MemoryAssumption DEF Leads, None
      <4> QED
        BY <3>1, <4>1 DEF None
    <3>2. CASE v.pred \in ProvenVersions
      <4>1. ~(j <= v.pred)
        BY <2>2
      <4> QED
        BY <2>1, <3>2, <4>1
    <3> QED
      BY <2>2, <3>1, <3>2
  <2>7. v.accepted # None => AcceptedProposal(v.accepted)
    <3> SUFFICES ASSUME v.accepted # None
                 PROVE  AcceptedProposal(v.accepted)
      OBVIOUS
    <3>1. PICK p : p = v.accepted
      OBVIOUS
    <3>2. p \in ProvenProposals /\ ProvenApproval(p) = [status |-> "accepted", event |-> j]
      BY <2>1, <3>1, AcceptedIs
    <3>3. Coherent(p) /\ status[p] = ProvenApproval(p)
      BY <3>2, ToldCoherent
    <3>4. status[p].status = "accepted"
      BY <3>2, <3>3
    <3> QED
      BY <3>1, <3>3, <3>4 DEF AcceptedProposal
  <2> QED
    BY <2>1, <2>3, <2>5, <2>6, <2>7
<1>4. \A d \in f[i] : Good(d)
  BY <1>3
<1> QED
  BY <1>1, <1>4, ToldRows DEF Loadable

LEMMA AllProposalsLoadable ==
  ASSUME IInv, SInv, Told, NEW p \in ProvenProposals
  PROVE  ProposalLoadable(p) /\ rows.proposals[p] = log[p].proposal
<1>1. rows.proposals[p] = log[p].proposal
  BY ToldRows
<1>2. log[p].proposal.expected # None => log[p].proposal.expected \in ProvenVersions
  BY DEF SInv, Sourced, Line
<1> QED
  BY <1>1, <1>2, ToldCoherent, AllLoadable DEF ProposalLoadable, ContextSound

-----------------------------------------------------------------------------
(* The projection as of an event *)

Trail(events, n, f) ==
    f = [k \in 0 .. n |-> IF k = 0 THEN EmptyMemory ELSE Reduce(f[k - 1], k, events[k])]

LEMMA TrailStarts ==
  ASSUME NEW events, NEW n \in Nat, NEW f, Trail(events, n, f)
  PROVE  /\ f[0] = EmptyMemory
         /\ \A k \in 1 .. n : f[k] = Reduce(f[k - 1], k, events[k])
<1> DEFINE t(k) == IF k = 0 THEN EmptyMemory ELSE Reduce(f[k - 1], k, events[k])
<1>1. f = [k \in 0 .. n |-> t(k)]
  BY DEF Trail
<1>2. \A k \in 0 .. n : f[k] = t(k)
  <2> HIDE DEF t
  <2> QED
    BY <1>1
<1>3. 0 \in 0 .. n /\ \A k \in 1 .. n : k \in 0 .. n /\ k # 0
  OBVIOUS
<1> QED
  BY <1>2, <1>3

LEMMA TrailGoesOn ==
  ASSUME NEW events, NEW n \in Nat, n # 0, NEW f, Trail(events, n - 1, f)
  PROVE  \E g : Trail(events, n, g)
<1>1. n - 1 \in Nat
  OBVIOUS
<1>2. PICK last : last = Reduce(f[n - 1], n, events[n])
  OBVIOUS
<1>3. PICK g : g = [k \in 0 .. n |-> IF k = n THEN last ELSE f[k]]
  OBVIOUS
<1>4. /\ f[0] = EmptyMemory
      /\ \A k \in 1 .. n - 1 : f[k] = Reduce(f[k - 1], k, events[k])
  BY <1>1, TrailStarts
<1>5. g[0] = EmptyMemory
  BY <1>3, <1>4
<1>6. ASSUME NEW k \in 1 .. n
      PROVE  g[k] = Reduce(g[k - 1], k, events[k])
  <2>1. g[k - 1] = f[k - 1]
    BY <1>3
  <2>2. CASE k = n
    BY <1>2, <1>3, <2>1, <2>2
  <2>3. CASE k # n
    <3>1. k \in 1 .. n - 1 /\ g[k] = f[k]
      BY <1>3, <2>3
    <3> QED
      BY <1>4, <2>1, <3>1
  <2> QED
    BY <2>2, <2>3
<1>7. \A k \in 0 .. n : g[k] = IF k = 0 THEN EmptyMemory ELSE Reduce(g[k - 1], k, events[k])
  BY <1>5, <1>6
<1>8. Trail(events, n, g)
  <2> DEFINE t(k) == IF k = 0 THEN EmptyMemory ELSE Reduce(g[k - 1], k, events[k])
  <2>1. \A k \in 0 .. n : g[k] = t(k)
    BY <1>7
  <2>2. g = [k \in 0 .. n |-> t(k)]
    <3> HIDE DEF t
    <3> QED
      BY <1>3, <2>1
  <2> QED
    BY <2>2 DEF Trail
<1> QED
  BY <1>8

LEMMA TrailExists ==
  ASSUME NEW events, NEW n \in Nat
  PROVE  \E f : Trail(events, n, f)
<1> DEFINE Bad == {m \in Nat : ~ \E f : Trail(events, m, f)}
<1>1. ASSUME Bad # {}
      PROVE  FALSE
  <2>1. Bad \in SUBSET Nat
    OBVIOUS
  <2>2. PICK m \in Bad : \A k \in Bad : m <= k
    <3> HIDE DEF Bad
    <3> QED
      BY <1>1, <2>1, Least
  <2>3. CASE m = 0
    <3>1. PICK f : f = [k \in 0 .. 0 |-> EmptyMemory]
      OBVIOUS
    <3>2. \A k \in 0 .. 0 : k = 0
      OBVIOUS
    <3>3. Trail(events, 0, f)
      BY <3>1, <3>2 DEF Trail
    <3> QED
      BY <2>2, <2>3, <3>3
  <2>4. CASE m # 0
    <3>1. m - 1 \in Nat /\ ~(m <= m - 1)
      BY <2>2, <2>4
    <3>2. PICK f : Trail(events, m - 1, f)
      BY <2>2, <3>1
    <3> QED
      BY <2>2, <2>4, <3>2, TrailGoesOn
  <2> QED
    BY <2>3, <2>4
<1> QED
  BY <1>1

SameUpTo(n, e1, e2) == \A k \in 1 .. n : e1[k] = e2[k]

LEMMA TrailsAgree ==
  ASSUME NEW e1, NEW e2, NEW n1 \in Nat, NEW n2 \in Nat, NEW f, NEW g,
         Trail(e1, n1, f), Trail(e2, n2, g), n1 <= n2, SameUpTo(n1, e1, e2)
  PROVE  \A k \in 0 .. n1 : f[k] = g[k]
<1> DEFINE Bad == {k \in 0 .. n1 : f[k] # g[k]}
<1>1. /\ f[0] = EmptyMemory /\ \A k \in 1 .. n1 : f[k] = Reduce(f[k - 1], k, e1[k])
      /\ g[0] = EmptyMemory /\ \A k \in 1 .. n2 : g[k] = Reduce(g[k - 1], k, e2[k])
  BY TrailStarts
<1>2. ASSUME Bad # {}
      PROVE  FALSE
  <2>1. Bad \in SUBSET Nat
    OBVIOUS
  <2>2. PICK m \in Bad : \A k \in Bad : m <= k
    <3> HIDE DEF Bad
    <3> QED
      BY <1>2, <2>1, Least
  <2>3. m \in 0 .. n1 /\ m # 0
    BY <1>1, <2>2
  <2>4. m \in 1 .. n1 /\ m \in 1 .. n2 /\ m - 1 \in 0 .. n1 /\ ~(m <= m - 1)
    BY <2>3
  <2>5. f[m - 1] = g[m - 1]
    BY <2>2, <2>4
  <2>6. f[m] = g[m]
    BY <1>1, <2>4, <2>5 DEF SameUpTo
  <2> QED
    BY <2>2, <2>6
<1> QED
  BY <1>2

LEMMA MemoryAtIs ==
  ASSUME NEW n \in Nat
  PROVE  \E f : Trail(log, n, f) /\ MemoryAt(n) = f[n]
<1> DEFINE f == CHOOSE g : Trail(log, n, g)
<1>1. Trail(log, n, f)
  BY TrailExists
<1>2. MemoryAt(n) = f[n]
  BY DEF MemoryAt, Trail
<1> QED
  BY <1>1, <1>2

LEMMA MemoryAtNext ==
  ASSUME NEW n \in Nat
  PROVE  \E f : Trail(log', n, f) /\ MemoryAt(n)' = f[n]
<1> DEFINE f == CHOOSE g : Trail(log', n, g)
<1>1. Trail(log', n, f)
  BY TrailExists
<1>2. MemoryAt(n)' = f[n]
  BY DEF MemoryAt, Trail
<1> QED
  BY <1>1, <1>2

LEMMA MemoryAtStarts == MemoryAt(0) = EmptyMemory
<1>1. PICK f : Trail(log, 0, f) /\ MemoryAt(0) = f[0]
  BY MemoryAtIs
<1> QED
  BY <1>1, TrailStarts

(* What was stays. *)
LEMMA PastStays ==
  ASSUME LogTyped, NEW event \in Events, log' = Append(log, event) \/ UNCHANGED log,
         NEW n \in 0 .. Len(log)
  PROVE  MemoryAt(n)' = MemoryAt(n)
<1>1. n \in Nat /\ \A k \in 1 .. n : log'[k] = log[k]
  <2>1. Len(log) \in Nat /\ DOMAIN log = 1 .. Len(log)
    BY DEF LogTyped
  <2>2. \A j \in DOMAIN log : log'[j] = log[j]
    BY Grows
  <2> QED
    BY <2>1, <2>2
<1>2. PICK f : Trail(log, n, f) /\ MemoryAt(n) = f[n]
  BY <1>1, MemoryAtIs
<1>3. PICK g : Trail(log', n, g) /\ MemoryAt(n)' = g[n]
  BY <1>1, MemoryAtNext
<1>4. \A k \in 0 .. n : g[k] = f[k]
  <2>1. n <= n /\ n \in Nat
    BY <1>1
  <2>2. PICK now, then : now = log' /\ then = log
    OBVIOUS
  <2>3. Trail(now, n, g) /\ Trail(then, n, f)
    BY <1>2, <1>3, <2>2
  <2>4. SameUpTo(n, now, then)
    BY <1>1, <2>2 DEF SameUpTo
  <2> QED
    BY <2>1, <2>3, <2>4, TrailsAgree
<1> QED
  BY <1>1, <1>2, <1>3, <1>4

LEMMA PresentFollows ==
  ASSUME LogTyped, NEW event \in Events, log' = Append(log, event), NEW n \in Nat, n = New
  PROVE  MemoryAt(n)' = Reduce(MemoryAt(n - 1), n, event)
<1>1. n # 0 /\ n - 1 \in Nat /\ n - 1 = Len(log) /\ log'[n] = event
  BY Grows DEF LogTyped, New
<1>2. \A k \in 1 .. n - 1 : log'[k] = log[k]
  <2>1. \A k \in 1 .. n - 1 : k \in DOMAIN log
    BY <1>1 DEF LogTyped
  <2> QED
    BY <2>1, Grows
<1>3. PICK f : Trail(log, n - 1, f) /\ MemoryAt(n - 1) = f[n - 1]
  BY <1>1, MemoryAtIs
<1>4. PICK g : Trail(log', n, g) /\ MemoryAt(n)' = g[n]
  BY MemoryAtNext
<1>5. \A k \in 0 .. n - 1 : g[k] = f[k]
  <2>1. n - 1 <= n /\ n - 1 <= n - 1
    BY <1>1
  <2>2. PICK now, then : now = log' /\ then = log
    OBVIOUS
  <2>3. Trail(now, n, g) /\ Trail(then, n - 1, f)
    BY <1>3, <1>4, <2>2
  <2>4. \A k \in 1 .. n - 1 : now[k] = then[k]
    BY <1>2, <2>2
  <2>5. PICK m : m = n - 1
    OBVIOUS
  <2>6. /\ m \in Nat /\ m <= n /\ Trail(then, m, f)
        /\ SameUpTo(m, then, now)
    BY <1>1, <2>1, <2>3, <2>4, <2>5 DEF SameUpTo
  <2>7. \A k \in 0 .. m : f[k] = g[k]
    BY <2>3, <2>6, TrailsAgree
  <2> QED
    BY <2>5, <2>7
<1>6. g[n] = Reduce(g[n - 1], n, log'[n])
  <2>1. n \in 1 .. n
    BY <1>1
  <2> QED
    BY <1>4, <2>1, TrailStarts
<1>7. n - 1 \in 0 .. n - 1
  BY <1>1
<1> QED
  BY <1>1, <1>3, <1>4, <1>5, <1>6, <1>7

-----------------------------------------------------------------------------
(* The projection is the one as of the last event. *)
IsReplay == memory = MemoryAt(Len(log))

LEMMA ReplayStep ==
  ASSUME IInv, IsReplay, [Next]_vars
  PROVE  /\ IsReplay' /\ Len(log) \in Nat /\ Len(log)' \in Nat /\ Len(log) <= Len(log)'
         /\ \A n \in 0 .. Len(log) : MemoryAt(n)' = MemoryAt(n)
         /\ \A j \in DOMAIN log : log'[j] = log[j]
         /\ DOMAIN log \subseteq DOMAIN log'
<1>1. Len(log) \in Nat /\ LogTyped
  BY DEF IInv, LogTyped
<1>2. CASE Commands
  <2>1. PICK event : Commit(event) /\ EventSound(event)
    BY <1>2, CommandsCommit
  <2>2. event \in Events /\ log' = Append(log, event) /\ memory' = Reduce(memory, New, event)
    BY <2>1 DEF EventSound, Commit, New
  <2>3. PICK n : n = New
    OBVIOUS
  <2>7. n \in Nat /\ n - 1 = Len(log)
    BY <1>1, <2>3 DEF New
  <2>8. MemoryAt(n)' = Reduce(MemoryAt(n - 1), n, event)
    BY <1>1, <2>2, <2>3, <2>7, PresentFollows
  <2>4. Len(log)' = New
    BY <1>1, <2>2 DEF LogTyped, New
  <2>5. \A k \in 0 .. Len(log) : MemoryAt(k)' = MemoryAt(k)
    BY <1>1, <2>2, PastStays
  <2>6. IsReplay'
    <3>1. memory' = MemoryAt(n)'
      BY <2>2, <2>3, <2>7, <2>8 DEF IsReplay
    <3>2. Len(log)' = n
      BY <2>3, <2>4
    <3>3. MemoryAt(n)' = MemoryAt(Len(log))'
      BY <3>2 DEF MemoryAt
    <3> QED
      BY <3>1, <3>3 DEF IsReplay
  <2> QED
    BY <1>1, <2>2, <2>4, <2>5, <2>6, Grows DEF New
<1>3. CASE OtherCommand \/ Start \/ Stop \/ Damage \/ UNCHANGED vars
  <2>1. UNCHANGED <<log, memory>>
    BY <1>3 DEF OtherCommand, Start, Stop, Damage, ForgeRow, LoseRow, AlterRow, DriftPointer,
                DriftStatus, Tamper, vars
  <2>2. ASSUME NEW n
        PROVE  MemoryAt(n)' = MemoryAt(n)
    BY <2>1 DEF MemoryAt
  <2> QED
    BY <1>1, <2>1, <2>2 DEF IsReplay
<1> QED
  BY <1>2, <1>3 DEF Next

-----------------------------------------------------------------------------
(* Recursion along a line, one step after the other *)

Follows(f, n, start, step) ==
    f[0] = start /\ \A k \in 1 .. n : f[k] = step[k][f[k - 1]]

LEMMA Recursion ==
  ASSUME NEW n \in Nat, NEW S, NEW start \in S, NEW step \in [1 .. n -> [S -> S]]
  PROVE  \E f \in [0 .. n -> S] : Follows(f, n, start, step)
<1> DEFINE Good(m) == \E f \in [0 .. m -> S] :
                        f[0] = start /\ \A k \in 1 .. m : f[k] = step[k][f[k - 1]]
           Bad == {m \in 0 .. n : ~Good(m)}
<1>1. ASSUME Bad # {}
      PROVE  FALSE
  <2>1. Bad \in SUBSET Nat
    OBVIOUS
  <2>2. PICK m \in Bad : \A k \in Bad : m <= k
    <3> HIDE DEF Bad
    <3> QED
      BY <1>1, <2>1, Least
  <2>3. CASE m = 0
    <3>1. PICK f : f = [k \in 0 .. 0 |-> start]
      OBVIOUS
    <3>2. f \in [0 .. 0 -> S] /\ f[0] = start /\ \A k \in 1 .. 0 : f[k] = step[k][f[k - 1]]
      BY <3>1
    <3>3. Good(0)
      BY <3>2
    <3> QED
      BY <2>2, <2>3, <3>3
  <2>4. CASE m # 0
    <3>1. m \in 1 .. n /\ m - 1 \in 0 .. n /\ ~(m <= m - 1) /\ m - 1 \in Nat
      BY <2>2, <2>4
    <3>2. Good(m - 1)
      BY <2>2, <3>1
    <3>3. PICK f \in [0 .. m - 1 -> S] :
            f[0] = start /\ \A k \in 1 .. m - 1 : f[k] = step[k][f[k - 1]]
      BY <3>2
    <3>4. f[m - 1] \in S
      BY <3>1
    <3>5. PICK last \in S : last = step[m][f[m - 1]]
      BY <3>1, <3>4
    <3>6. PICK g : g = [k \in 0 .. m |-> IF k = m THEN last ELSE f[k]]
      OBVIOUS
    <3>7. g \in [0 .. m -> S] /\ g[0] = start
      BY <3>1, <3>3, <3>6
    <3>8. ASSUME NEW k \in 1 .. m
          PROVE  g[k] = step[k][g[k - 1]]
      <4>1. g[k - 1] = f[k - 1]
        BY <3>1, <3>6
      <4>2. CASE k = m
        BY <3>1, <3>5, <3>6, <4>1, <4>2
      <4>3. CASE k # m
        <5>1. k \in 1 .. m - 1 /\ g[k] = f[k]
          BY <3>1, <3>6, <4>3
        <5> QED
          BY <3>3, <4>1, <5>1
      <4> QED
        BY <4>2, <4>3
    <3>9. Good(m)
      BY <3>7, <3>8
    <3> QED
      BY <2>2, <3>9
  <2> QED
    BY <2>3, <2>4
<1>2. n \notin Bad
  BY <1>1
<1> QED
  BY <1>2 DEF Follows

-----------------------------------------------------------------------------
(* What a snapshot takes *)

Accounts(W) == [admitted : Seq(W), omitted : Nat, bytes : Nat, sources : Nat]

Itemised(items, n, W) ==
    \A j \in 1 .. n : items[j].what \in W /\ items[j].size \in Nat /\ items[j].sources \in Nat

Accounting(acc, n, start, request, most, items) ==
    /\ acc[0] = start
    /\ \A j \in 1 .. n : acc[j] = Consider(request, most, acc[j - 1], items[j])

LEMMA ConsiderTyped ==
  ASSUME NEW W, NEW request, NEW most, NEW acc \in Accounts(W), NEW item,
         item.what \in W, item.size \in Nat, item.sources \in Nat
  PROVE  Consider(request, most, acc, item) \in Accounts(W)
<1>1. Append(acc.admitted, item.what) \in Seq(W)
  BY DEF Accounts
<1>2. /\ acc.omitted + 1 \in Nat /\ acc.bytes + item.size \in Nat
      /\ acc.sources + item.sources \in Nat
  BY DEF Accounts
<1> QED
  BY <1>1, <1>2 DEF Consider, Accounts

(* One step after the other, the accounts are kept. *)
LEMMA ConsideredRuns ==
  ASSUME NEW W, NEW request, NEW most, NEW start \in Accounts(W), NEW items, NEW n \in Nat,
         Itemised(items, n, W)
  PROVE  \E acc \in [0 .. n -> Accounts(W)] : Accounting(acc, n, start, request, most, items)
<1> PICK A : A = Accounts(W)
  OBVIOUS
<1> PICK go : go = [j \in 1 .. n |-> [x \in A |-> Consider(request, most, x, items[j])]]
  OBVIOUS
<1>1. \A j \in 1 .. n : \A x \in A : Consider(request, most, x, items[j]) \in A
  BY ConsiderTyped DEF Itemised
<1>2. go \in [1 .. n -> [A -> A]] /\ start \in A
  BY <1>1
<1>3. PICK h \in [0 .. n -> A] : Follows(h, n, start, go)
  BY <1>2, Recursion
<1>4. ASSUME NEW k \in 1 .. n
      PROVE  h[k] = Consider(request, most, h[k - 1], items[k])
  <2>1. k - 1 \in 0 .. n
    OBVIOUS
  <2>2. h[k - 1] \in A
    BY <2>1
  <2> QED
    BY <1>3, <2>2 DEF Follows
<1> QED
  BY <1>3, <1>4 DEF Follows, Accounting

LEMMA ConsideredIs ==
  ASSUME NEW W, NEW request, NEW most, NEW start \in Accounts(W), NEW items,
         NEW n \in Nat, n = Len(items),
         Itemised(items, n, W)
  PROVE  \E acc \in [0 .. n -> Accounts(W)] :
           /\ Accounting(acc, n, start, request, most, items)
           /\ Considered(request, most, start, items) = acc[n]
<1> DEFINE next(a, j) == IF j = 0 THEN start ELSE Consider(request, most, a[j - 1], items[j])
           f == CHOOSE g : g = [j \in 0 .. n |-> next(g, j)]
<1>1. PICK h \in [0 .. n -> Accounts(W)] : Accounting(h, n, start, request, most, items)
  BY ConsideredRuns
<1>2. h = [j \in 0 .. n |-> next(h, j)]
  <2>1. \A j \in 0 .. n : j # 0 => j \in 1 .. n
    OBVIOUS
  <2>2. \A j \in 0 .. n : h[j] = next(h, j)
    BY <1>1, <2>1 DEF Accounting
  <2> HIDE DEF next
  <2> QED
    BY <2>2
<1>3. f = [j \in 0 .. n |-> next(f, j)]
  <2> HIDE DEF next
  <2> QED
    BY <1>2
<1> HIDE DEF f
<1>4. \A j \in 0 .. n : f[j] = next(f, j)
  <2> HIDE DEF next
  <2> QED
    BY <1>3
<1>5. /\ f[0] = start
      /\ \A j \in 1 .. n : f[j] = Consider(request, most, f[j - 1], items[j])
  <2>1. 0 \in 0 .. n /\ \A k \in 1 .. n : k \in 0 .. n /\ k # 0
    OBVIOUS
  <2> QED
    BY <1>4, <2>1
<1>6. \A k \in 0 .. n : f[k] = h[k]
  <2> DEFINE Bad == {k \in 0 .. n : f[k] # h[k]}
  <2>1. ASSUME Bad # {}
        PROVE  FALSE
    <3>1. Bad \in SUBSET Nat
      OBVIOUS
    <3>2. PICK m \in Bad : \A k \in Bad : m <= k
      <4> HIDE DEF Bad
      <4> QED
        BY <2>1, <3>1, Least
    <3>3. m # 0
      BY <1>1, <1>5, <3>2 DEF Accounting
    <3>4. m \in 1 .. n /\ m - 1 \in 0 .. n /\ ~(m <= m - 1)
      BY <3>2, <3>3
    <3>5. f[m - 1] = h[m - 1]
      BY <3>2, <3>4
    <3>6. f[m] = h[m]
      BY <1>1, <1>5, <3>4, <3>5 DEF Accounting
    <3> QED
      BY <3>2, <3>6
  <2> QED
    BY <2>1
<1>7. f = h
  <2> HIDE DEF next
  <2> QED
    BY <1>3, <1>6
<1>8. Considered(request, most, start, items) = f[n]
  BY DEF Considered, f
<1> QED
  BY <1>1, <1>7, <1>8

LEMMA ChoiceTyped ==
  ASSUME NEW W, NEW request, NEW most, NEW start \in Accounts(W), NEW items,
         NEW n \in Nat, n = Len(items), Itemised(items, n, W)
  PROVE  Considered(request, most, start, items) \in Accounts(W)
<1>1. PICK acc \in [0 .. n -> Accounts(W)] :
        /\ Accounting(acc, n, start, request, most, items)
        /\ Considered(request, most, start, items) = acc[n]
  BY ConsideredIs
<1>2. n \in 0 .. n
  OBVIOUS
<1> QED
  BY <1>1, <1>2

-----------------------------------------------------------------------------
(* What the tables show *)

(* A reference to a version of the stream *)
IsVersion(ref) ==
    ref.id \in ProvenVersions /\ ref = Ref(ref.id, log[ref.id].version)

(* What pages of a namespace may list *)
Shown(ns) == {pointer[<<ns, k>>] : k \in Present(ns)}

LEMMA KnownVersion ==
  ASSUME IInv, NEW pl \in Places, NEW x \in Known(pl), x # NoEntry
  PROVE  IsVersion(x) /\ x.id \in Line(pl) /\ x.id # None
<1>1. PICK i \in Line(pl) : x = Ref(i, log[i].version)
  BY DEF Known
<1>2. x.id = i /\ i \in ProvenVersions
  BY <1>1 DEF Ref, Line
<1> QED
  BY <1>1, <1>2, VersionsTyped DEF IsVersion, IInv

LEMMA ShownVersion ==
  ASSUME IInv, NEW ns \in Namespaces, NEW k \in Present(ns)
  PROVE  /\ k \in Keys /\ k \in Nat /\ <<ns, k>> \in Places
         /\ pointer[<<ns, k>>] # NoEntry /\ IsVersion(pointer[<<ns, k>>])
         /\ pointer[<<ns, k>>].id \in Line(<<ns, k>>)
<1>1. k \in Keys /\ k \in Nat /\ <<ns, k>> \in Places
  BY RecallAssumption DEF Present, Places
<1>2. pointer[<<ns, k>>] \in Known(<<ns, k>>)
  BY <1>1 DEF IInv, PointersAreKnown
<1>3. pointer[<<ns, k>>] # NoEntry
  BY DEF Present, NoEntry
<1> QED
  BY <1>1, <1>2, <1>3, KnownVersion

LEMMA ProvenFinite ==
  ASSUME LogTyped
  PROVE  /\ IsFiniteSet(ProvenVersions) /\ IsFiniteSet(ProvenProposals)
         /\ ProvenVersions \in SUBSET Nat /\ ProvenProposals \in SUBSET Nat
<1>1. ProvenVersions \in SUBSET (1 .. Len(log)) /\ ProvenProposals \in SUBSET (1 .. Len(log))
  BY VersionsTyped, ProposalsTyped
<1>2. IsFiniteSet(1 .. Len(log)) /\ Len(log) \in Nat
  BY FS_Interval DEF LogTyped
<1>3. IsFiniteSet(ProvenVersions) /\ IsFiniteSet(ProvenProposals)
  BY <1>1, <1>2, FS_Subset
<1> QED
  BY <1>1, <1>2, <1>3

LEMMA PresentFinite ==
  ASSUME IInv, NEW ns \in Namespaces
  PROVE  IsFiniteSet(Present(ns)) /\ Present(ns) \in SUBSET Nat
<1>1. PICK f : f = [k \in Present(ns) |-> pointer[<<ns, k>>].id]
  OBVIOUS
<1>2. IsFiniteSet(Present(ns))
  <2>1. ASSUME NEW k \in Present(ns)
        PROVE  f[k] \in ProvenVersions /\ log[f[k]].version.place = <<ns, k>>
    BY <1>1, ShownVersion DEF Line
  <2>2. f \in [Present(ns) -> ProvenVersions]
    BY <1>1, <2>1
  <2>3. \A k, l \in Present(ns) : f[k] = f[l] => k = l
    BY <2>1
  <2>4. f \in Injection(Present(ns), ProvenVersions)
    BY <2>2, <2>3 DEF Injection, IsInjective
  <2> QED
    BY <2>4, ProvenFinite, FS_Injection DEF IInv
<1>3. Present(ns) \in SUBSET Nat
  BY ShownVersion
<1> QED
  BY <1>2, <1>3

LEMMA KeyLineIs ==
  ASSUME IInv, NEW ns \in Namespaces, NEW keys \in SUBSET Present(ns)
  PROVE  /\ keys \in SUBSET Nat /\ IsFiniteSet(keys) /\ Cardinality(keys) \in Nat
         /\ KeyLine(ns, keys) =
              [j \in 1 .. Cardinality(keys) |-> pointer[<<ns, LineOf(Rising(keys), keys)[j]>>]]
         /\ KeyLine(ns, keys) \in Seq(Shown(ns)) /\ Len(KeyLine(ns, keys)) = Cardinality(keys)
<1>1. keys \in SUBSET Nat /\ IsFiniteSet(keys)
  BY PresentFinite, FS_Subset
<1>2. Sorted(keys, <) = LineOf(Rising(keys), keys)
  BY <1>1, SortedUp
<1>3. Cardinality(keys) \in Nat /\ \A j \in 1 .. Cardinality(keys) :
        LineOf(Rising(keys), keys)[j] \in keys
  BY <1>1, NumbersAreOrdered, LineIsSorted
<1>4. KeyLine(ns, keys) =
        [j \in 1 .. Cardinality(keys) |-> pointer[<<ns, LineOf(Rising(keys), keys)[j]>>]]
  BY <1>2 DEF KeyLine, LineOf
<1>5. \A j \in 1 .. Cardinality(keys) :
        pointer[<<ns, LineOf(Rising(keys), keys)[j]>>] \in Shown(ns)
  BY <1>3 DEF Shown
<1>6. /\ KeyLine(ns, keys) \in Seq(Shown(ns)) /\ Len(KeyLine(ns, keys)) = Cardinality(keys)
  <2>1. PICK n \in Nat : n = Cardinality(keys)
    BY <1>3
  <2>2. PICK line : line = [j \in 1 .. n |-> pointer[<<ns, LineOf(Rising(keys), keys)[j]>>]]
    OBVIOUS
  <2>3. line \in [1 .. n -> Shown(ns)]
    BY <1>5, <2>1, <2>2
  <2>4. line \in Seq(Shown(ns)) /\ Len(line) = n
    BY <2>3
  <2> QED
    BY <1>4, <2>1, <2>2, <2>4
<1> QED
  BY <1>1, <1>3, <1>4, <1>6

LEMMA PageIs ==
  ASSUME NEW S, NEW line \in Seq(S)
  PROVE  /\ Page(line) \in Seq(S)
         /\ Len(Page(line)) = IF Len(line) < MaxShown THEN Len(line) ELSE MaxShown
         /\ \A j \in DOMAIN Page(line) : j \in DOMAIN line /\ Page(line)[j] = line[j]
<1> DEFINE m == IF Len(line) < MaxShown THEN Len(line) ELSE MaxShown
<1>1. m \in Nat /\ m <= Len(line) /\ Len(line) \in Nat
  BY RecallAssumption
<1> HIDE DEF m
<1>2. SubSeq(line, 1, m) \in Seq(S) /\ Len(SubSeq(line, 1, m)) = m
  BY <1>1
<1>3. \A j \in 1 .. m : SubSeq(line, 1, m)[j] = line[j]
  BY <1>1
<1>4. Page(line) = SubSeq(line, 1, m)
  BY DEF Page, m
<1> QED
  BY <1>1, <1>2, <1>3, <1>4 DEF m

(* A row that can be read is the one that was written. *)
LEMMA IntactVersion ==
  ASSUME SInv, NEW i, Intact("versions", i)
  PROVE  i \in ProvenVersions /\ rows.versions[i] = log[i].version
BY DEF SInv, RowsHonest, VersionsHonest, Intact

LEMMA IntactProposal ==
  ASSUME SInv, NEW p, Intact("proposals", p)
  PROVE  p \in ProvenProposals /\ rows.proposals[p] = log[p].proposal
BY DEF SInv, RowsHonest, ProposalsHonest, Intact

(* What is shown to be there has its row. *)
LEMMA ShownRow ==
  ASSUME IInv, SInv, NEW ns \in Namespaces, EntryRowsSound(ns), NEW ref \in Shown(ns)
  PROVE  IsVersion(ref) /\ rows.versions[ref.id] = log[ref.id].version
<1>1. PICK k \in Present(ns) : ref = pointer[<<ns, k>>]
  BY DEF Shown
<1>2. <<ns, k>> \in PlacesIn(ns) /\ ref # NoEntry /\ IsVersion(ref)
  BY <1>1, ShownVersion DEF PlacesIn
<1>3. Intact("versions", ref.id)
  BY <1>1, <1>2 DEF EntryRowsSound
<1> QED
  BY <1>2, <1>3, IntactVersion

-----------------------------------------------------------------------------
(* What a read recorded is borne out by the stream *)

FaithfulRefs(refs, view) ==
    /\ \A j \in DOMAIN refs : IsVersion(refs[j])
    /\ view = [j \in DOMAIN refs |-> log[refs[j].id].version]

FaithfulList(ns, e, view, n) == e.edition = EditionAt(ns, n) /\ FaithfulRefs(e.refs, view)

FaithfulEntry(ns, e, view, n) ==
    e.edition = EditionAt(ns, n) /\ IsVersion(e.ref) /\ view = log[e.ref.id].version

FaithfulProposals(ns, e, view, n) ==
    /\ e.edition = EditionAt(ns, n)
    /\ \A j \in DOMAIN e.shown : e.shown[j].id \in ProvenProposals
    /\ view = [j \in DOMAIN e.shown |-> [proposal |-> log[e.shown[j].id].proposal,
                                         status |-> e.shown[j].status]]

FaithfulProposal(q, e, view, doubtful, after, n) ==
    LET pl == log[q.id].proposal.place IN
    /\ q.id \in ProvenProposals
    /\ doubtful \/ view = [proposal |-> log[q.id].proposal, status |-> e.status,
                           current |-> MemoryAt(after).current[pl], owner |-> EditionAt(pl[1], n)]

FaithfulSnapshot(q, e, view, n) ==
    /\ q.edition <= EditionAt(q.ns, n)
    /\ SnapshotSound(q.request, e)
    /\ FaithfulRefs(e.entries, view.entries)
    /\ view = [entries |-> view.entries, summaries |-> e.summaries]

Faithful(q, e, view, doubtful, after, n) ==
    \/ q.read = "entries" /\ FaithfulList(q.ns, e, view, n)
    \/ q.read = "history" /\ FaithfulList(q.place[1], e, view, n)
    \/ q.read \in {"entry", "version"} /\ FaithfulEntry(q.place[1], e, view, n)
    \/ q.read = "proposals" /\ FaithfulProposals(q.ns, e, view, n)
    \/ q.read = "proposal" /\ FaithfulProposal(q, e, view, doubtful, after, n)
    \/ q.read = "summaries" /\ e.edition = EditionAt(q.ns, n) /\ view = e.summaries
    \/ q.read = "summary" /\ e.summary.edition <= EditionAt(e.summary.ns, n) /\ view = e.summary
    \/ q.read = "snapshot" /\ FaithfulSnapshot(q, e, view, n)

(* A read as it is recorded *)
Records(q, e, view) ==
    Record(q, e, view) /\ Faithful(q, e, view, tampered, Len(log), Len(others))

LEMMA EntriesRecorded ==
  ASSUME IInv, SInv, NEW ns \in Namespaces, ListMemoryEntries(ns)
  PROVE  \E q, e, view : Records(q, e, view)
<1> DEFINE line == KeyLine(ns, Present(ns))
           refs == Page(line)
           q == [read |-> "entries", ns |-> ns]
           e == [edition |-> Edition(ns), refs |-> refs, total |-> Len(line)]
<1>1. EntryRowsSound(ns) /\ Record(q, e, Rows(refs))
  BY DEF ListMemoryEntries
<1>2. refs \in Seq(Shown(ns))
  BY KeyLineIs, PageIs
<1>3. \A j \in DOMAIN refs : /\ IsVersion(refs[j])
                             /\ rows.versions[refs[j].id] = log[refs[j].id].version
  BY <1>1, <1>2, ShownRow
<1>4. FaithfulRefs(refs, Rows(refs))
  BY <1>3 DEF FaithfulRefs, Rows
<1>5. FaithfulList(ns, e, Rows(refs), Len(others))
  BY <1>4 DEF FaithfulList, Edition
<1>6. Faithful(q, e, Rows(refs), tampered, Len(log), Len(others))
  BY <1>5 DEF Faithful
<1> QED
  BY <1>1, <1>6 DEF Records

LEMMA EntryRecorded ==
  ASSUME IInv, SInv, NEW pl \in Places, ShowMemoryEntry(pl)
  PROVE  \E q, e, view : Records(q, e, view)
<1> DEFINE q == [read |-> "entry", place |-> pl]
           e == [edition |-> Edition(pl[1]), ref |-> pointer[pl]]
           view == rows.versions[pointer[pl].id]
<1>1. Readable(pl) /\ pointer[pl].value # Tombstone /\ Record(q, e, view)
  BY DEF ShowMemoryEntry
<1>2. pointer[pl] # NoEntry
  BY <1>1 DEF NoEntry
<1>3. IsVersion(pointer[pl]) /\ pointer[pl].id # None
  BY <1>2, KnownVersion DEF IInv, PointersAreKnown
<1>4. Intact("versions", pointer[pl].id)
  BY <1>1, <1>3 DEF Readable, Loadable
<1>5. view = log[pointer[pl].id].version
  BY <1>4, IntactVersion
<1>6. FaithfulEntry(pl[1], e, view, Len(others))
  BY <1>3, <1>5 DEF FaithfulEntry, Edition
<1>7. Faithful(q, e, view, tampered, Len(log), Len(others))
  BY <1>6 DEF Faithful
<1> QED
  BY <1>1, <1>7 DEF Records

LEMMA VersionRecorded ==
  ASSUME IInv, SInv, NEW pl \in Places, NEW number, ShowMemoryEntryVersion(pl, number)
  PROVE  \E q, e, view : Records(q, e, view)
<1> DEFINE q == [read |-> "version", place |-> pl, number |-> number]
<1>1. PICK i \in VersionsOf(pl) :
        /\ Loadable(i) /\ rows.versions[i].number = number
        /\ Record(q, [edition |-> Edition(pl[1]), ref |-> Ref(i, rows.versions[i])],
                  rows.versions[i])
  BY DEF ShowMemoryEntryVersion
<1> DEFINE e == [edition |-> Edition(pl[1]), ref |-> Ref(i, rows.versions[i])]
           view == rows.versions[i]
<1>2. i \in ProvenVersions /\ rows.versions[i] = log[i].version
  BY <1>1, IntactVersion DEF Loadable
<1>3. e.ref.id = i
  BY DEF Ref
<1>4. FaithfulEntry(pl[1], e, view, Len(others))
  BY <1>2, <1>3 DEF FaithfulEntry, Edition, IsVersion
<1>5. Faithful(q, e, view, tampered, Len(log), Len(others))
  BY <1>4 DEF Faithful
<1> QED
  BY <1>1, <1>5 DEF Records

LEMMA LineIsSeq ==
  ASSUME NEW S, NEW n \in Nat, NEW f \in [1 .. n -> S]
  PROVE  f \in Seq(S) /\ Len(f) = n
OBVIOUS

LEMMA DownIsLine ==
  ASSUME NEW S \in SUBSET Nat, IsFiniteSet(S)
  PROVE  /\ Sorted(S, >) \in Seq(S) /\ Len(Sorted(S, >)) = Cardinality(S)
         /\ Sorted(S, >) = LineOf(Falling(S), S)
<1>1. Sorted(S, >) = LineOf(Falling(S), S)
  BY SortedDown
<1>2. Cardinality(S) \in Nat /\ \A j \in 1 .. Cardinality(S) : LineOf(Falling(S), S)[j] \in S
  BY NumbersAreOrdered, LineIsSorted
<1>3. LineOf(Falling(S), S) \in [1 .. Cardinality(S) -> S]
  BY <1>2 DEF LineOf
<1> QED
  BY <1>1, <1>2, <1>3, LineIsSeq

LEMMA UpIsLine ==
  ASSUME NEW S \in SUBSET Nat, IsFiniteSet(S)
  PROVE  /\ Sorted(S, <) \in Seq(S) /\ Len(Sorted(S, <)) = Cardinality(S)
         /\ Sorted(S, <) = LineOf(Rising(S), S)
<1>1. Sorted(S, <) = LineOf(Rising(S), S)
  BY SortedUp
<1>2. Cardinality(S) \in Nat /\ \A j \in 1 .. Cardinality(S) : LineOf(Rising(S), S)[j] \in S
  BY NumbersAreOrdered, LineIsSorted
<1>3. LineOf(Rising(S), S) \in [1 .. Cardinality(S) -> S]
  BY <1>2 DEF LineOf
<1> QED
  BY <1>1, <1>2, <1>3, LineIsSeq

LEMMA HistoryRecorded ==
  ASSUME IInv, SInv, NEW pl \in Places, ShowMemoryEntryHistory(pl)
  PROVE  \E q, e, view : Records(q, e, view)
<1> DEFINE line == Sorted(VersionsOf(pl), >)
           refs == [j \in DOMAIN Page(line) |-> Ref(line[j], rows.versions[line[j]])]
           q == [read |-> "history", place |-> pl]
           e == [edition |-> Edition(pl[1]), refs |-> refs, total |-> Len(line)]
<1>1. BatchSound(VersionsOf(pl), Range(Page(line))) /\ Record(q, e, Rows(refs))
  BY DEF ShowMemoryEntryHistory
<1>2. \A i \in VersionsOf(pl) : i \in ProvenVersions /\ rows.versions[i] = log[i].version
  BY <1>1, IntactVersion DEF BatchSound
<1>3. VersionsOf(pl) \in SUBSET Nat /\ IsFiniteSet(VersionsOf(pl))
  BY <1>2, ProvenFinite, FS_Subset DEF IInv
<1>4. line \in Seq(VersionsOf(pl))
  BY <1>3, DownIsLine
<1> HIDE DEF line
<1>5. \A j \in DOMAIN Page(line) : line[j] \in VersionsOf(pl)
  BY <1>4, PageIs
<1>6. \A j \in DOMAIN refs : /\ refs[j].id = line[j] /\ IsVersion(refs[j])
                             /\ rows.versions[refs[j].id] = log[refs[j].id].version
  BY <1>2, <1>5 DEF IsVersion, Ref
<1>7. FaithfulRefs(refs, Rows(refs))
  BY <1>6 DEF FaithfulRefs, Rows
<1>8. FaithfulList(pl[1], e, Rows(refs), Len(others))
  BY <1>7 DEF FaithfulList, Edition
<1>9. Faithful(q, e, Rows(refs), tampered, Len(log), Len(others))
  BY <1>8 DEF Faithful
<1> QED
  BY <1>1, <1>9 DEF Records

StatusesAreKnown == DOMAIN status \subseteq ProvenProposals

(* The proposals of a namespace that its tables list *)
Listed(ns, pending) ==
    {p \in DOMAIN status : /\ log[p].proposal.place \in PlacesIn(ns)
                           /\ pending => status[p] = Pending}

LEMMA ProposalLine ==
  ASSUME IInv, StatusesAreKnown, NEW ns, NEW pending \in BOOLEAN
  PROVE  /\ Listed(ns, pending) \in SUBSET Nat /\ IsFiniteSet(Listed(ns, pending))
         /\ ProposalsOf(ns, pending) \in Seq(Listed(ns, pending))
         /\ Len(ProposalsOf(ns, pending)) = Cardinality(Listed(ns, pending))
         /\ pending => ProposalsOf(ns, pending) =
                         LineOf(Rising(Listed(ns, pending)), Listed(ns, pending))
         /\ ~pending => ProposalsOf(ns, pending) =
                          LineOf(Falling(Listed(ns, pending)), Listed(ns, pending))
<1>1. Listed(ns, pending) \in SUBSET ProvenProposals
  BY DEF Listed, StatusesAreKnown
<1>2. Listed(ns, pending) \in SUBSET Nat /\ IsFiniteSet(Listed(ns, pending))
  BY <1>1, ProvenFinite, FS_Subset DEF IInv
<1>3. PICK S : S = Listed(ns, pending)
  OBVIOUS
<1>4. ProposalsOf(ns, pending) = IF pending THEN Sorted(S, <) ELSE Sorted(S, >)
  BY <1>3 DEF ProposalsOf, Listed
<1>5. /\ Sorted(S, <) \in Seq(S) /\ Len(Sorted(S, <)) = Cardinality(S)
      /\ Sorted(S, <) = LineOf(Rising(S), S)
  BY <1>2, <1>3, UpIsLine
<1>6. /\ Sorted(S, >) \in Seq(S) /\ Len(Sorted(S, >)) = Cardinality(S)
      /\ Sorted(S, >) = LineOf(Falling(S), S)
  BY <1>2, <1>3, DownIsLine
<1>7. CASE pending
  BY <1>2, <1>3, <1>4, <1>5, <1>7
<1>8. CASE ~pending
  BY <1>2, <1>3, <1>4, <1>6, <1>8
<1> QED
  BY <1>7, <1>8

LEMMA ProposalsRecorded ==
  ASSUME IInv, SInv, StatusesAreKnown, NEW ns \in Namespaces, NEW pending \in BOOLEAN,
         ListMemoryProposals(ns, pending)
  PROVE  \E q, e, view : Records(q, e, view)
<1> DEFINE line == ProposalsOf(ns, pending)
           shown == [j \in DOMAIN Page(line) |-> [id |-> line[j], status |-> status[line[j]].status]]
           q == [read |-> "proposals", ns |-> ns, pending |-> pending]
           e == [edition |-> Edition(ns), total |-> Len(line), shown |-> shown]
           view == [j \in DOMAIN Page(line) |-> [proposal |-> rows.proposals[line[j]],
                                                 status |-> status[line[j]].status]]
<1>1. ProposalRowsSound(ns) /\ Record(q, e, view)
  BY DEF ListMemoryProposals
<1>2. line \in Seq(Listed(ns, pending))
  BY ProposalLine
<1> HIDE DEF line
<1>3. \A j \in DOMAIN Page(line) : line[j] \in Listed(ns, pending)
  BY <1>2, PageIs
<1>4. ProposalsFit(ns, pending, e)
  BY <1>1 DEF Record, ReadFits
<1>5. ASSUME NEW j \in DOMAIN Page(line)
      PROVE  line[j] \in ProvenProposals /\ rows.proposals[line[j]] = log[line[j]].proposal
  <2>1. shown[j].id = line[j] /\ j \in DOMAIN shown
    OBVIOUS
  <2>2. /\ line[j] \in DOMAIN memory.proposals
        /\ memory.proposals[line[j]].place \in PlacesIn(ns)
    BY <1>4, <2>1 DEF ProposalsFit
  <2>3. line[j] \in ProvenProposals /\ log[line[j]].proposal.place \in PlacesIn(ns)
    BY <2>2 DEF IInv, Reduced
  <2>4. line[j] \in DOMAIN status
    BY <1>3 DEF Listed
  <2>5. Coherent(line[j])
    BY <1>1, <2>3, <2>4 DEF ProposalRowsSound
  <2> QED
    BY <2>5, IntactProposal DEF Coherent
<1>6. FaithfulProposals(ns, e, view, Len(others))
  <2>1. \A j \in DOMAIN e.shown : e.shown[j].id = line[j] /\ j \in DOMAIN Page(line)
    OBVIOUS
  <2>2. view = [j \in DOMAIN e.shown |-> [proposal |-> log[e.shown[j].id].proposal,
                                          status |-> e.shown[j].status]]
    BY <1>5
  <2> QED
    BY <1>5, <2>1, <2>2 DEF FaithfulProposals, Edition
<1>7. Faithful(q, e, view, tampered, Len(log), Len(others))
  BY <1>6 DEF Faithful
<1> QED
  BY <1>1, <1>7 DEF Records

LEMMA ProposalRecorded ==
  ASSUME IInv, SInv, IsReplay, NEW p \in DOMAIN rows.proposals \ {Foreign}, ShowMemoryProposal(p)
  PROVE  \E q, e, view : Records(q, e, view)
<1> DEFINE pl == rows.proposals[p].place
           q == [read |-> "proposal", id |-> p]
           e == [status |-> status[p]]
           view == [proposal |-> rows.proposals[p], status |-> status[p],
                    current |-> pointer[pl], owner |-> Edition(pl[1])]
<1>1. serving /\ ProposalLoadable(p) /\ Record(q, e, view)
  BY DEF ShowMemoryProposal
<1>2. p \in ProvenProposals /\ rows.proposals[p] = log[p].proposal
  BY <1>1, IntactProposal DEF ProposalLoadable, Coherent
<1>3. ~tampered => pointer = memory.current
  BY <1>1 DEF IInv, TablesTellTheStream
<1>4. memory = MemoryAt(Len(log))
  BY DEF IsReplay
<1>5. FaithfulProposal(q, e, view, tampered, Len(log), Len(others))
  <2>1. tampered \/ view = [proposal |-> log[p].proposal, status |-> e.status,
                            current |-> MemoryAt(Len(log)).current[log[p].proposal.place],
                            owner |-> EditionAt(log[p].proposal.place[1], Len(others))]
    BY <1>2, <1>3, <1>4 DEF Edition
  <2> QED
    BY <1>2, <2>1 DEF FaithfulProposal
<1>6. Faithful(q, e, view, tampered, Len(log), Len(others))
  BY <1>5 DEF Faithful
<1> QED
  BY <1>1, <1>6 DEF Records

LEMMA SummariesRecorded ==
  ASSUME NEW ns \in Namespaces, ListEpisodicSummaries(ns)
  PROVE  \E q, e, view : Records(q, e, view)
<1> DEFINE line == Summaries({s \in Episodes : s.ns = ns})
           q == [read |-> "summaries", ns |-> ns]
           e == [edition |-> Edition(ns), summaries |-> Page(line), total |-> Len(line)]
<1>1. Record(q, e, Page(line))
  BY DEF ListEpisodicSummaries
<1> HIDE DEF line
<1>2. Faithful(q, e, Page(line), tampered, Len(log), Len(others))
  BY DEF Faithful, Edition
<1> QED
  BY <1>1, <1>2 DEF Records

LEMMA SummaryRecorded ==
  ASSUME NEW s \in Episodes, ShowEpisodicSummary(s)
  PROVE  \E q, e, view : Records(q, e, view)
<1> DEFINE q == [read |-> "summary", summary |-> s]
           e == [summary |-> s]
<1>1. Record(q, e, s)
  BY DEF ShowEpisodicSummary
<1>2. s.edition <= Edition(s.ns)
  BY <1>1 DEF Record, ReadFits
<1>3. Faithful(q, e, s, tampered, Len(log), Len(others))
  BY <1>2 DEF Faithful, Edition
<1> QED
  BY <1>1, <1>3 DEF Records

-----------------------------------------------------------------------------
(* A snapshot has its entries from the lines of those that are shown. *)

LEMMA ShownItem ==
  ASSUME IInv, NEW ns \in Namespaces, NEW ref \in Shown(ns)
  PROVE  /\ EntryItem(ref).what = ref /\ EntryItem(ref).tags = TagsOf[ref.value]
         /\ EntryItem(ref).size = SizeOf[ref.value] /\ EntryItem(ref).size \in Nat
         /\ EntryItem(ref).sources = 0 /\ ref.value \in Values
<1>1. PICK k \in Present(ns) : ref = pointer[<<ns, k>>]
  BY DEF Shown
<1>2. <<ns, k>> \in Places /\ ref.value # Tombstone
  BY <1>1, ShownVersion DEF Present
<1>3. ref \in Heads
  BY <1>1, <1>2 DEF IInv, PointersAreKnown
<1>4. ref.value \in Values
  BY <1>2, <1>3 DEF Heads, Operations
<1> QED
  BY <1>4, RecallAssumption DEF EntryItem

ForPurpose(ns, purpose) == {k \in Present(ns) : TagsOf[pointer[<<ns, k>>].value] \cap purpose # {}}
ForAny(ns) == {k \in Present(ns) : TagsOf[pointer[<<ns, k>>].value] = {}}

LEMMA EntryStreamIs ==
  ASSUME IInv, NEW ns \in Namespaces, NEW purpose
  PROVE  \E line \in Seq(Shown(ns)) :
           /\ line = KeyLine(ns, ForPurpose(ns, purpose)) \o KeyLine(ns, ForAny(ns))
           /\ EntryStream(ns, purpose) = [j \in 1 .. Len(line) |-> EntryItem(line[j])]
           /\ Len(EntryStream(ns, purpose)) = Len(line)
           /\ Itemised(EntryStream(ns, purpose), Len(line), Shown(ns))
<1>1. PICK line : line = KeyLine(ns, ForPurpose(ns, purpose)) \o KeyLine(ns, ForAny(ns))
  OBVIOUS
<1>2. /\ KeyLine(ns, ForPurpose(ns, purpose)) \in Seq(Shown(ns))
      /\ KeyLine(ns, ForAny(ns)) \in Seq(Shown(ns))
  BY KeyLineIs DEF ForPurpose, ForAny
<1>3. line \in Seq(Shown(ns)) /\ DOMAIN line = 1 .. Len(line) /\ Len(line) \in Nat
  BY <1>1, <1>2
<1>4. EntryStream(ns, purpose) = [j \in 1 .. Len(line) |-> EntryItem(line[j])]
  BY <1>1, <1>3 DEF EntryStream, EntryItems, ForPurpose, ForAny
<1>5. Len(EntryStream(ns, purpose)) = Len(line)
  <2>1. PICK S : \A j \in 1 .. Len(line) : EntryItem(line[j]) \in S
    <3>1. \A j \in 1 .. Len(line) : EntryItem(line[j]) \in {EntryItem(x) : x \in Shown(ns)}
      BY <1>3
    <3> QED
      BY <3>1
  <2>2. EntryStream(ns, purpose) \in [1 .. Len(line) -> S]
    BY <1>4, <2>1
  <2> QED
    BY <1>3, <2>2, LineIsSeq
<1>6. Itemised(EntryStream(ns, purpose), Len(line), Shown(ns))
  <2>1. \A j \in 1 .. Len(line) : line[j] \in Shown(ns)
    BY <1>3
  <2> QED
    BY <1>4, <2>1, ShownItem DEF Itemised
<1> QED
  BY <1>1, <1>3, <1>4, <1>5, <1>6

NoAccount == [admitted |-> << >>, omitted |-> 0, bytes |-> 0, sources |-> 0]

LEMMA SnapshotRecorded ==
  ASSUME IInv, SInv, NEW ns \in Namespaces, NEW edition, NEW request,
         BuildMemorySnapshot(ns, edition, request)
  PROVE  \E q, e, view : Records(q, e, view)
<1> DEFINE all == {s \in Episodes : s.ns = ns /\ s.edition = edition}
           entries == EntryStream(ns, request.purpose)
           built == Built(request, entries, SummaryStream(all, request.purpose))
           q == [read |-> "snapshot", ns |-> ns, edition |-> edition, request |-> request]
           view == [entries |-> Rows(built.entries), summaries |-> built.summaries]
<1>1. /\ edition <= Edition(ns) /\ EntryRowsSound(ns) /\ SnapshotSound(request, built)
      /\ Record(q, built, view)
  BY DEF BuildMemorySnapshot
<1>2. PICK line \in Seq(Shown(ns)) :
        Len(entries) = Len(line) /\ Itemised(entries, Len(line), Shown(ns))
  BY EntryStreamIs
<1>3. NoAccount \in Accounts(Shown(ns))
  BY DEF NoAccount, Accounts
<1>4. built.entries = Considered(request, request.maxEntries, NoAccount, entries).admitted
  BY DEF Built, NoAccount
<1> HIDE DEF built, entries
<1>5. built.entries \in Seq(Shown(ns))
  <2>1. PICK n \in Nat : n = Len(line)
    OBVIOUS
  <2>2. n = Len(entries) /\ Itemised(entries, n, Shown(ns))
    BY <1>2, <2>1
  <2>3. PICK W, most : W = Shown(ns) /\ most = request.maxEntries
    OBVIOUS
  <2>4. Considered(request, most, NoAccount, entries) \in Accounts(W)
    BY <1>3, <2>2, <2>3, ChoiceTyped
  <2> QED
    BY <1>4, <2>3, <2>4 DEF Accounts
<1>6. \A j \in DOMAIN built.entries :
        /\ IsVersion(built.entries[j])
        /\ rows.versions[built.entries[j].id] = log[built.entries[j].id].version
  BY <1>1, <1>5, ShownRow
<1>7. FaithfulRefs(built.entries, Rows(built.entries))
  BY <1>6 DEF FaithfulRefs, Rows
<1>8. FaithfulSnapshot(q, built, view, Len(others))
  BY <1>1, <1>7 DEF FaithfulSnapshot, Edition
<1>9. Faithful(q, built, view, tampered, Len(log), Len(others))
  BY <1>8 DEF Faithful
<1> QED
  BY <1>1, <1>9 DEF Records

OthersTyped == others \in Seq(Range(others))

FaithfulRead(n) ==
    LET r == others[n] IN
    r.after \in 0 .. Len(log) /\ Faithful(r.request, r.event, r.view, r.doubtful, r.after, n)

ReadsAreFaithful == \A n \in Reads : FaithfulRead(n)

RInv ==
    /\ IInv /\ SInv /\ StatusesAreKnown /\ IsReplay
    /\ OthersTyped /\ ReadsAreFaithful

LEMMA VersionStays ==
  ASSUME \A j \in DOMAIN log : j \in DOMAIN log' /\ log'[j] = log[j],
         NEW ref, IsVersion(ref)
  PROVE  IsVersion(ref)' /\ log'[ref.id].version = log[ref.id].version
BY DEF IsVersion, ProvenVersions

LEMMA RefsStay ==
  ASSUME \A j \in DOMAIN log : j \in DOMAIN log' /\ log'[j] = log[j],
         NEW refs, NEW view, FaithfulRefs(refs, view)
  PROVE  FaithfulRefs(refs, view)'
<1>1. \A j \in DOMAIN refs :
        IsVersion(refs[j])' /\ log'[refs[j].id].version = log[refs[j].id].version
  BY VersionStays DEF FaithfulRefs
<1> QED
  BY <1>1 DEF FaithfulRefs

LEMMA ProposalStays ==
  ASSUME \A j \in DOMAIN log : j \in DOMAIN log' /\ log'[j] = log[j],
         NEW p \in ProvenProposals
  PROVE  p \in ProvenProposals' /\ log'[p].proposal = log[p].proposal
BY DEF ProvenProposals

LEMMA FaithfulStays ==
  ASSUME \A j \in DOMAIN log : j \in DOMAIN log' /\ log'[j] = log[j],
         NEW after, MemoryAt(after)' = MemoryAt(after),
         NEW n, NEW m, \A ns : EditionAt(ns, m)' = EditionAt(ns, n),
         NEW q, NEW e, NEW view, NEW doubtful, Faithful(q, e, view, doubtful, after, n)
  PROVE  Faithful(q, e, view, doubtful, after, m)'
<1>1. CASE q.read = "entries" /\ FaithfulList(q.ns, e, view, n)
  <2>1. FaithfulList(q.ns, e, view, m)'
    BY <1>1, RefsStay DEF FaithfulList
  <2> QED
    BY <1>1, <2>1 DEF Faithful
<1>2. CASE q.read = "history" /\ FaithfulList(q.place[1], e, view, n)
  <2>1. FaithfulList(q.place[1], e, view, m)'
    BY <1>2, RefsStay DEF FaithfulList
  <2> QED
    BY <1>2, <2>1 DEF Faithful
<1>3. CASE q.read \in {"entry", "version"} /\ FaithfulEntry(q.place[1], e, view, n)
  <2>1. FaithfulEntry(q.place[1], e, view, m)'
    BY <1>3, VersionStays DEF FaithfulEntry
  <2> QED
    BY <1>3, <2>1 DEF Faithful
<1>4. CASE q.read = "proposals" /\ FaithfulProposals(q.ns, e, view, n)
  <2>1. \A j \in DOMAIN e.shown :
          /\ e.shown[j].id \in ProvenProposals'
          /\ log'[e.shown[j].id].proposal = log[e.shown[j].id].proposal
    BY <1>4, ProposalStays DEF FaithfulProposals
  <2>2. FaithfulProposals(q.ns, e, view, m)'
    BY <1>4, <2>1 DEF FaithfulProposals
  <2> QED
    BY <1>4, <2>2 DEF Faithful
<1>5. CASE q.read = "proposal" /\ FaithfulProposal(q, e, view, doubtful, after, n)
  <2>1. q.id \in ProvenProposals' /\ log'[q.id].proposal = log[q.id].proposal
    BY <1>5, ProposalStays DEF FaithfulProposal
  <2>2. FaithfulProposal(q, e, view, doubtful, after, m)'
    BY <1>5, <2>1 DEF FaithfulProposal
  <2> QED
    BY <1>5, <2>2 DEF Faithful
<1>6. CASE q.read = "summaries" /\ e.edition = EditionAt(q.ns, n) /\ view = e.summaries
  BY <1>6 DEF Faithful
<1>7. CASE /\ q.read = "summary" /\ e.summary.edition <= EditionAt(e.summary.ns, n)
           /\ view = e.summary
  BY <1>7 DEF Faithful
<1>8. CASE q.read = "snapshot" /\ FaithfulSnapshot(q, e, view, n)
  <2>1. FaithfulSnapshot(q, e, view, m)'
    BY <1>8, RefsStay DEF FaithfulSnapshot
  <2> QED
    BY <1>8, <2>1 DEF Faithful
<1> QED
  BY <1>1, <1>2, <1>3, <1>4, <1>5, <1>6, <1>7, <1>8 DEF Faithful

-----------------------------------------------------------------------------
(* Editions as of an event *)

LEMMA EditionStays ==
  ASSUME NEW n, \A k \in 1 .. n : others'[k] = others[k]
  PROVE  \A ns : EditionAt(ns, n)' = EditionAt(ns, n)
<1> SUFFICES ASSUME NEW ns
             PROVE  EditionAt(ns, n)' = EditionAt(ns, n)
  OBVIOUS
<1>1. {k \in 1 .. n : others'[k] = Upgraded(ns)} = {k \in 1 .. n : others[k] = Upgraded(ns)}
  OBVIOUS
<1> QED
  BY <1>1 DEF EditionAt

LEMMA ReadIsNoEdition ==
  ASSUME NEW n \in Nat, \A k \in 1 .. n : others'[k] = others[k],
         NEW m, m = n + 1, others'[m].kind = "read"
  PROVE  \A ns : EditionAt(ns, m)' = EditionAt(ns, n)
<1> SUFFICES ASSUME NEW ns
             PROVE  EditionAt(ns, m)' = EditionAt(ns, n)
  OBVIOUS
<1>1. others'[m] # Upgraded(ns)
  BY DEF Upgraded
<1>2. {k \in 1 .. m : others'[k] = Upgraded(ns)} = {k \in 1 .. n : others[k] = Upgraded(ns)}
  BY <1>1
<1> QED
  BY <1>2 DEF EditionAt

-----------------------------------------------------------------------------
(* Every step *)

LEMMA StatusStep ==
  ASSUME IInv, StatusesAreKnown, [Next]_vars
  PROVE  StatusesAreKnown'
<1>1. IInv'
  BY StepInv
<1>2. DOMAIN memory'.status = ProvenProposals'
  BY <1>1 DEF IInv, Reduced
<1>3. CASE Commands
  <2>1. PICK event : Commit(event) /\ EventSound(event)
    BY <1>3, CommandsCommit
  <2> QED
    BY <1>2, <2>1 DEF Commit, ReplaceCurrent, StatusesAreKnown
<1>4. CASE OtherCommand \/ Start
  BY <1>2, <1>4 DEF OtherCommand, Start, ReplaceCurrent, StatusesAreKnown
<1>5. CASE Stop \/ UNCHANGED vars
  <2>1. UNCHANGED <<log, status>>
    BY <1>5 DEF Stop, vars
  <2> QED
    BY <2>1 DEF StatusesAreKnown, ProvenProposals
<1>6. CASE Damage
  <2>1. UNCHANGED log
    BY <1>6 DEF Damage, ForgeRow, LoseRow, AlterRow, DriftPointer, DriftStatus, Tamper
  <2>2. DOMAIN status' \subseteq DOMAIN status
    <3>1. ASSUME NEW t, NEW id, ForgeRow(t) \/ LoseRow(t, id) \/ AlterRow(t, id)
          PROVE  DOMAIN status' \subseteq DOMAIN status
      BY <3>1 DEF ForgeRow, LoseRow, AlterRow
    <3>2. ASSUME NEW pl, NEW ref, DriftPointer(pl, ref)
          PROVE  DOMAIN status' \subseteq DOMAIN status
      BY <3>2 DEF DriftPointer
    <3>3. ASSUME NEW p, NEW to, DriftStatus(p, to)
          PROVE  DOMAIN status' \subseteq DOMAIN status
      BY <3>3 DEF DriftStatus
    <3> QED
      BY <1>6, <3>1, <3>2, <3>3 DEF Damage
  <2> QED
    BY <2>1, <2>2 DEF StatusesAreKnown, ProvenProposals
<1> QED
  BY <1>3, <1>4, <1>5, <1>6 DEF Next

(* A read is recorded, or a profile has a new edition. *)
LEMMA ReadRecords ==
  ASSUME RInv, ReadNext
  PROVE  OtherCommand /\ \/ \E q, e, view : Records(q, e, view)
                         \/ \E ns : others' = Append(others, Upgraded(ns))
<1>1. ASSUME \E q, e, view : Records(q, e, view)
      PROVE  OtherCommand
  BY <1>1 DEF Records, Record
<1>2. ASSUME NEW ns \in Namespaces, Upgrade(ns)
      PROVE  OtherCommand /\ others' = Append(others, Upgraded(ns))
  BY <1>2 DEF Upgrade
<1>3. ASSUME NEW ns \in Namespaces, ListMemoryEntries(ns)
      PROVE  \E q, e, view : Records(q, e, view)
  BY <1>3, EntriesRecorded DEF RInv
<1>4. ASSUME NEW ns \in Namespaces, ListEpisodicSummaries(ns)
      PROVE  \E q, e, view : Records(q, e, view)
  BY <1>4, SummariesRecorded
<1>5. ASSUME NEW ns \in Namespaces, NEW pending \in BOOLEAN, ListMemoryProposals(ns, pending)
      PROVE  \E q, e, view : Records(q, e, view)
  BY <1>5, ProposalsRecorded DEF RInv
<1>6. ASSUME NEW ns \in Namespaces, NEW edition, NEW request,
             BuildMemorySnapshot(ns, edition, request)
      PROVE  \E q, e, view : Records(q, e, view)
  BY <1>6, SnapshotRecorded DEF RInv
<1>7. ASSUME NEW pl \in Places, ShowMemoryEntry(pl)
      PROVE  \E q, e, view : Records(q, e, view)
  BY <1>7, EntryRecorded DEF RInv
<1>8. ASSUME NEW pl \in Places, ShowMemoryEntryHistory(pl)
      PROVE  \E q, e, view : Records(q, e, view)
  BY <1>8, HistoryRecorded DEF RInv
<1>9. ASSUME NEW pl \in Places, NEW number, ShowMemoryEntryVersion(pl, number)
      PROVE  \E q, e, view : Records(q, e, view)
  BY <1>9, VersionRecorded DEF RInv
<1>10. ASSUME NEW p \in DOMAIN rows.proposals \ {Foreign}, ShowMemoryProposal(p)
       PROVE  \E q, e, view : Records(q, e, view)
  BY <1>10, ProposalRecorded DEF RInv
<1>11. ASSUME NEW s \in Episodes, ShowEpisodicSummary(s)
       PROVE  \E q, e, view : Records(q, e, view)
  BY <1>11, SummaryRecorded
<1>12. \/ \E q, e, view : Records(q, e, view)
       \/ \E ns \in Namespaces : Upgrade(ns)
  BY <1>3, <1>4, <1>5, <1>6, <1>7, <1>8, <1>9, <1>10, <1>11 DEF ReadNext
<1> QED
  BY <1>1, <1>2, <1>12

LEMMA ReadsStep ==
  ASSUME RInv, [Next]_vars, UNCHANGED others \/ \E x : others' = Append(others, x)
  PROVE  OthersTyped' /\ \A n \in Reads : n \in Reads' /\ FaithfulRead(n)'
<1> USE DEF RInv
<1>1. /\ Len(log) \in Nat /\ Len(log)' \in Nat /\ Len(log) <= Len(log)'
      /\ \A n \in 0 .. Len(log) : MemoryAt(n)' = MemoryAt(n)
      /\ \A j \in DOMAIN log : j \in DOMAIN log' /\ log'[j] = log[j]
  BY ReplayStep
<1>2. /\ OthersTyped' /\ DOMAIN others = 1 .. Len(others) /\ Len(others) \in Nat
      /\ DOMAIN others \subseteq DOMAIN others'
      /\ \A k \in DOMAIN others : others'[k] = others[k]
  <2>1. /\ others \in Seq(Range(others)) /\ DOMAIN others = 1 .. Len(others)
        /\ Len(others) \in Nat
    BY DEF OthersTyped
  <2>2. CASE UNCHANGED others
    BY <2>1, <2>2 DEF OthersTyped
  <2>3. ASSUME NEW x, others' = Append(others, x)
        PROVE  /\ OthersTyped' /\ DOMAIN others \subseteq DOMAIN others'
               /\ \A k \in DOMAIN others : others'[k] = others[k]
    <3>1. PICK S : S = Range(others) \cup {x}
      OBVIOUS
    <3>2. others \in Seq(S) /\ x \in S
      BY <2>1, <3>1
    <3>3. /\ others' \in Seq(S) /\ DOMAIN others \subseteq DOMAIN others'
          /\ \A k \in DOMAIN others : others'[k] = others[k]
          /\ Len(others') = Len(others) + 1 /\ others'[Len(others) + 1] = x
          /\ DOMAIN others' = 1 .. Len(others')
      BY <2>3, <3>2
    <3>4. others' \in [1 .. Len(others') -> Range(others')]
      BY <3>3 DEF Range
    <3>5. others' \in Seq(Range(others'))
      BY <2>1, <3>3, <3>4
    <3> QED
      BY <3>3, <3>5 DEF OthersTyped
  <2> QED
    BY <2>1, <2>2, <2>3
<1>3. ASSUME NEW n \in Reads
      PROVE  n \in Reads' /\ FaithfulRead(n)'
  <2>1. n \in DOMAIN others /\ n \in Nat /\ \A k \in 1 .. n : k \in DOMAIN others
    BY <1>2 DEF Reads
  <2>2. n \in Reads' /\ others'[n] = others[n]
    BY <1>2, <2>1 DEF Reads
  <2>3. \A ns : EditionAt(ns, n)' = EditionAt(ns, n)
    BY <1>2, <2>1, EditionStays
  <2>4. PICK q, e, view, doubtful, after :
          /\ q = others[n].request /\ e = others[n].event /\ view = others[n].view
          /\ doubtful = others[n].doubtful /\ after = others[n].after
    OBVIOUS
  <2>5. after \in 0 .. Len(log) /\ Faithful(q, e, view, doubtful, after, n)
    BY <2>4 DEF ReadsAreFaithful, FaithfulRead
  <2>6. Faithful(q, e, view, doubtful, after, n)'
    BY <1>1, <2>3, <2>5, FaithfulStays
  <2> QED
    BY <1>1, <2>2, <2>4, <2>5, <2>6 DEF FaithfulRead
<1> QED
  BY <1>2, <1>3

LEMMA RecordStep ==
  ASSUME RInv, OtherCommand, NEW q, NEW e, NEW view, Records(q, e, view)
  PROVE  ReadsAreFaithful'
<1> DEFINE N == Len(others) + 1
           r == [kind |-> "read", after |-> Len(log), request |-> q,
                 event |-> e, view |-> view, doubtful |-> tampered]
<1>1. others' = Append(others, r)
  BY DEF Records, Record
<1>2. [Next]_vars
  BY DEF Next
<1>3. \A n \in Reads : n \in Reads' /\ FaithfulRead(n)'
  <2>1. \E x : others' = Append(others, x)
    BY <1>1
  <2> QED
    BY <1>2, <2>1, ReadsStep
<1>4. /\ Len(others) \in Nat /\ DOMAIN others = 1 .. Len(others)
      /\ DOMAIN others' = DOMAIN others \cup {N} /\ others'[N] = r
      /\ \A k \in 1 .. Len(others) : others'[k] = others[k]
  <2>1. PICK S : S = Range(others) \cup {r}
    OBVIOUS
  <2>2. others \in Seq(S) /\ r \in S
    BY <2>1 DEF RInv, OthersTyped
  <2> HIDE DEF r
  <2> QED
    BY <1>1, <2>2
<1>5. Reads' = Reads \cup {N}
  <2>1. r.kind = "read"
    OBVIOUS
  <2> HIDE DEF r, N
  <2> QED
    BY <1>4, <2>1 DEF Reads
<1>6. UNCHANGED log /\ Len(log) \in Nat
  BY DEF OtherCommand, RInv, IInv, LogTyped
<1>7. PICK after, doubtful, n, m :
        after = Len(log) /\ doubtful = tampered /\ n = Len(others) /\ m = N
  OBVIOUS
<1>8. Faithful(q, e, view, doubtful, after, m)'
  <2>1. Faithful(q, e, view, doubtful, after, n)
    BY <1>7 DEF Records
  <2>2. MemoryAt(after)' = MemoryAt(after)
    BY <1>6 DEF MemoryAt
  <2>3. others'[m].kind = "read"
    BY <1>4, <1>7
  <2>4. \A ns : EditionAt(ns, m)' = EditionAt(ns, n)
    <3>1. n \in Nat /\ m = n + 1 /\ \A k \in 1 .. n : others'[k] = others[k]
      BY <1>4, <1>7
    <3> QED
      BY <2>3, <3>1, ReadIsNoEdition
  <2> QED
    BY <1>6, <2>1, <2>2, <2>4, FaithfulStays
<1>9. FaithfulRead(m)'
  <2>1. /\ r.request = q /\ r.event = e /\ r.view = view /\ r.doubtful = doubtful
        /\ r.after = after /\ after = Len(log)
    BY <1>7
  <2>2. others'[m] = r
    BY <1>4, <1>7
  <2> HIDE DEF r
  <2> QED
    BY <1>6, <1>8, <2>1, <2>2 DEF FaithfulRead
<1>10. ASSUME NEW k \in Reads'
       PROVE  FaithfulRead(k)'
  <2>1. CASE k = m
    BY <1>9, <2>1
  <2>2. CASE k \in Reads
    BY <1>3, <2>2
  <2> QED
    BY <1>5, <1>7, <2>1, <2>2
<1> QED
  BY <1>10 DEF ReadsAreFaithful

LEMMA UpgradeStep ==
  ASSUME RInv, [Next]_vars, UNCHANGED others \/ \E ns : others' = Append(others, Upgraded(ns))
  PROVE  ReadsAreFaithful'
<1>1. \A n \in Reads : n \in Reads' /\ FaithfulRead(n)'
  BY ReadsStep
<1>2. Reads' = Reads
  <2>1. CASE UNCHANGED others
    BY <2>1 DEF Reads
  <2>2. ASSUME NEW ns, others' = Append(others, Upgraded(ns))
        PROVE  Reads' = Reads
    <3>1. PICK x : x = Upgraded(ns)
      OBVIOUS
    <3>2. PICK S : S = Range(others) \cup {x}
      OBVIOUS
    <3>3. others \in Seq(S) /\ x \in S /\ others' = Append(others, x)
      BY <2>2, <3>1, <3>2 DEF RInv, OthersTyped
    <3>4. /\ DOMAIN others' = DOMAIN others \cup {Len(others) + 1}
          /\ others'[Len(others) + 1] = x /\ \A k \in DOMAIN others : others'[k] = others[k]
      BY <3>3
    <3>5. x.kind # "read"
      BY <3>1 DEF Upgraded
    <3> QED
      BY <3>4, <3>5 DEF Reads
  <2> QED
    BY <2>1, <2>2
<1> QED
  BY <1>1, <1>2 DEF ReadsAreFaithful

LEMMA RecallStep == RInv /\ [RecallNext]_<<vars, others>> => RInv'
<1> SUFFICES ASSUME RInv, [RecallNext]_<<vars, others>>
             PROVE  RInv'
  OBVIOUS
<1>1. [Next]_vars /\ \/ UNCHANGED others
                     \/ \E ns : others' = Append(others, Upgraded(ns))
                     \/ OtherCommand /\ \E q, e, view : Records(q, e, view)
  <2>1. CASE (Commands \/ Start \/ Stop \/ Damage) /\ UNCHANGED others
    BY <2>1 DEF Next
  <2>2. CASE ReadNext
    BY <2>2, ReadRecords DEF Next
  <2>3. CASE UNCHANGED <<vars, others>>
    BY <2>3
  <2> QED
    BY <2>1, <2>2, <2>3 DEF RecallNext
<1>2. IInv' /\ SInv' /\ StatusesAreKnown' /\ IsReplay'
  BY <1>1, StepInv, StepSourced, StatusStep, ReplayStep DEF RInv
<1>3. OthersTyped'
  <2>1. UNCHANGED others \/ \E x : others' = Append(others, x)
    BY <1>1 DEF Records, Record
  <2> QED
    BY <1>1, <2>1, ReadsStep
<1>4. ReadsAreFaithful'
  BY <1>1, RecordStep, UpgradeStep
<1> QED
  BY <1>2, <1>3, <1>4 DEF RInv

LEMMA RecallStarts == RecallInit => RInv
<1> SUFFICES ASSUME RecallInit
             PROVE  RInv
  OBVIOUS
<1>1. Init /\ others = << >> /\ log = << >> /\ memory = EmptyMemory /\ status = << >>
  BY DEF RecallInit, Init
<1>2. IInv /\ SInv
  BY <1>1, InitInv, InitSourced
<1>3. StatusesAreKnown
  BY <1>1 DEF StatusesAreKnown
<1>4. IsReplay
  <2>1. Len(log) = 0
    BY <1>1
  <2> QED
    BY <1>1, <2>1, MemoryAtStarts DEF IsReplay
<1>5. OthersTyped /\ ReadsAreFaithful
  BY <1>1 DEF OthersTyped, ReadsAreFaithful, Reads
<1> QED
  BY <1>2, <1>3, <1>4, <1>5 DEF RInv

(* Of any number of reads, events, editions and damages *)
THEOREM RecallInvariance == RecallSpec => []RInv
<1>1. RecallSpec => []RInv
  BY RecallStarts, RecallStep, PTL DEF RecallSpec
<1> QED
  BY <1>1

-----------------------------------------------------------------------------
(* What tables that tell the stream bear out *)

LEMMA VersionReplays ==
  ASSUME IInv, SInv, Told, NEW ref, IsVersion(ref)
  PROVE  Exact(ref) /\ rows.versions[ref.id] = log[ref.id].version
<1>1. ref.id \in ProvenVersions /\ ref = Ref(ref.id, log[ref.id].version)
  BY DEF IsVersion
<1> QED
  BY <1>1, AllLoadable, ToldRows DEF Exact

LEMMA RefsReplay ==
  ASSUME IInv, SInv, Told, NEW refs, NEW view, FaithfulRefs(refs, view)
  PROVE  Exactly(refs) /\ view = Rows(refs)
BY VersionReplays DEF FaithfulRefs, Exactly, Rows

LEMMA ReadAnsweredAgain ==
  ASSUME RInv, Told, NEW n \in Reads
  PROVE  \/ AnsweredAgain(n)
         \/ others[n].request.read = "proposal" /\ others[n].doubtful
<1> DEFINE q == others[n].request
           e == others[n].event
           view == others[n].view
           after == others[n].after
           doubtful == others[n].doubtful
<1>1. IInv /\ SInv /\ Faithful(q, e, view, doubtful, after, n)
  BY DEF RInv, ReadsAreFaithful, FaithfulRead
<1> HIDE DEF q, e, view, after, doubtful
<1>2. CASE q.read = "entries" /\ FaithfulList(q.ns, e, view, n)
  <2>1. EntriesReplay(q.ns, e, n) /\ view = Rows(e.refs)
    BY <1>1, <1>2, RefsReplay DEF FaithfulList, EntriesReplay
  <2> QED
    BY <1>2, <2>1 DEF AnsweredAgain, Replays, AnswerFrom, q, e, view
<1>3. CASE q.read = "history" /\ FaithfulList(q.place[1], e, view, n)
  <2>1. EntriesReplay(q.place[1], e, n) /\ view = Rows(e.refs)
    BY <1>1, <1>3, RefsReplay DEF FaithfulList, EntriesReplay
  <2> QED
    BY <1>3, <2>1 DEF AnsweredAgain, Replays, AnswerFrom, q, e, view
<1>4. CASE q.read \in {"entry", "version"} /\ FaithfulEntry(q.place[1], e, view, n)
  <2>1. EntryReplays(q.place[1], e, n) /\ view = rows.versions[e.ref.id]
    BY <1>1, <1>4, VersionReplays DEF FaithfulEntry, EntryReplays
  <2> QED
    BY <1>4, <2>1 DEF AnsweredAgain, Replays, AnswerFrom, q, e, view
<1>5. CASE q.read = "proposals" /\ FaithfulProposals(q.ns, e, view, n)
  <2>1. \A j \in DOMAIN e.shown :
          /\ ProposalLoadable(e.shown[j].id)
          /\ rows.proposals[e.shown[j].id] = log[e.shown[j].id].proposal
    BY <1>1, <1>5, AllProposalsLoadable DEF FaithfulProposals
  <2>2. /\ ProposalsReplay(q.ns, e, n)
        /\ view = [j \in DOMAIN e.shown |-> [proposal |-> rows.proposals[e.shown[j].id],
                                             status |-> e.shown[j].status]]
    BY <1>5, <2>1 DEF FaithfulProposals, ProposalsReplay
  <2> QED
    BY <1>5, <2>2 DEF AnsweredAgain, Replays, AnswerFrom, q, e, view
<1>6. CASE q.read = "proposal" /\ FaithfulProposal(q, e, view, doubtful, after, n)
  <2>1. ProposalLoadable(q.id) /\ rows.proposals[q.id] = log[q.id].proposal
    BY <1>1, <1>6, AllProposalsLoadable DEF FaithfulProposal
  <2>2. doubtful \/ view =
          LET pl == rows.proposals[q.id].place IN
          [proposal |-> rows.proposals[q.id], status |-> e.status,
           current |-> MemoryAt(after).current[pl], owner |-> EditionAt(pl[1], n)]
    BY <1>6, <2>1 DEF FaithfulProposal
  <2> QED
    BY <1>6, <2>1, <2>2 DEF AnsweredAgain, Replays, AnswerFrom, q, e, view, after, doubtful
<1>7. CASE q.read = "summaries" /\ e.edition = EditionAt(q.ns, n) /\ view = e.summaries
  BY <1>7 DEF AnsweredAgain, Replays, AnswerFrom, q, e, view
<1>8. CASE /\ q.read = "summary" /\ e.summary.edition <= EditionAt(e.summary.ns, n)
           /\ view = e.summary
  BY <1>8 DEF AnsweredAgain, Replays, AnswerFrom, q, e, view
<1>9. CASE q.read = "snapshot" /\ FaithfulSnapshot(q, e, view, n)
  <2>1. Exactly(e.entries) /\ view.entries = Rows(e.entries)
    BY <1>1, <1>9, RefsReplay DEF FaithfulSnapshot
  <2>2. SnapshotReplays(q, e, n) /\ view = [entries |-> Rows(e.entries), summaries |-> e.summaries]
    BY <1>9, <2>1 DEF FaithfulSnapshot, SnapshotReplays
  <2> QED
    BY <1>9, <2>2 DEF AnsweredAgain, Replays, AnswerFrom, q, e, view
<1> QED
  BY <1>1, <1>2, <1>3, <1>4, <1>5, <1>6, <1>7, <1>8, <1>9 DEF Faithful

LEMMA EditStillStands ==
  ASSUME IInv, SInv, Told, NEW i \in ProvenVersions
  PROVE  EditStands(i)
<1> DEFINE v == log[i].version
<1>1. Loadable(i) /\ rows.versions[i] = v
  BY AllLoadable, ToldRows
<1>2. Exact(Ref(i, v))
  <2>1. Ref(i, v).id = i
    BY DEF Ref
  <2> QED
    BY <1>1, <2>1 DEF Exact
<1>3. PredecessorSound(v)
  <2>1. v \in Versions /\ v.place \in Places /\ i \in Line(v.place) /\ i \in Nat
    BY VersionsTyped DEF IInv, Versions, Line
  <2>2. Linked(i, Line(v.place), log)
    BY <2>1 DEF IInv, Chained
  <2> DEFINE before == Before(i, Line(v.place))
  <2>3. IsFiniteSet(before) /\ Cardinality(before) \in Nat
    <3>1. IsFiniteSet(Line(v.place)) /\ before \in SUBSET Line(v.place)
      BY LinesAreFinite DEF IInv, Before
    <3> QED
      BY <3>1, FS_Subset, FS_CardinalityType
  <2>4. CASE before = {}
    <3>1. v.pred = None /\ v.number = 0 + 1
      BY <2>2, <2>4, FS_EmptySet DEF Linked
    <3> QED
      BY <3>1 DEF PredecessorSound
  <2>5. CASE before # {}
    <3>1. /\ IsLast(v.pred, before) /\ v.number = Cardinality(before) + 1
          /\ v.entry = log[v.pred].version.entry
      BY <2>2, <2>5 DEF Linked
    <3>2. v.pred \in Line(v.place) /\ v.pred < i
      BY <3>1 DEF IsLast, Before
    <3>3. v.pred \in ProvenVersions /\ v.pred # None /\ v.pred \in Nat
      BY <3>2, VersionsTyped DEF Line, IInv
    <3>4. Loadable(v.pred) /\ rows.versions[v.pred] = log[v.pred].version
      BY <3>3, AllLoadable, ToldRows
    <3>5. log[v.pred].version.place = v.place
      BY <3>2 DEF Line
    <3>6. Linked(v.pred, Line(v.place), log)
      BY <2>1, <3>2 DEF IInv, Chained
    <3> DEFINE earlier == Before(v.pred, Line(v.place))
    <3>7. before = earlier \cup {v.pred} /\ v.pred \notin earlier
      <4>1. \A j \in Line(v.place) : j \in Nat
        BY LinesAreFinite DEF IInv
      <4> QED
        BY <2>1, <3>1, <3>2, <3>3, <4>1 DEF IsLast, Before
    <3>8. earlier \in SUBSET before
      BY <3>7
    <3>9. IsFiniteSet(earlier) /\ Cardinality(earlier) \in Nat
      BY <2>3, <3>8, FS_Subset, FS_CardinalityType
    <3>10. Cardinality(before) = Cardinality(earlier) + 1
      BY <3>7, <3>9, FS_AddElement
    <3>11. log[v.pred].version.number + 1 = v.number
      BY <3>1, <3>6, <3>10 DEF Linked
    <3> QED
      BY <3>1, <3>3, <3>4, <3>5, <3>11 DEF PredecessorSound
  <2> QED
    BY <2>4, <2>5
<1> QED
  BY <1>1, <1>2, <1>3 DEF EditStands

LEMMA EventStands ==
  ASSUME IInv, SInv, Told, NEW i \in DOMAIN log
  PROVE  Stands(i)
<1>1. log[i] \in Events
  BY DEF IInv, LogTyped
<1>2. CASE log[i].kind = "proposed"
  <2>1. i \in ProvenProposals
    BY <1>2 DEF ProvenProposals
  <2>2. ProposalStands(i)
    BY <2>1, AllProposalsLoadable DEF ProposalStands
  <2> QED
    BY <1>2, <2>2 DEF Stands
<1>3. CASE log[i].kind = "rejected"
  <2>1. PICK p : p = log[i].rejected
    OBVIOUS
  <2>2. p \in ProvenProposals /\ ProvenApproval(p) = [status |-> "rejected", event |-> i]
    BY <1>3, <2>1, RejectedIs
  <2>3. ProposalLoadable(p) /\ status[p] = ProvenApproval(p)
    BY <2>2, AllProposalsLoadable, ToldCoherent
  <2>4. RejectionStands(i)
    BY <2>1, <2>2, <2>3 DEF RejectionStands
  <2> QED
    BY <1>3, <2>4 DEF Stands
<1>4. CASE log[i].kind = "entry"
  <2>1. i \in ProvenVersions
    BY <1>4 DEF ProvenVersions
  <2>2. EditStands(i)
    BY <2>1, EditStillStands
  <2>3. ASSUME log[i].version.accepted # None
        PROVE  ApprovalStands(i)
    <3>1. PICK p : p = log[i].version.accepted
      OBVIOUS
    <3>2. p \in ProvenProposals /\ ProvenApproval(p) = [status |-> "accepted", event |-> i]
      BY <2>1, <2>3, <3>1, AcceptedIs
    <3>3. ProposalLoadable(p) /\ status[p] = ProvenApproval(p)
          /\ rows.proposals[p] = log[p].proposal
      BY <3>2, AllProposalsLoadable, ToldCoherent
    <3>4. log[p].proposal = [place |-> log[i].version.place, expected |-> log[i].version.pred,
                             value |-> log[i].version.value]
      BY <2>1, <2>3, <3>1 DEF SInv, Sourced
    <3> QED
      BY <2>2, <3>1, <3>2, <3>3, <3>4 DEF ApprovalStands
  <2> QED
    BY <1>4, <2>2, <2>3 DEF Stands
<1> QED
  BY <1>1, <1>2, <1>3, <1>4, EventKinds

(* A command that is sent again gets the answer it got the first time, or,  *)
(* if somebody had meddled with the tables when it showed what the key of a *)
(* proposal held, an error.                                                 *)
THEOREM RetriesAlwaysAnswerTheSame == RecallSpec => []RetriesAnswerTheSame
<1>1. RInv => RetriesAnswerTheSame
  <2> SUFFICES ASSUME RInv, serving, ~tampered
               PROVE  /\ \A i \in DOMAIN log : Stands(i)
                      /\ \A n \in Reads :
                           \/ AnsweredAgain(n)
                           \/ others[n].request.read = "proposal" /\ others[n].doubtful
    BY DEF RetriesAnswerTheSame
  <2>1. IInv /\ SInv /\ Told
    BY DEF RInv, IInv, TablesTellTheStream, Told
  <2> QED
    BY <2>1, EventStands, ReadAnsweredAgain
<1> QED
  BY <1>1, RecallInvariance, PTL

-----------------------------------------------------------------------------
(* Counting *)

(* Induction along a line, for a set in the place of a predicate *)
LEMMA Stepwise ==
  ASSUME NEW n \in Nat, NEW S, 0 \in S, \A j \in 1 .. n : j - 1 \in S => j \in S
  PROVE  \A j \in 0 .. n : j \in S
<1> DEFINE Bad == (0 .. n) \ S
<1>1. ASSUME Bad # {}
      PROVE  FALSE
  <2>1. Bad \in SUBSET Nat
    OBVIOUS
  <2>2. PICK m \in Bad : \A k \in Bad : m <= k
    BY <1>1, <2>1, Least
  <2>3. m \in 1 .. n /\ m - 1 \in 0 .. n /\ ~(m <= m - 1)
    BY <2>2
  <2> QED
    BY <2>2, <2>3
<1> QED
  BY <1>1

LEMMA SameSize ==
  ASSUME NEW S, NEW T, IsFiniteSet(S), NEW f \in [S -> T],
         \A x, y \in S : f[x] = f[y] => x = y, \A z \in T : \E x \in S : f[x] = z
  PROVE  IsFiniteSet(T) /\ Cardinality(T) = Cardinality(S)
<1>1. f \in Bijection(S, T)
  BY DEF Bijection, Injection, IsInjective, Surjection
<1> QED
  BY <1>1, FS_Bijection DEF ExistsBijection

LEMMA CountUp ==
  ASSUME NEW S \in SUBSET Nat, IsFiniteSet(S), NEW k \in S
  PROVE  /\ Cardinality({x \in S : x <= k}) = Rank(Rising(S), S, k) + 1
         /\ Cardinality({x \in S : x >= k}) = Rank(Falling(S), S, k) + 1
<1>1. ASSUME NEW A \in SUBSET S, k \notin A, NEW B, B = A \cup {k}
      PROVE  Cardinality(B) = Cardinality(A) + 1
  BY <1>1, FS_Subset, FS_AddElement
<1>2. /\ {x \in S : x <= k} = {x \in S : x < k} \cup {k}
      /\ {x \in S : x >= k} = {x \in S : x > k} \cup {k}
  <2>1. \A x \in S : (x <= k <=> x < k \/ x = k) /\ (x >= k <=> x > k \/ x = k)
    OBVIOUS
  <2>2. {x \in S : x <= k} = {x \in S : x < k} \cup {k}
    BY <2>1, Zenon
  <2>3. {x \in S : x >= k} = {x \in S : x > k} \cup {k}
    BY <2>1, Zenon
  <2> QED
    BY <2>2, <2>3
<1>3. /\ Cardinality({x \in S : x <= k}) = Cardinality({x \in S : x < k}) + 1
      /\ Cardinality({x \in S : x >= k}) = Cardinality({x \in S : x > k}) + 1
  BY <1>1, <1>2
<1> QED
  BY <1>3, SortedUp, SortedDown

(* The keys of a namespace and their places *)
LEMMA PlacesCounted ==
  ASSUME NEW ns, NEW T, IsFiniteSet(T)
  PROVE  /\ IsFiniteSet({ns} \X T) /\ Cardinality({ns} \X T) = Cardinality(T)
<1>1. PICK f : f = [x \in T |-> <<ns, x>>]
  OBVIOUS
<1>2. f \in [T -> {ns} \X T]
  BY <1>1
<1>3. \A x, y \in T : f[x] = f[y] => x = y
  BY <1>1
<1>4. \A z \in {ns} \X T : \E x \in T : f[x] = z
  BY <1>1
<1> QED
  BY <1>2, <1>3, <1>4, SameSize

Ahead(R, A, B) == \A a \in A, b \in B : <<a, b>> \in R /\ <<b, a>> \notin R

(* A line whose first part goes ahead of its second part is the line of the *)
(* one and then the line of the other.                                      *)
LEMMA LinesJoin ==
  ASSUME NEW S, IsFiniteSet(S), NEW R, StrictOrder(R, S), NEW A, NEW B, A \cup B = S,
         Ahead(R, A, B)
  PROVE  /\ StrictOrder(R, A) /\ StrictOrder(R, B) /\ IsFiniteSet(A) /\ IsFiniteSet(B)
         /\ Cardinality(A) \in Nat /\ Cardinality(B) \in Nat
         /\ Cardinality(S) = Cardinality(A) + Cardinality(B)
         /\ \A j \in 1 .. Cardinality(A) : LineOf(R, S)[j] = LineOf(R, A)[j]
         /\ \A j \in 1 .. Cardinality(B) : LineOf(R, S)[Cardinality(A) + j] = LineOf(R, B)[j]
<1>1. A \in SUBSET S /\ B \in SUBSET S /\ A \cap B = {}
  BY DEF Ahead
<1>2. IsFiniteSet(A) /\ IsFiniteSet(B) /\ Cardinality({}) = 0
  BY <1>1, FS_Subset, FS_EmptySet
<1>3. Cardinality(A) \in Nat /\ Cardinality(B) \in Nat
  BY <1>2, FS_CardinalityType
<1>4. Cardinality(S) = Cardinality(A) + Cardinality(B)
  <2>1. Cardinality(A \cup B) = Cardinality(A) + Cardinality(B) - Cardinality(A \cap B)
    BY <1>2, FS_Union
  <2>2. Cardinality(A \cap B) = 0
    BY <1>1, <1>2
  <2> QED
    BY <1>3, <2>1, <2>2
<1>5. StrictOrder(R, A) /\ StrictOrder(R, B)
  BY <1>1 DEF StrictOrder
<1>6. ASSUME NEW j \in 1 .. Cardinality(A)
      PROVE  LineOf(R, S)[j] = LineOf(R, A)[j]
  <2>1. PICK x : x = LineOf(R, A)[j]
    OBVIOUS
  <2>2. x \in A /\ Rank(R, A, x) = j - 1
    BY <1>2, <1>5, <2>1, LineIsSorted
  <2>3. {y \in S : <<y, x>> \in R} = {y \in A : <<y, x>> \in R}
    BY <2>2 DEF Ahead
  <2>4. Rank(R, S, x) = j - 1
    BY <2>2, <2>3 DEF Rank
  <2>5. j \in 1 .. Cardinality(S) /\ x \in S
    BY <1>1, <1>3, <1>4, <2>2
  <2> QED
    BY <2>1, <2>4, <2>5, PlaceInLine
<1>7. ASSUME NEW j \in 1 .. Cardinality(B)
      PROVE  LineOf(R, S)[Cardinality(A) + j] = LineOf(R, B)[j]
  <2>1. PICK x : x = LineOf(R, B)[j]
    OBVIOUS
  <2>2. x \in B /\ Rank(R, B, x) = j - 1
    BY <1>2, <1>5, <2>1, LineIsSorted
  <2>3. PICK C : C = {y \in B : <<y, x>> \in R}
    OBVIOUS
  <2>4. {y \in S : <<y, x>> \in R} = A \cup C
    BY <2>2, <2>3 DEF Ahead
  <2>5. C \in SUBSET B /\ A \cap C = {} /\ Cardinality(C) = j - 1
    BY <1>1, <2>2, <2>3 DEF Rank
  <2>6. IsFiniteSet(C)
    BY <1>2, <2>5, FS_Subset
  <2>7. Cardinality(A \cup C) = Cardinality(A) + Cardinality(C) - Cardinality(A \cap C)
    BY <1>2, <2>6, FS_Union
  <2>8. Rank(R, S, x) = Cardinality(A) + (j - 1)
    <3>1. Cardinality(A \cap C) = 0
      BY <1>2, <2>5
    <3>2. Cardinality(A \cup C) = Cardinality(A) + (j - 1)
      BY <1>3, <2>5, <2>7, <3>1
    <3> QED
      BY <2>4, <3>2 DEF Rank
  <2>9. PICK i : i = Cardinality(A) + j
    OBVIOUS
  <2>10. i \in 1 .. Cardinality(S) /\ x \in S /\ Rank(R, S, x) = i - 1
    BY <1>1, <1>3, <1>4, <2>2, <2>8, <2>9
  <2> QED
    BY <2>1, <2>9, <2>10, PlaceInLine
<1> QED
  BY <1>2, <1>3, <1>4, <1>5, <1>6, <1>7

(* One order carried to another *)
Matching(f, R, S, Q, T) ==
    /\ f \in [S -> T]
    /\ \A x, y \in S : f[x] = f[y] => x = y
    /\ \A z \in T : \E x \in S : f[x] = z
    /\ \A x, y \in S : <<x, y>> \in R <=> <<f[x], f[y]>> \in Q

(* Lines that count alike are alike. *)
LEMMA LinesMatch ==
  ASSUME NEW S, IsFiniteSet(S), NEW R, StrictOrder(R, S),
         NEW T, NEW Q, StrictOrder(Q, T), NEW f, Matching(f, R, S, Q, T)
  PROVE  /\ IsFiniteSet(T) /\ Cardinality(T) = Cardinality(S)
         /\ \A j \in 1 .. Cardinality(S) : LineOf(Q, T)[j] = f[LineOf(R, S)[j]]
<1> USE DEF Matching
<1>1. IsFiniteSet(T) /\ Cardinality(T) = Cardinality(S)
  BY SameSize
<1>2. ASSUME NEW j \in 1 .. Cardinality(S)
      PROVE  LineOf(Q, T)[j] = f[LineOf(R, S)[j]]
  <2>1. PICK x : x = LineOf(R, S)[j]
    OBVIOUS
  <2>2. x \in S /\ Rank(R, S, x) = j - 1
    BY <2>1, LineIsSorted
  <2>3. PICK A, B : A = {y \in S : <<y, x>> \in R} /\ B = {z \in T : <<z, f[x]>> \in Q}
    OBVIOUS
  <2>4. A \in SUBSET S /\ B \in SUBSET T
    BY <2>3
  <2>5. PICK g : g = [y \in A |-> f[y]]
    OBVIOUS
  <2>6. g \in [A -> B]
    BY <2>2, <2>3, <2>5
  <2>7. \A y, z \in A : g[y] = g[z] => y = z
    BY <2>4, <2>5
  <2>8. \A z \in B : \E y \in A : g[y] = z
    BY <2>2, <2>3, <2>5
  <2>9. IsFiniteSet(A)
    BY <2>4, FS_Subset
  <2>10. Cardinality(B) = Cardinality(A)
    BY <2>6, <2>7, <2>8, <2>9, SameSize
  <2>11. f[x] \in T /\ Rank(Q, T, f[x]) = j - 1
    BY <2>2, <2>3, <2>10 DEF Rank
  <2> QED
    BY <1>1, <2>1, <2>11, PlaceInLine
<1> QED
  BY <1>1, <1>2

-----------------------------------------------------------------------------
(* What a read tells as it is recorded, by the projection of the moment *)

(* ... and what its event names is in the stream. *)
Borne(r, m) ==
    \/ /\ r.request.read = "entries" /\ TellsEntries(r, m)
       /\ r.request.ns \in Namespaces
    \/ /\ r.request.read = "entry" /\ TellsEntry(r, m)
       /\ r.request.place \in Places /\ m.current[r.request.place].value # Tombstone
    \/ r.request.read = "version" /\ TellsVersion(r)
    \/ r.request.read = "history" /\ TellsHistory(r)
    \/ r.request.read = "proposals" /\ TellsProposals(r, m)
    \/ /\ r.request.read = "proposal" /\ TellsProposal(r, m)
       /\ r.request.id \in DOMAIN log
    \/ r.request.read \in {"summaries", "summary"}
    \/ /\ r.request.read = "snapshot" /\ TellsSnapshot(r, m)
       /\ \A j \in DOMAIN r.event.entries : r.event.entries[j].id \in DOMAIN log

ReadOf(q, e, view) ==
    [kind |-> "read", after |-> Len(log), request |-> q,
     event |-> e, view |-> view, doubtful |-> tampered]

Reports(q, e, view) == Record(q, e, view) /\ Borne(ReadOf(q, e, view), memory)

LEMMA CurrentVersion ==
  ASSUME IInv, NEW pl \in Places, memory.current[pl].value # Tombstone
  PROVE  IsVersion(memory.current[pl]) /\ memory.current[pl].id \in Line(pl)
<1>1. memory.current[pl] \in Known(pl) /\ memory.current[pl] # NoEntry
  BY DEF IInv, PointersAreKnown, NoEntry
<1> QED
  BY <1>1, KnownVersion

(* The keys of a namespace that hold something *)
Holding(ns) == {pl \in PlacesIn(ns) : memory.current[pl].value # Tombstone}

LEMMA HoldingVersions ==
  ASSUME IInv, NEW ns \in Namespaces
  PROVE  /\ \A pl \in Holding(ns) :
              /\ pl \in Places /\ pl = <<ns, pl[2]>> /\ pl[2] \in Keys /\ pl[2] \in Nat
              /\ IsVersion(memory.current[pl]) /\ memory.current[pl].id \in Line(pl)
         /\ IsFiniteSet(Holding(ns))
<1>1. ASSUME NEW pl \in Holding(ns)
      PROVE  /\ pl \in Places /\ pl = <<ns, pl[2]>> /\ pl[2] \in Keys /\ pl[2] \in Nat
             /\ IsVersion(memory.current[pl]) /\ memory.current[pl].id \in Line(pl)
  <2>1. pl \in Places /\ pl = <<ns, pl[2]>> /\ pl[2] \in Keys /\ pl[2] \in Nat
    <3>1. PICK k \in Keys : pl = <<ns, k>>
      BY DEF Holding, PlacesIn
    <3> QED
      BY <3>1, RecallAssumption DEF Places
  <2>2. memory.current[pl].value # Tombstone
    BY DEF Holding
  <2> QED
    BY <2>1, <2>2, CurrentVersion
<1>2. PICK f : f = [pl \in Holding(ns) |-> memory.current[pl].id]
  OBVIOUS
<1>3. \A pl \in Holding(ns) : f[pl] \in ProvenVersions /\ log[f[pl]].version.place = pl
  BY <1>1, <1>2 DEF Line
<1>4. f \in Injection(Holding(ns), ProvenVersions)
  <2>1. f \in [Holding(ns) -> ProvenVersions]
    BY <1>2, <1>3
  <2>2. \A x, y \in Holding(ns) : f[x] = f[y] => x = y
    BY <1>3
  <2> QED
    BY <2>1, <2>2 DEF Injection, IsInjective
<1>5. IsFiniteSet(Holding(ns))
  BY <1>4, ProvenFinite, FS_Injection DEF IInv
<1> QED
  BY <1>1, <1>5

(* A list whose total is right and whose every entry is current has each *)
(* key's own current version.                                            *)
LEMMA PresentIsCurrent ==
  ASSUME IInv, NEW ns \in Namespaces,
         \/ pointer = memory.current
         \/ /\ Cardinality(Present(ns)) = Cardinality(Holding(ns))
            /\ \A k \in Present(ns) : IsCurrent(ns, pointer[<<ns, k>>])
  PROVE  /\ Holding(ns) = {ns} \X Present(ns)
         /\ \A k \in Present(ns) : pointer[<<ns, k>>] = memory.current[<<ns, k>>]
<1>1. CASE pointer = memory.current
  BY <1>1 DEF Holding, PlacesIn, Present
<1>2. CASE /\ Cardinality(Present(ns)) = Cardinality(Holding(ns))
           /\ \A k \in Present(ns) : IsCurrent(ns, pointer[<<ns, k>>])
  <2>1. ASSUME NEW k \in Present(ns)
        PROVE  /\ pointer[<<ns, k>>] = memory.current[<<ns, k>>]
               /\ <<ns, k>> \in Holding(ns)
    <3>1. PICK pl \in PlacesIn(ns) : /\ memory.current[pl] = pointer[<<ns, k>>]
                                     /\ memory.current[pl].value # Tombstone
      BY <1>2 DEF IsCurrent
    <3>2. pl \in Holding(ns) /\ memory.current[pl].id \in Line(pl)
      BY <3>1, HoldingVersions DEF Holding
    <3>3. pointer[<<ns, k>>].id \in Line(<<ns, k>>)
      BY ShownVersion
    <3>4. pl = <<ns, k>>
      BY <3>1, <3>2, <3>3 DEF Line
    <3> QED
      BY <3>1, <3>2, <3>4
  <2>2. IsFiniteSet(Present(ns))
    BY PresentFinite
  <2>3. {ns} \X Present(ns) \in SUBSET Holding(ns)
    <3> SUFFICES ASSUME NEW z \in {ns} \X Present(ns)
                 PROVE  z \in Holding(ns)
      OBVIOUS
    <3>1. PICK k \in Present(ns) : z = <<ns, k>>
      OBVIOUS
    <3> QED
      BY <2>1, <3>1
  <2>4. Cardinality({ns} \X Present(ns)) = Cardinality(Holding(ns))
    BY <1>2, <2>2, PlacesCounted
  <2>5. Holding(ns) = {ns} \X Present(ns)
    BY <2>3, <2>4, HoldingVersions, FS_Subset
  <2> QED
    BY <2>1, <2>5
<1> QED
  BY <1>1, <1>2

LEMMA KeysCounted ==
  ASSUME IInv, NEW ns \in Namespaces, Holding(ns) = {ns} \X Present(ns), NEW k \in Present(ns)
  PROVE  Cardinality({o \in Holding(ns) : o[2] <= k}) = Rank(Rising(Present(ns)), Present(ns), k) + 1
<1>1. Present(ns) \in SUBSET Nat /\ IsFiniteSet(Present(ns))
  BY PresentFinite
<1>2. PICK T : T = {x \in Present(ns) : x <= k}
  OBVIOUS
<1>3. {o \in Holding(ns) : o[2] <= k} = {ns} \X T
  BY <1>2
<1>4. IsFiniteSet(T)
  BY <1>1, <1>2, FS_Subset
<1>5. Cardinality({ns} \X T) = Cardinality(T)
  BY <1>4, PlacesCounted
<1> QED
  BY <1>1, <1>2, <1>3, <1>5, CountUp

LEMMA EntriesReport ==
  ASSUME IInv, SInv, NEW ns \in Namespaces, ListMemoryEntries(ns)
  PROVE  \E q, e, view : Reports(q, e, view)
<1> DEFINE keys == Present(ns)
           line == KeyLine(ns, keys)
           refs == Page(line)
           q == [read |-> "entries", ns |-> ns]
           e == [edition |-> Edition(ns), refs |-> refs, total |-> Len(line)]
           all == Holding(ns)
           version(pl) == log[memory.current[pl].id].version
<1>1. serving /\ EntryRowsSound(ns) /\ Record(q, e, Rows(refs))
  BY DEF ListMemoryEntries
<1>2. /\ Cardinality(keys) \in Nat /\ IsFiniteSet(keys) /\ keys \in SUBSET Nat
      /\ line = [j \in 1 .. Cardinality(keys) |-> pointer[<<ns, LineOf(Rising(keys), keys)[j]>>]]
      /\ line \in Seq(Shown(ns)) /\ Len(line) = Cardinality(keys)
  BY KeyLineIs
<1>3. /\ refs \in Seq(Shown(ns))
      /\ Len(refs) = IF Len(line) < MaxShown THEN Len(line) ELSE MaxShown
      /\ \A j \in DOMAIN refs : j \in DOMAIN line /\ refs[j] = line[j]
  BY <1>2, PageIs
<1>4. /\ Len(line) = Cardinality(all)
      /\ \A j \in DOMAIN refs : IsCurrent(ns, refs[j])
  <2>1. EntriesFit(ns, e)
    BY <1>1 DEF Record, ReadFits
  <2> QED
    BY <2>1 DEF EntriesFit, Holding
<1> HIDE DEF keys, line, refs
<1>5. \A j \in DOMAIN refs : /\ refs[j] \in Shown(ns) /\ IsVersion(refs[j])
                             /\ Rows(refs)[j] = log[refs[j].id].version
  BY <1>1, <1>3, ShownRow DEF Rows
<1>6. DOMAIN Rows(refs) = DOMAIN refs /\ DOMAIN refs = PageOf(Cardinality(all))
      /\ Cardinality(all) \in Nat
  BY <1>2, <1>3, <1>4 DEF Rows, PageOf
<1>7. \A j \in DOMAIN refs : \E pl \in all : Rows(refs)[j] = version(pl)
  BY <1>4, <1>5 DEF IsCurrent, Holding
<1>8. ASSUME ~(tampered /\ Cardinality(all) > MaxShown)
      PROVE  \A pl \in all : LET j == Cardinality({o \in all : o[2] <= pl[2]}) IN
                             j <= MaxShown => Rows(refs)[j] = version(pl)
  <2>1. /\ all = {ns} \X keys
        /\ \A k \in keys : pointer[<<ns, k>>] = memory.current[<<ns, k>>]
    <3>1. CASE ~tampered
      <4>1. pointer = memory.current
        BY <1>1, <3>1 DEF IInv, TablesTellTheStream
      <4> QED
        BY <4>1, PresentIsCurrent DEF keys
    <3>2. CASE Cardinality(all) <= MaxShown
      <4>1. Len(refs) = Cardinality(keys)
        BY <1>2, <1>3, <1>4, <3>2, RecallAssumption
      <4>2. ASSUME NEW k \in keys
            PROVE  IsCurrent(ns, pointer[<<ns, k>>])
        <5>1. PICK j : j = Rank(Rising(keys), keys, k) + 1
          OBVIOUS
        <5>2. j \in 1 .. Cardinality(keys) /\ LineOf(Rising(keys), keys)[j] = k
          <6>1. StrictOrder(Rising(keys), keys)
            BY <1>2, NumbersAreOrdered
          <6> QED
            BY <1>2, <5>1, <6>1, LineIsSorted
        <5>3. j \in DOMAIN refs /\ refs[j] = line[j]
          BY <1>3, <4>1, <5>2
        <5> QED
          BY <1>2, <1>4, <5>2, <5>3
      <4> QED
        BY <1>2, <1>4, <4>2, PresentIsCurrent DEF keys
    <3> QED
      BY <1>6, <1>8, <3>1, <3>2, RecallAssumption
  <2>2. ASSUME NEW pl \in all, NEW j, j = Cardinality({o \in all : o[2] <= pl[2]}),
               j <= MaxShown
        PROVE  Rows(refs)[j] = version(pl)
    <3>1. PICK k \in keys : pl = <<ns, k>>
      BY <2>1
    <3>2. j = Rank(Rising(keys), keys, k) + 1
      BY <2>1, <2>2, <3>1, KeysCounted DEF keys
    <3>3. j \in 1 .. Cardinality(keys) /\ LineOf(Rising(keys), keys)[j] = k
      BY <1>2, <3>2, NumbersAreOrdered, LineIsSorted
    <3>4. j \in DOMAIN refs
      BY <1>2, <1>3, <2>2, <3>3, RecallAssumption
    <3>5. refs[j] = memory.current[pl]
      BY <1>2, <1>3, <2>1, <3>1, <3>3, <3>4
    <3> QED
      BY <1>5, <3>4, <3>5
  <2> QED
    BY <2>2
<1>9. TellsEntries(ReadOf(q, e, Rows(refs)), memory)
  <2>1. PICK r : r = ReadOf(q, e, Rows(refs))
    OBVIOUS
  <2>2. /\ r.request.ns = ns /\ r.event.total = Len(line) /\ r.view = Rows(refs)
        /\ r.doubtful = tampered /\ r.request.read = "entries"
    BY <2>1 DEF ReadOf
  <2>3. TellsEntries(r, memory)
    BY <1>4, <1>6, <1>7, <1>8, <2>2 DEF TellsEntries, Holding
  <2> QED
    BY <2>1, <2>3
<1>10. Borne(ReadOf(q, e, Rows(refs)), memory)
  <2>1. /\ ReadOf(q, e, Rows(refs)).request.read = "entries"
        /\ ReadOf(q, e, Rows(refs)).request.ns \in Namespaces
    BY DEF ReadOf
  <2> QED
    BY <1>9, <2>1 DEF Borne
<1>11. Record(q, e, Rows(refs))
  BY <1>1
<1> QED
  BY <1>10, <1>11 DEF Reports

LEMMA EntryReport ==
  ASSUME IInv, SInv, NEW pl \in Places, ShowMemoryEntry(pl)
  PROVE  \E q, e, view : Reports(q, e, view)
<1> DEFINE q == [read |-> "entry", place |-> pl]
           e == [edition |-> Edition(pl[1]), ref |-> pointer[pl]]
           view == rows.versions[pointer[pl].id]
<1>1. Readable(pl) /\ Record(q, e, view)
  BY DEF ShowMemoryEntry
<1>2. pointer[pl] = memory.current[pl] /\ memory.current[pl].value # Tombstone
  BY <1>1 DEF Record, ReadFits
<1>3. IsVersion(pointer[pl]) /\ pointer[pl].id # None
  BY <1>2, CurrentVersion, VersionsTyped DEF IInv, Line
<1>4. Intact("versions", pointer[pl].id)
  BY <1>1, <1>3 DEF Readable, Loadable
<1>5. view = log[memory.current[pl].id].version
  BY <1>2, <1>4, IntactVersion
<1>6. Borne(ReadOf(q, e, view), memory)
  <2>1. PICK r : r = ReadOf(q, e, view)
    OBVIOUS
  <2>2. r.request.read = "entry" /\ r.request.place = pl /\ r.view = view
    BY <2>1 DEF ReadOf
  <2> QED
    BY <1>2, <1>5, <2>1, <2>2 DEF Borne, TellsEntry
<1> QED
  BY <1>1, <1>6 DEF Reports

(* Of a key the events so far *)
LEMMA WrittenSoFar ==
  ASSUME IInv, NEW pl \in Places
  PROVE  WrittenBy(Len(log), pl) = Line(pl)
BY DEF WrittenBy, Line, ProvenVersions, IInv, LogTyped

LEMMA VersionReport ==
  ASSUME IInv, SInv, NEW pl \in Places, NEW number, ShowMemoryEntryVersion(pl, number)
  PROVE  \E q, e, view : Reports(q, e, view)
<1> DEFINE q == [read |-> "version", place |-> pl, number |-> number]
<1>1. PICK i \in VersionsOf(pl) :
        /\ Loadable(i) /\ rows.versions[i].number = number
        /\ Record(q, [edition |-> Edition(pl[1]), ref |-> Ref(i, rows.versions[i])],
                  rows.versions[i])
  BY DEF ShowMemoryEntryVersion
<1> DEFINE e == [edition |-> Edition(pl[1]), ref |-> Ref(i, rows.versions[i])]
           view == rows.versions[i]
<1>2. i \in ProvenVersions /\ view = log[i].version
  BY <1>1, IntactVersion DEF Loadable
<1>3. i \in Line(pl)
  BY <1>1, <1>2 DEF VersionsOf, Line
<1>4. number = Cardinality({o \in Line(pl) : o <= i})
  <2>1. Linked(i, Line(pl), log)
    BY <1>3 DEF IInv, Chained
  <2>2. number = Cardinality({o \in Line(pl) : o < i}) + 1
    BY <1>1, <1>2, <2>1 DEF Linked, Before
  <2>3. Line(pl) \in SUBSET Nat /\ IsFiniteSet(Line(pl))
    BY LinesAreFinite DEF IInv
  <2> QED
    BY <1>3, <2>2, <2>3, CountUp, SortedUp
<1>5. Borne(ReadOf(q, e, view), memory)
  <2>1. PICK r : r = ReadOf(q, e, view)
    OBVIOUS
  <2>2. /\ r.request.read = "version" /\ r.request.place = pl /\ r.request.number = number
        /\ r.view = view /\ r.after = Len(log)
    BY <2>1 DEF ReadOf
  <2>3. WrittenBy(r.after, r.request.place) = Line(pl)
    BY <2>2, WrittenSoFar
  <2>4. TellsVersion(r)
    BY <1>2, <1>3, <1>4, <2>2, <2>3 DEF TellsVersion
  <2> QED
    BY <2>1, <2>2, <2>4 DEF Borne
<1> QED
  BY <1>1, <1>5 DEF Reports

LEMMA HistoryReport ==
  ASSUME IInv, SInv, NEW pl \in Places, ShowMemoryEntryHistory(pl)
  PROVE  \E q, e, view : Reports(q, e, view)
<1> DEFINE all == VersionsOf(pl)
           line == Sorted(all, >)
           refs == [j \in DOMAIN Page(line) |-> Ref(line[j], rows.versions[line[j]])]
           q == [read |-> "history", place |-> pl]
           e == [edition |-> Edition(pl[1]), refs |-> refs, total |-> Len(line)]
<1>1. BatchSound(all, Range(Page(line))) /\ Record(q, e, Rows(refs))
  BY DEF ShowMemoryEntryHistory
<1>2. \A i \in all : i \in ProvenVersions /\ rows.versions[i] = log[i].version
  BY <1>1, IntactVersion DEF BatchSound
<1>3. all \in SUBSET Line(pl) /\ Line(pl) \in SUBSET Nat /\ IsFiniteSet(Line(pl))
  <2>1. all \in SUBSET Line(pl)
    BY <1>2 DEF VersionsOf, Line
  <2> QED
    BY <2>1, LinesAreFinite DEF IInv
<1>4. all \in SUBSET Nat /\ IsFiniteSet(all)
  BY <1>3, FS_Subset
<1>5. /\ line \in Seq(all) /\ Len(line) = Cardinality(all)
      /\ line = LineOf(Falling(all), all)
  BY <1>4, DownIsLine
<1>6. all = Line(pl)
  <2>1. HistoryFits(memory.current[pl], e)
    BY <1>1 DEF Record, ReadFits
  <2>2. Cardinality(all) = Cardinality(Line(pl))
    BY <1>5, <2>1 DEF HistoryFits, IInv, Chained
  <2> QED
    BY <1>3, <2>2, FS_Subset
<1>7. /\ \A j \in DOMAIN Page(line) : j \in DOMAIN line /\ line[j] \in all
      /\ Len(Page(line)) = IF Len(line) < MaxShown THEN Len(line) ELSE MaxShown
      /\ Page(line) \in Seq(all)
  <2> HIDE DEF line
  <2> QED
    BY <1>5, PageIs
<1> HIDE DEF line, all
<1>8. /\ DOMAIN Rows(refs) = DOMAIN Page(line)
      /\ \A j \in DOMAIN Page(line) : Rows(refs)[j] = log[line[j]].version
  <2>1. \A j \in DOMAIN Page(line) : refs[j].id = line[j]
    BY DEF Ref
  <2> QED
    BY <1>2, <1>7, <2>1 DEF Rows
<1>9. Cardinality(all) \in Nat /\ DOMAIN Page(line) = PageOf(Cardinality(all))
  <2>1. Cardinality(all) \in Nat
    BY <1>4, FS_CardinalityType
  <2>2. DOMAIN Page(line) = 1 .. Len(Page(line))
    BY <1>7
  <2> QED
    BY <1>5, <1>7, <2>1, <2>2 DEF PageOf
<1>10. ASSUME NEW i \in all, NEW j, j = Cardinality({o \in all : o >= i}), j <= MaxShown
       PROVE  Rows(refs)[j] = log[i].version
  <2>1. StrictOrder(Falling(all), all)
    BY <1>4, NumbersAreOrdered
  <2>2. j = Rank(Falling(all), all, i) + 1
    BY <1>4, <1>10, CountUp
  <2>3. j \in 1 .. Cardinality(all) /\ line[j] = i
    BY <1>4, <1>5, <2>1, <2>2, LineIsSorted
  <2>4. j \in PageOf(Cardinality(all))
    BY <1>9, <1>10, <2>3, RecallAssumption DEF PageOf
  <2> QED
    BY <1>8, <1>9, <2>3, <2>4
<1>11. Borne(ReadOf(q, e, Rows(refs)), memory)
  <2>1. PICK r, view, total : /\ r = ReadOf(q, e, Rows(refs))
                              /\ view = Rows(refs) /\ total = Len(line)
    OBVIOUS
  <2>2. /\ r.request.read = "history" /\ r.request.place = pl
        /\ r.event.total = total /\ r.view = view /\ r.after = Len(log)
    BY <2>1 DEF ReadOf
  <2>3. WrittenBy(r.after, r.request.place) = all
    BY <1>6, <2>2, WrittenSoFar
  <2>4. /\ total = Cardinality(all) /\ DOMAIN view = PageOf(Cardinality(all))
        /\ \A i \in all : LET j == Cardinality({o \in all : o >= i}) IN
                          j <= MaxShown => view[j] = log[i].version
    BY <1>5, <1>8, <1>9, <1>10, <2>1
  <2>5. TellsHistory(r)
    BY <2>2, <2>3, <2>4 DEF TellsHistory
  <2> QED
    BY <2>1, <2>2, <2>5 DEF Borne
<1> QED
  BY <1>1, <1>11 DEF Reports

LEMMA CoherentIsProven ==
  ASSUME IInv, SInv, NEW p, Coherent(p)
  PROVE  /\ p \in ProvenProposals /\ rows.proposals[p] = log[p].proposal
         /\ memory.proposals[p] = log[p].proposal /\ p \in DOMAIN memory.proposals
         /\ status[p] = memory.status[p]
<1>1. p \in ProvenProposals /\ rows.proposals[p] = log[p].proposal
  BY IntactProposal DEF Coherent
<1>2. Intact("approvals", p) /\ rows.approvals[p] = status[p]
  BY DEF Coherent
<1>3. status[p] = ProvenApproval(p)
  BY <1>2 DEF SInv, RowsHonest, ApprovalsHonest, Intact
<1> QED
  BY <1>1, <1>3 DEF IInv, Reduced

LEMMA ProposalsReport ==
  ASSUME IInv, SInv, StatusesAreKnown,
         NEW ns \in Namespaces, NEW pending \in BOOLEAN, ListMemoryProposals(ns, pending)
  PROVE  \E q, e, view : Reports(q, e, view)
<1> DEFINE all == Listed(ns, pending)
           line == ProposalsOf(ns, pending)
           shown == [j \in DOMAIN Page(line) |-> [id |-> line[j], status |-> status[line[j]].status]]
           q == [read |-> "proposals", ns |-> ns, pending |-> pending]
           e == [edition |-> Edition(ns), total |-> Len(line), shown |-> shown]
           view == [j \in DOMAIN Page(line) |-> [proposal |-> rows.proposals[line[j]],
                                                 status |-> status[line[j]].status]]
           told == {p \in DOMAIN memory.proposals : /\ memory.proposals[p].place \in PlacesIn(ns)
                                                    /\ pending => memory.status[p] = Pending}
           place(i) == IF pending THEN Cardinality({o \in all : o <= i})
                                  ELSE Cardinality({o \in all : o >= i})
<1>1. ProposalRowsSound(ns) /\ Record(q, e, view)
  BY DEF ListMemoryProposals
<1>2. /\ all \in SUBSET Nat /\ IsFiniteSet(all) /\ line \in Seq(all) /\ Len(line) = Cardinality(all)
      /\ pending => line = LineOf(Rising(all), all)
      /\ ~pending => line = LineOf(Falling(all), all)
  BY ProposalLine
<1>3. \A p \in all : /\ Coherent(p) /\ p \in ProvenProposals /\ p \in told
                     /\ rows.proposals[p] = log[p].proposal /\ status[p] = memory.status[p]
  <2> SUFFICES ASSUME NEW p \in all
               PROVE  /\ Coherent(p) /\ p \in ProvenProposals /\ p \in told
                      /\ rows.proposals[p] = log[p].proposal /\ status[p] = memory.status[p]
    OBVIOUS
  <2>1. /\ p \in DOMAIN status /\ log[p].proposal.place \in PlacesIn(ns)
        /\ pending => status[p] = Pending
    BY DEF Listed
  <2>2. Coherent(p)
    BY <1>1, <2>1 DEF ProposalRowsSound
  <2>3. /\ p \in ProvenProposals /\ rows.proposals[p] = log[p].proposal
        /\ memory.proposals[p] = log[p].proposal /\ p \in DOMAIN memory.proposals
        /\ status[p] = memory.status[p]
    BY <2>2, CoherentIsProven
  <2> QED
    BY <2>1, <2>2, <2>3
<1>4. all = told
  <2>1. ProposalsFit(ns, pending, e)
    BY <1>1 DEF Record, ReadFits
  <2>2. Cardinality(told) = Cardinality(all)
    BY <1>2, <2>1 DEF ProposalsFit
  <2>3. all \in SUBSET told
    BY <1>3
  <2>4. IsFiniteSet(told)
    <3>1. told \in SUBSET ProvenProposals
      BY DEF IInv, Reduced
    <3> QED
      BY <3>1, ProvenFinite, FS_Subset DEF IInv
  <2> QED
    BY <2>2, <2>3, <2>4, FS_Subset
<1> HIDE DEF all, line, told
<1>5. /\ \A j \in DOMAIN Page(line) : j \in DOMAIN line /\ line[j] \in all
      /\ Len(Page(line)) = IF Len(line) < MaxShown THEN Len(line) ELSE MaxShown
      /\ Page(line) \in Seq(all)
  BY <1>2, PageIs
<1>6. Cardinality(all) \in Nat /\ DOMAIN Page(line) = PageOf(Cardinality(all))
  <2>1. Cardinality(all) \in Nat
    BY <1>2, FS_CardinalityType
  <2>2. DOMAIN Page(line) = 1 .. Len(Page(line))
    BY <1>5
  <2> QED
    BY <1>2, <1>5, <2>1, <2>2 DEF PageOf
<1>7. ASSUME NEW i \in all, NEW j, j = place(i), j <= MaxShown
      PROVE  view[j] = [proposal |-> log[i].proposal, status |-> memory.status[i].status]
  <2>1. StrictOrder(Falling(all), all) /\ StrictOrder(Rising(all), all)
    BY <1>2, NumbersAreOrdered
  <2>2. j \in 1 .. Cardinality(all) /\ line[j] = i
    <3>1. CASE pending
      <4>1. j = Rank(Rising(all), all, i) + 1
        BY <1>2, <1>7, <3>1, CountUp
      <4> QED
        BY <1>2, <2>1, <3>1, <4>1, LineIsSorted
    <3>2. CASE ~pending
      <4>1. j = Rank(Falling(all), all, i) + 1
        BY <1>2, <1>7, <3>2, CountUp
      <4> QED
        BY <1>2, <2>1, <3>2, <4>1, LineIsSorted
    <3> QED
      BY <3>1, <3>2
  <2>3. j \in DOMAIN Page(line)
    BY <1>6, <1>7, <2>2, RecallAssumption DEF PageOf
  <2> QED
    BY <1>3, <2>2, <2>3
<1>8. Borne(ReadOf(q, e, view), memory)
  <2>1. PICK r, v, total : r = ReadOf(q, e, view) /\ v = view /\ total = Len(line)
    OBVIOUS
  <2>2. /\ r.request.read = "proposals" /\ r.request.ns = ns /\ r.request.pending = pending
        /\ r.event.total = total /\ r.view = v
    BY <2>1 DEF ReadOf
  <2>3. /\ total = Cardinality(all) /\ DOMAIN v = PageOf(Cardinality(all))
        /\ \A i \in all : place(i) <= MaxShown =>
             v[place(i)] = [proposal |-> log[i].proposal, status |-> memory.status[i].status]
    <3>1. DOMAIN view = DOMAIN Page(line)
      OBVIOUS
    <3> HIDE DEF view, place
    <3> QED
      BY <1>2, <1>6, <1>7, <2>1, <3>1
  <2>4. \A i \in all :
          Cardinality({o \in all : IF pending THEN o <= i ELSE o >= i}) = place(i)
    OBVIOUS
  <2>5. TellsProposals(r, memory)
    <3> DEFINE asked == {i \in DOMAIN memory.proposals :
                            /\ memory.proposals[i].place \in PlacesIn(r.request.ns)
                            /\ r.request.pending => memory.status[i] = Pending}
    <3>1. asked = all
      BY <1>4, <2>2 DEF told
    <3> HIDE DEF place, asked
    <3>2. /\ r.event.total = Cardinality(asked) /\ DOMAIN r.view = PageOf(Cardinality(asked))
          /\ \A i \in asked :
               LET j == Cardinality({o \in asked : IF r.request.pending THEN o <= i ELSE o >= i}) IN
               j <= MaxShown => r.view[j] = [proposal |-> log[i].proposal,
                                             status |-> memory.status[i].status]
      BY <2>2, <2>3, <2>4, <3>1
    <3> QED
      BY <3>2 DEF TellsProposals, asked
  <2> QED
    BY <2>1, <2>2, <2>5 DEF Borne
<1> QED
  BY <1>1, <1>8 DEF Reports

LEMMA ProposalReport ==
  ASSUME IInv, SInv, NEW p \in DOMAIN rows.proposals \ {Foreign}, ShowMemoryProposal(p)
  PROVE  \E q, e, view : Reports(q, e, view)
<1> DEFINE pl == rows.proposals[p].place
           q == [read |-> "proposal", id |-> p]
           e == [status |-> status[p]]
           view == [proposal |-> rows.proposals[p], status |-> status[p],
                    current |-> pointer[pl], owner |-> Edition(pl[1])]
<1>1. serving /\ ProposalLoadable(p) /\ Record(q, e, view)
  BY DEF ShowMemoryProposal
<1>2. p \in ProvenProposals /\ rows.proposals[p] = log[p].proposal
  BY <1>1, IntactProposal DEF ProposalLoadable, Coherent
<1>3. ~tampered => pointer = memory.current
  BY <1>1 DEF IInv, TablesTellTheStream
<1>4. memory.status[p] = status[p]
  BY <1>1 DEF Record, ReadFits
<1>5. Borne(ReadOf(q, e, view), memory)
  <2>1. PICK r : r = ReadOf(q, e, view)
    OBVIOUS
  <2>2. /\ r.request.read = "proposal" /\ r.request.id = p /\ r.view.proposal = rows.proposals[p]
        /\ r.view.status = status[p] /\ r.view.current = pointer[pl] /\ r.doubtful = tampered
    BY <2>1 DEF ReadOf
  <2>3. TellsProposal(r, memory)
    BY <1>2, <1>3, <1>4, <2>2 DEF TellsProposal
  <2> QED
    BY <1>2, <2>1, <2>2, <2>3 DEF Borne, ProvenProposals
<1> QED
  BY <1>1, <1>5 DEF Reports

-----------------------------------------------------------------------------
(* The streams of a snapshot, by rank *)

RankOf(purpose, pl) == PurposeRank(purpose, TagsOf[memory.current[pl].value])

(* By rank, then by key *)
ByRank(purpose, S) ==
    {p \in S \X S : \/ RankOf(purpose, p[1]) < RankOf(purpose, p[2])
                    \/ /\ RankOf(purpose, p[1]) = RankOf(purpose, p[2])
                       /\ p[1][2] < p[2][2]}

Suitable(ns, purpose) ==
    {pl \in PlacesIn(ns) : /\ memory.current[pl].value # Tombstone
                           /\ Suits(purpose, TagsOf[memory.current[pl].value])}

LEMMA RankIsNat ==
  ASSUME NEW purpose, NEW pl
  PROVE  RankOf(purpose, pl) \in Nat
BY DEF RankOf, PurposeRank

LEMMA ByRankIsOrder ==
  ASSUME NEW purpose, NEW ns, NEW S, \A x \in S : x[2] \in Nat /\ x = <<ns, x[2]>>
  PROVE  StrictOrder(ByRank(purpose, S), S)
<1> DEFINE R == ByRank(purpose, S)
<1>1. \A x, y \in S : <<x, y>> \in R <=>
        \/ RankOf(purpose, x) < RankOf(purpose, y)
        \/ RankOf(purpose, x) = RankOf(purpose, y) /\ x[2] < y[2]
  BY DEF ByRank
<1>2. \A x \in S : RankOf(purpose, x) \in Nat /\ x[2] \in Nat
  BY RankIsNat
<1>3. \A x, y \in S : x[2] = y[2] => x = y
  OBVIOUS
<1> HIDE DEF R
<1>4. \A x \in S : <<x, x>> \notin R
  BY <1>1, <1>2
<1>5. \A x, y \in S : x # y => <<x, y>> \in R \/ <<y, x>> \in R
  BY <1>1, <1>2, <1>3
<1>6. ASSUME NEW x \in S, NEW y \in S, NEW z \in S, <<x, y>> \in R, <<y, z>> \in R
      PROVE  <<x, z>> \in R
  BY <1>1, <1>2, <1>6
<1> QED
  BY <1>4, <1>5, <1>6 DEF StrictOrder, R

LEMMA CandidateLine ==
  ASSUME NEW ns, NEW purpose, NEW S, S = Suitable(ns, purpose), IsFiniteSet(S),
         StrictOrder(ByRank(purpose, S), S)
  PROVE  Candidates(memory, ns, purpose) =
           [j \in 1 .. Cardinality(S) |->
              EntryItem(memory.current[LineOf(ByRank(purpose, S), S)[j]])]
<1> DEFINE ahead(x, y) == \/ RankOf(purpose, x) < RankOf(purpose, y)
                          \/ RankOf(purpose, x) = RankOf(purpose, y) /\ x[2] < y[2]
           R == ByRank(purpose, S)
           line == [j \in 1 .. Cardinality(S) |->
                      CHOOSE x \in S : Cardinality({y \in S : ahead(y, x)}) = j - 1]
<1>1. Candidates(memory, ns, purpose) = [j \in DOMAIN line |-> EntryItem(memory.current[line[j]])]
  BY DEF Candidates, Sorted, RankOf, Suitable
<1>2. \A x \in S : {y \in S : ahead(y, x)} = {y \in S : <<y, x>> \in R}
  BY DEF ByRank
<1>3. ASSUME NEW j \in 1 .. Cardinality(S)
      PROVE  line[j] = LineOf(R, S)[j]
  <2>1. PICK x : x = LineOf(R, S)[j]
    OBVIOUS
  <2>2. x \in S /\ Rank(R, S, x) = j - 1
    BY <2>1, LineIsSorted
  <2>3. Cardinality({y \in S : ahead(y, x)}) = j - 1
    BY <1>2, <2>2 DEF Rank
  <2>4. PICK z : z = CHOOSE w \in S : Cardinality({y \in S : ahead(y, w)}) = j - 1
    OBVIOUS
  <2>5. z \in S /\ Cardinality({y \in S : ahead(y, z)}) = j - 1
    <3> HIDE DEF ahead
    <3> QED
      BY <2>2, <2>3, <2>4
  <2>6. Rank(R, S, z) = j - 1
    BY <1>2, <2>5 DEF Rank
  <2>7. LineOf(R, S)[j] = z
    BY <2>5, <2>6, PlaceInLine
  <2> QED
    BY <2>4, <2>7
<1>4. DOMAIN line = 1 .. Cardinality(S)
  OBVIOUS
<1> HIDE DEF line, R
<1> QED
  BY <1>1, <1>3, <1>4 DEF R

(* Places of a namespace *)
Spots(ns, keys) == {ns} \X keys

LEMMA PlaceOf ==
  ASSUME NEW ns, NEW T, NEW z \in Spots(ns, T)
  PROVE  \E k \in T : z = <<ns, k>>
<1>1. z[1] = ns /\ z[2] \in T /\ z = <<z[1], z[2]>>
  BY DEF Spots
<1> QED
  BY <1>1

LEMMA NumberedSpots ==
  ASSUME NEW ns, NEW T, T \in SUBSET Nat
  PROVE  \A x \in {ns} \X T : x[2] \in Nat /\ x = <<ns, x[2]>>
<1> SUFFICES ASSUME NEW x \in {ns} \X T
             PROVE  x[2] \in Nat /\ x = <<ns, x[2]>>
  OBVIOUS
<1>1. x[1] = ns /\ x[2] \in T /\ x = <<x[1], x[2]>>
  OBVIOUS
<1> QED
  BY <1>1

(* Keys whose places are all of one rank in a line *)
SameRank(purpose, ns, keys, rank, S) ==
    /\ keys \in SUBSET Nat /\ IsFiniteSet(keys) /\ rank \in Nat
    /\ Spots(ns, keys) \subseteq S
    /\ \A k \in keys : RankOf(purpose, <<ns, k>>) = rank
    /\ StrictOrder(ByRank(purpose, S), Spots(ns, keys))

(* The keys of one rank are in the order of the keys. *)
LEMMA OneRank ==
  ASSUME NEW ns, NEW purpose, NEW keys, NEW S, NEW rank, SameRank(purpose, ns, keys, rank, S)
  PROVE  /\ Cardinality(Spots(ns, keys)) = Cardinality(keys)
         /\ \A j \in 1 .. Cardinality(keys) :
              LineOf(ByRank(purpose, S), Spots(ns, keys))[j] = <<ns, LineOf(Rising(keys), keys)[j]>>
<1> USE DEF SameRank
<1>1. PICK T, Q : T = Spots(ns, keys) /\ Q = ByRank(purpose, S)
  OBVIOUS
<1>2. PICK f : f = [k \in keys |-> <<ns, k>>]
  OBVIOUS
<1>3. f \in [keys -> T] /\ (\A x, y \in keys : f[x] = f[y] => x = y)
  <2>1. \A x \in keys : f[x] = <<ns, x>>
    BY <1>2
  <2>2. \A x \in keys : <<ns, x>> \in T
    BY <1>1 DEF Spots
  <2>3. f \in [keys -> T]
    BY <1>2, <2>2
  <2>4. \A x, y \in keys : <<ns, x>> = <<ns, y>> => x = y
    OBVIOUS
  <2> QED
    BY <2>1, <2>3, <2>4
<1>4. \A z \in T : \E x \in keys : f[x] = z
  <2>1. \A x \in keys : f[x] = <<ns, x>>
    BY <1>2
  <2>2. \A z \in T : \E x \in keys : z = <<ns, x>>
    <3> TAKE z \in T
    <3>1. z \in Spots(ns, keys)
      BY <1>1
    <3>2. z[2] \in keys /\ z = <<ns, z[2]>>
      BY <3>1 DEF Spots
    <3> QED
      BY <3>2
  <2> QED
    BY <1>1, <2>1, <2>2
<1>5. ASSUME NEW x \in keys, NEW y \in keys
      PROVE  <<x, y>> \in Rising(keys) <=> <<f[x], f[y]>> \in Q
  <2>1. f[x] = <<ns, x>> /\ f[y] = <<ns, y>> /\ f[x] \in S /\ f[y] \in S
    BY <1>1, <1>2, <1>3
  <2>2. PICK p, q : p = f[x] /\ q = f[y]
    OBVIOUS
  <2>3. /\ p[2] = x /\ q[2] = y /\ p \in S /\ q \in S
        /\ RankOf(purpose, p) = rank /\ RankOf(purpose, q) = rank
    BY <2>1, <2>2
  <2>4. <<p, q>> \in Q <=> \/ RankOf(purpose, p) < RankOf(purpose, q)
                           \/ RankOf(purpose, p) = RankOf(purpose, q) /\ p[2] < q[2]
    BY <1>1, <2>3 DEF ByRank
  <2>5. <<p, q>> \in Q <=> x < y
    BY <2>3, <2>4
  <2> QED
    BY <2>2, <2>5 DEF Rising
<1>6. StrictOrder(Rising(keys), keys) /\ StrictOrder(Q, T)
  BY <1>1, NumbersAreOrdered
<1>10. \A x, y \in keys : <<x, y>> \in Rising(keys) <=> <<f[x], f[y]>> \in Q
  BY <1>5
<1>7. /\ Cardinality(T) = Cardinality(keys)
      /\ \A j \in 1 .. Cardinality(keys) : LineOf(Q, T)[j] = f[LineOf(Rising(keys), keys)[j]]
  <2>1. PICK R : R = Rising(keys)
    OBVIOUS
  <2>2. StrictOrder(R, keys) /\ Matching(f, R, keys, Q, T)
    BY <1>3, <1>4, <1>6, <1>10, <2>1 DEF Matching
  <2>3. \A j \in 1 .. Cardinality(keys) : LineOf(Q, T)[j] = f[LineOf(R, keys)[j]]
    BY <1>6, <2>2, LinesMatch
  <2>4. Cardinality(T) = Cardinality(keys)
    BY <1>6, <2>2, LinesMatch
  <2> QED
    BY <2>1, <2>3, <2>4
<1>8. \A j \in 1 .. Cardinality(keys) : LineOf(Rising(keys), keys)[j] \in keys
  BY <1>6, LineIsSorted
<1> QED
  BY <1>1, <1>2, <1>7, <1>8

LEMMA EntryStreamIsRanked ==
  ASSUME IInv, NEW ns \in Namespaces, NEW purpose, pointer = memory.current
  PROVE  EntryStream(ns, purpose) = Candidates(memory, ns, purpose)
<1> DEFINE P == ForPurpose(ns, purpose)
           Q == ForAny(ns)
           A == {ns} \X P
           B == {ns} \X Q
           S == Suitable(ns, purpose)
           R == ByRank(purpose, S)
           first == KeyLine(ns, P)
           second == KeyLine(ns, Q)
<1>1. /\ P \in SUBSET Nat /\ IsFiniteSet(P) /\ Cardinality(P) \in Nat
      /\ first = [j \in 1 .. Cardinality(P) |-> pointer[<<ns, LineOf(Rising(P), P)[j]>>]]
      /\ first \in Seq(Shown(ns)) /\ Len(first) = Cardinality(P)
  BY KeyLineIs DEF ForPurpose
<1>2. /\ Q \in SUBSET Nat /\ IsFiniteSet(Q) /\ Cardinality(Q) \in Nat
      /\ second = [j \in 1 .. Cardinality(Q) |-> pointer[<<ns, LineOf(Rising(Q), Q)[j]>>]]
      /\ second \in Seq(Shown(ns)) /\ Len(second) = Cardinality(Q)
  BY KeyLineIs DEF ForAny
<1>3. PICK line \in Seq(Shown(ns)) :
        /\ line = first \o second /\ Len(EntryStream(ns, purpose)) = Len(line)
        /\ EntryStream(ns, purpose) = [j \in 1 .. Len(line) |-> EntryItem(line[j])]
  BY EntryStreamIs
<1>4. A \cup B = S
  <2>1. \A k \in Keys : /\ k \in P <=> /\ memory.current[<<ns, k>>].value # Tombstone
                                       /\ TagsOf[memory.current[<<ns, k>>].value] \cap purpose # {}
                        /\ k \in Q <=> /\ memory.current[<<ns, k>>].value # Tombstone
                                       /\ TagsOf[memory.current[<<ns, k>>].value] = {}
    BY DEF ForPurpose, ForAny, Present
  <2>2. P \subseteq Keys /\ Q \subseteq Keys
    BY DEF ForPurpose, ForAny, Present
  <2>3. \A k \in Keys : <<ns, k>> \in S <=> k \in P \/ k \in Q
    BY <2>1 DEF Suitable, PlacesIn, Suits
  <2>4. S \subseteq {ns} \X Keys
    BY DEF Suitable, PlacesIn
  <2> HIDE DEF P, Q, S
  <2> QED
    BY <2>2, <2>3, <2>4
<1>5. \A k \in P : RankOf(purpose, <<ns, k>>) = 0
  BY DEF RankOf, PurposeRank, ForPurpose
<1>6. PICK rank \in Nat : /\ \A k \in Q : RankOf(purpose, <<ns, k>>) = rank
                          /\ P # {} => rank = 1
  <2>1. P # {} => purpose # {}
    BY DEF ForPurpose
  <2>2. \A k \in Q : RankOf(purpose, <<ns, k>>) = IF purpose # {} THEN 1 ELSE 0
    BY DEF RankOf, PurposeRank, ForAny
  <2> HIDE DEF P, Q
  <2> QED
    BY <2>1, <2>2
<1> HIDE DEF P, Q, S
<1>7. IsFiniteSet(S) /\ \A x \in S : x[2] \in Nat /\ x = <<ns, x[2]>>
  <2>1. IsFiniteSet(A) /\ IsFiniteSet(B)
    BY <1>1, <1>2, PlacesCounted
  <2>2. IsFiniteSet(A \cup B)
    BY <2>1, FS_Union
  <2>3. (\A x \in A : x[2] \in Nat /\ x = <<ns, x[2]>>)
        /\ \A x \in B : x[2] \in Nat /\ x = <<ns, x[2]>>
    BY <1>1, <1>2, NumberedSpots
  <2>4. \A x \in A \cup B : x[2] \in Nat /\ x = <<ns, x[2]>>
    BY <1>1, <1>2, <2>3
  <2> QED
    BY <1>4, <2>2, <2>4
<1>8. StrictOrder(R, S)
  BY <1>7, ByRankIsOrder
<1>9. Ahead(R, A, B)
  <2> SUFFICES ASSUME NEW a \in A, NEW b \in B
               PROVE  <<a, b>> \in R /\ <<b, a>> \notin R
    BY DEF Ahead
  <2>1. RankOf(purpose, a) = 0 /\ RankOf(purpose, b) = 1
    BY <1>5, <1>6
  <2> QED
    BY <1>4, <2>1 DEF ByRank
<1> DEFINE p == Cardinality(P)
           n == Cardinality(Q)
<1>10. /\ StrictOrder(R, A) /\ StrictOrder(R, B)
       /\ Cardinality(S) = Cardinality(A) + Cardinality(B)
       /\ \A j \in 1 .. Cardinality(A) : LineOf(R, S)[j] = LineOf(R, A)[j]
       /\ \A j \in 1 .. Cardinality(B) : LineOf(R, S)[Cardinality(A) + j] = LineOf(R, B)[j]
  <2> HIDE DEF R, A, B
  <2> QED
    BY <1>4, <1>7, <1>8, <1>9, LinesJoin
<1>11. /\ Cardinality(A) = p
       /\ \A j \in 1 .. p : LineOf(R, A)[j] = <<ns, LineOf(Rising(P), P)[j]>>
  <2>1. StrictOrder(R, Spots(ns, P))
    BY <1>10 DEF Spots
  <2>2. Spots(ns, P) \subseteq S
    BY <1>4 DEF Spots
  <2>3. SameRank(purpose, ns, P, 0, S)
    BY <1>1, <1>5, <2>1, <2>2 DEF SameRank
  <2>5. /\ Cardinality(Spots(ns, P)) = Cardinality(P)
        /\ \A j \in 1 .. Cardinality(P) :
             LineOf(ByRank(purpose, S), Spots(ns, P))[j] = <<ns, LineOf(Rising(P), P)[j]>>
    BY <2>3, OneRank
  <2> QED
    BY <2>5 DEF Spots
<1>12. /\ Cardinality(B) = n
       /\ \A j \in 1 .. n : LineOf(R, B)[j] = <<ns, LineOf(Rising(Q), Q)[j]>>
  <2>1. StrictOrder(R, Spots(ns, Q))
    BY <1>10 DEF Spots
  <2>2. Spots(ns, Q) \subseteq S
    BY <1>4 DEF Spots
  <2>3. SameRank(purpose, ns, Q, rank, S)
    BY <1>2, <1>6, <2>1, <2>2 DEF SameRank
  <2>5. /\ Cardinality(Spots(ns, Q)) = Cardinality(Q)
        /\ \A j \in 1 .. Cardinality(Q) :
             LineOf(ByRank(purpose, S), Spots(ns, Q))[j] = <<ns, LineOf(Rising(Q), Q)[j]>>
    BY <2>3, OneRank
  <2> QED
    BY <2>5 DEF Spots
<1>13. ASSUME NEW j \in 1 .. p + n
       PROVE  line[j] = memory.current[LineOf(R, S)[j]]
  <2>1. CASE j <= p
    <3>1. j \in 1 .. p /\ line[j] = first[j]
      BY <1>1, <1>2, <1>3, <2>1
    <3>2. LineOf(R, S)[j] = <<ns, LineOf(Rising(P), P)[j]>>
      <4> HIDE DEF R, A
      <4> QED
        BY <1>10, <1>11, <3>1
    <3>3. first[j] = pointer[<<ns, LineOf(Rising(P), P)[j]>>]
      BY <1>1, <3>1
    <3>4. first[j] = pointer[LineOf(R, S)[j]]
      BY <3>2, <3>3
    <3> QED
      BY <3>1, <3>4
  <2>2. CASE ~(j <= p)
    <3>1. PICK i \in 1 .. n : j = p + i
      <4>1. j - p \in 1 .. n /\ j = p + (j - p)
        BY <1>1, <1>2, <2>2
      <4> QED
        BY <4>1
    <3>2. line[j] = second[i]
      BY <1>1, <1>2, <1>3, <2>2, <3>1
    <3>3. second[i] = pointer[LineOf(R, B)[i]]
      BY <1>2, <1>12
    <3>4. LineOf(R, B)[i] = LineOf(R, S)[j]
      BY <1>10, <1>11, <1>12, <3>1
    <3> QED
      BY <3>2, <3>3, <3>4
  <2> QED
    BY <2>1, <2>2
<1>14. Len(line) = p + n /\ Cardinality(S) = p + n
  BY <1>1, <1>2, <1>3, <1>10, <1>11, <1>12
<1>15. Candidates(memory, ns, purpose) =
         [j \in 1 .. Cardinality(S) |-> EntryItem(memory.current[LineOf(R, S)[j]])]
  <2>1. PICK T : T = S
    OBVIOUS
  <2> QED
    BY <1>7, <1>8, CandidateLine DEF S
<1> QED
  <2>1. \A j \in 1 .. p + n : EntryItem(line[j]) = EntryItem(memory.current[LineOf(R, S)[j]])
    BY <1>13
  <2> HIDE DEF R, p, n
  <2> QED
    BY <1>3, <1>14, <1>15, <2>1

-----------------------------------------------------------------------------
(* What is admitted is what fits *)

LEMMA AppendedRange ==
  ASSUME NEW W, NEW s \in Seq(W), NEW x \in W
  PROVE  Range(Append(s, x)) = Range(s) \cup {x}
<1>1. PICK t : t = Append(s, x)
  OBVIOUS
<1>2. /\ Len(s) \in Nat /\ DOMAIN s = 1 .. Len(s) /\ DOMAIN t = 1 .. Len(s) + 1
      /\ t[Len(s) + 1] = x /\ \A k \in 1 .. Len(s) : t[k] = s[k]
  BY <1>1
<1>3. ASSUME NEW z \in Range(t)
      PROVE  z \in Range(s) \cup {x}
  <2>1. PICK k \in 1 .. Len(s) + 1 : z = t[k]
    BY <1>2, <1>3 DEF Range
  <2>2. CASE k = Len(s) + 1
    BY <1>2, <2>1, <2>2
  <2>3. CASE k # Len(s) + 1
    <3>1. k \in 1 .. Len(s)
      BY <1>2, <2>3
    <3> QED
      BY <1>2, <2>1, <3>1 DEF Range
  <2> QED
    BY <2>2, <2>3
<1>4. ASSUME NEW z \in Range(s) \cup {x}
      PROVE  z \in Range(t)
  <2>1. CASE z = x
    <3>1. Len(s) + 1 \in DOMAIN t
      BY <1>2
    <3> QED
      BY <1>2, <2>1, <3>1 DEF Range
  <2>2. CASE z # x
    <3>1. PICK k \in 1 .. Len(s) : z = s[k]
      BY <1>2, <1>4, <2>2 DEF Range
    <3>2. k \in DOMAIN t
      BY <1>2
    <3> QED
      BY <1>2, <3>1, <3>2 DEF Range
  <2> QED
    BY <2>1, <2>2
<1> QED
  BY <1>1, <1>3, <1>4

(* The one function that takes each step takes what the admitted take. *)
TakenNext(line, admitted, a, j) ==
    IF j = 0 THEN [count |-> 0, bytes |-> 0, sources |-> 0]
    ELSE IF line[j].what \in admitted
         THEN [count |-> a[j - 1].count + 1,
               bytes |-> a[j - 1].bytes + line[j].size,
               sources |-> a[j - 1].sources + line[j].sources]
         ELSE a[j - 1]

LEMMA TakenIs ==
  ASSUME NEW line, NEW n \in Nat, n = Len(line), NEW admitted,
         NEW h, h = [j \in 0 .. n |-> TakenNext(line, admitted, h, j)]
  PROVE  Taken(line, admitted) = h
<1> DEFINE next(a, j) == TakenNext(line, admitted, a, j)
           f == CHOOSE g : g = [j \in 0 .. n |-> next(g, j)]
<1>1. f = [j \in 0 .. n |-> next(f, j)]
  <2> HIDE DEF next
  <2>1. h = [j \in 0 .. n |-> next(h, j)]
    BY DEF next
  <2> QED
    BY <2>1
<1> HIDE DEF f
<1>2. \A j \in 0 .. n : f[j] = TakenNext(line, admitted, f, j)
  BY <1>1
<1>3. \A j \in 0 .. n : h[j] = TakenNext(line, admitted, h, j)
  OBVIOUS
<1>4. PICK S : S = {j \in 0 .. n : f[j] = h[j]}
  OBVIOUS
<1>5. 0 \in S
  <2>1. 0 \in 0 .. n
    OBVIOUS
  <2> QED
    BY <1>2, <1>3, <1>4, <2>1 DEF TakenNext
<1>6. ASSUME NEW j \in 1 .. n, j - 1 \in S
      PROVE  j \in S
  <2>1. j \in 0 .. n /\ j # 0 /\ f[j - 1] = h[j - 1]
    BY <1>4, <1>6
  <2> QED
    BY <1>2, <1>3, <1>4, <2>1 DEF TakenNext
<1>7. \A j \in 0 .. n : j \in S
  BY <1>5, <1>6, Stepwise
<1>8. f = h
  <2> HIDE DEF next
  <2>1. \A j \in 0 .. n : f[j] = h[j]
    BY <1>4, <1>7
  <2>2. f = [j \in 0 .. n |-> f[j]] /\ h = [j \in 0 .. n |-> h[j]]
    BY <1>1
  <2> QED
    BY <2>1, <2>2
<1>9. Taken(line, admitted) = f
  BY DEF Taken, f, TakenNext
<1> QED
  BY <1>8, <1>9

LEMMA AccountIs ==
  ASSUME NEW W, NEW a \in Accounts(W)
  PROVE  /\ a.admitted \in Seq(W) /\ Len(a.admitted) \in Nat
         /\ a.omitted \in Nat /\ a.bytes \in Nat /\ a.sources \in Nat
BY DEF Accounts

(* What fits as its turn comes *)
FitsAt(acc, request, most, items, j) ==
    /\ Len(acc[j - 1].admitted) < most
    /\ acc[j - 1].bytes + items[j].size <= request.maxBytes
    /\ acc[j - 1].sources + items[j].sources <= request.maxSources

Fitting(acc, request, most, items, n) == {j \in 1 .. n : FitsAt(acc, request, most, items, j)}

(* The items of a line considered one after the other, from nothing *)
Run(acc, n, start, request, most, items, W) ==
    /\ n \in Nat /\ Itemised(items, n, W)
    /\ start \in Accounts(W) /\ start.admitted = << >> /\ start.omitted = 0
    /\ acc \in [0 .. n -> Accounts(W)]
    /\ Accounting(acc, n, start, request, most, items)

LEMMA OneConsidered ==
  ASSUME NEW W, NEW request, NEW most, NEW start, NEW items, NEW n, NEW acc,
         Run(acc, n, start, request, most, items, W), NEW j \in 1 .. n
  PROVE  /\ j \in Fitting(acc, request, most, items, n) =>
              /\ Range(acc[j].admitted) = Range(acc[j - 1].admitted) \cup {items[j].what}
              /\ Len(acc[j].admitted) = Len(acc[j - 1].admitted) + 1
              /\ acc[j].omitted = acc[j - 1].omitted
              /\ acc[j].bytes = acc[j - 1].bytes + items[j].size
              /\ acc[j].sources = acc[j - 1].sources + items[j].sources
         /\ j \notin Fitting(acc, request, most, items, n) =>
              /\ acc[j].admitted = acc[j - 1].admitted
              /\ acc[j].omitted = acc[j - 1].omitted + 1
              /\ acc[j].bytes = acc[j - 1].bytes /\ acc[j].sources = acc[j - 1].sources
<1> USE DEF Run
<1>1. PICK a, b, x : a = acc[j - 1] /\ b = acc[j] /\ x = items[j]
  OBVIOUS
<1>2. j - 1 \in 0 .. n /\ j \in 0 .. n
  OBVIOUS
<1>3. a \in Accounts(W)
  BY <1>1, <1>2
<1>4. x.what \in W
  BY <1>1 DEF Itemised
<1>5. b = Consider(request, most, a, x)
  BY <1>1 DEF Accounting
<1>6. j \in Fitting(acc, request, most, items, n) <=>
        /\ Len(a.admitted) < most
        /\ a.bytes + x.size <= request.maxBytes
        /\ a.sources + x.sources <= request.maxSources
  BY <1>1 DEF Fitting, FitsAt
<1>7. ASSUME j \in Fitting(acc, request, most, items, n)
      PROVE  /\ b.admitted = Append(a.admitted, x.what) /\ b.omitted = a.omitted
             /\ b.bytes = a.bytes + x.size /\ b.sources = a.sources + x.sources
  BY <1>3, <1>5, <1>6, <1>7 DEF Consider, Accounts
<1>8. ASSUME j \notin Fitting(acc, request, most, items, n)
      PROVE  /\ b.admitted = a.admitted /\ b.omitted = a.omitted + 1
             /\ b.bytes = a.bytes /\ b.sources = a.sources
  BY <1>3, <1>5, <1>6, <1>8 DEF Consider, Accounts
<1>9. a.admitted \in Seq(W)
  BY <1>3 DEF Accounts
<1>10. /\ Range(Append(a.admitted, x.what)) = Range(a.admitted) \cup {x.what}
       /\ Len(Append(a.admitted, x.what)) = Len(a.admitted) + 1
  BY <1>4, <1>9, AppendedRange
<1> QED
  BY <1>1, <1>7, <1>8, <1>10

(* Each thing once *)
Distinct(items, n) == \A i, j \in 1 .. n : items[i].what = items[j].what => i = j

LEMMA AdmittedAre ==
  ASSUME NEW W, NEW request, NEW most, NEW start, NEW items, NEW n, NEW acc,
         Run(acc, n, start, request, most, items, W), Distinct(items, n)
  PROVE  /\ acc[n].omitted + Len(acc[n].admitted) = n
         /\ Range(acc[n].admitted) \subseteq {items[j].what : j \in 1 .. n}
         /\ \A j \in 1 .. n :
              items[j].what \in Range(acc[n].admitted)
                <=> j \in Fitting(acc, request, most, items, n)
<1>0. /\ n \in Nat /\ start \in Accounts(W) /\ start.admitted = << >> /\ start.omitted = 0
      /\ acc \in [0 .. n -> Accounts(W)] /\ Accounting(acc, n, start, request, most, items)
  BY DEF Run
<1>1. PICK F : F = Fitting(acc, request, most, items, n)
  OBVIOUS
<1> USE <1>0
<1> DEFINE Chosen(j) == {items[k].what : k \in F \cap (1 .. j)}
<1>2. PICK S : S = {j \in 0 .. n : /\ acc[j].omitted + Len(acc[j].admitted) = j
                                   /\ Range(acc[j].admitted) = Chosen(j)}
  OBVIOUS
<1>3. 0 \in S
  <2>1. acc[0] = start /\ 0 \in 0 .. n
    BY DEF Accounting
  <2>2. Range(<< >>) = {} /\ Len(<< >>) = 0 /\ Chosen(0) = {}
    BY DEF Range
  <2> QED
    BY <1>2, <2>1, <2>2
<1>4. ASSUME NEW j \in 1 .. n, j - 1 \in S
      PROVE  j \in S
  <2>1. PICK i : i = j - 1
    OBVIOUS
  <2>2. /\ i \in 0 .. n /\ j = i + 1
        /\ acc[i].omitted + Len(acc[i].admitted) = i /\ Range(acc[i].admitted) = Chosen(i)
    BY <1>2, <1>4, <2>1
  <2>3. acc[i].omitted \in Nat /\ Len(acc[i].admitted) \in Nat
    <3>1. acc[i] \in Accounts(W)
      BY <2>2
    <3> QED
      BY <3>1, AccountIs
  <2>4. /\ j \in F => /\ Range(acc[j].admitted) = Range(acc[i].admitted) \cup {items[j].what}
                      /\ Len(acc[j].admitted) = Len(acc[i].admitted) + 1
                      /\ acc[j].omitted = acc[i].omitted
        /\ j \notin F => /\ acc[j].admitted = acc[i].admitted
                         /\ acc[j].omitted = acc[i].omitted + 1
    <3> HIDE <1>0
    <3> QED
      BY <1>1, <2>1, OneConsidered
  <2>5. acc[j].omitted + Len(acc[j].admitted) = j
    BY <2>2, <2>3, <2>4
  <2>6. \A k : k \in F \cap (1 .. j) <=> k \in F \cap (1 .. i) \/ (k = j /\ j \in F)
    BY <2>2
  <2>7. Range(acc[j].admitted) = Chosen(j)
    <3>1. CASE j \in F
      <4>1. ASSUME NEW z \in Chosen(j)
            PROVE  z \in Chosen(i) \cup {items[j].what}
        <5>1. PICK k \in F \cap (1 .. j) : z = items[k].what
          OBVIOUS
        <5> QED
          BY <2>6, <5>1
      <4>2. Chosen(i) \subseteq Chosen(j) /\ items[j].what \in Chosen(j)
        BY <2>6, <3>1
      <4>3. Chosen(j) = Chosen(i) \cup {items[j].what}
        BY <4>1, <4>2
      <4> QED
        BY <2>2, <2>4, <3>1, <4>3
    <3>2. CASE j \notin F
      <4>1. F \cap (1 .. j) = F \cap (1 .. i)
        BY <2>6, <3>2
      <4> QED
        BY <2>2, <2>4, <3>2, <4>1
    <3> QED
      BY <3>1, <3>2
  <2> QED
    BY <1>2, <2>2, <2>5, <2>7
<1>5. \A j \in 0 .. n : j \in S
  BY <1>3, <1>4, Stepwise
<1>6. acc[n].omitted + Len(acc[n].admitted) = n /\ Range(acc[n].admitted) = Chosen(n)
  <2>1. n \in 0 .. n
    OBVIOUS
  <2>2. n \in S
    BY <1>5, <2>1
  <2> QED
    BY <1>2, <2>2
<1>7. F \in SUBSET (1 .. n)
  BY <1>1 DEF Fitting
<1>8. Chosen(n) = {items[k].what : k \in F}
  <2>1. F \cap (1 .. n) = F
    BY <1>7
  <2> QED
    BY <2>1
<1>9. \A j \in 1 .. n : items[j].what \in {items[k].what : k \in F} <=> j \in F
  <2> TAKE j \in 1 .. n
  <2>1. ASSUME items[j].what \in {items[k].what : k \in F}
        PROVE  j \in F
    <3>1. PICK k \in F : items[j].what = items[k].what
      BY <2>1
    <3> QED
      BY <1>7, <3>1 DEF Distinct
  <2> QED
    BY <2>1
<1>10. {items[k].what : k \in F} \subseteq {items[j].what : j \in 1 .. n}
  BY <1>7
<1> QED
  BY <1>1, <1>6, <1>8, <1>9, <1>10

LEMMA GreedyRuns ==
  ASSUME NEW W, NEW request, NEW most, NEW start, NEW items, NEW n, NEW acc,
         Run(acc, n, start, request, most, items, W), Distinct(items, n),
         n = Len(items), DOMAIN items = 1 .. n
  PROVE  /\ acc[n].omitted + Len(acc[n].admitted) = n
         /\ Range(acc[n].admitted) \subseteq {items[j].what : j \in 1 .. n}
         /\ GreedyIn(items, Range(acc[n].admitted), most, start.bytes, start.sources, request)
         /\ Taken(items, Range(acc[n].admitted))[n].bytes = acc[n].bytes - start.bytes
<1>0. /\ n \in Nat /\ start \in Accounts(W) /\ Itemised(items, n, W)
      /\ acc \in [0 .. n -> Accounts(W)] /\ Accounting(acc, n, start, request, most, items)
  BY DEF Run
<1> USE <1>0
<1>1. PICK F, all : F = Fitting(acc, request, most, items, n) /\ all = Range(acc[n].admitted)
  OBVIOUS
<1>2. /\ acc[n].omitted + Len(acc[n].admitted) = n
      /\ all \subseteq {items[j].what : j \in 1 .. n}
      /\ \A j \in 1 .. n : items[j].what \in all <=> j \in F
  <2> HIDE <1>0
  <2> QED
    BY <1>1, AdmittedAre
<1>3. PICK h : h = [j \in 0 .. n |-> [count |-> Len(acc[j].admitted),
                                      bytes |-> acc[j].bytes - start.bytes,
                                      sources |-> acc[j].sources - start.sources]]
  OBVIOUS
<1>4. \A j \in 0 .. n : /\ acc[j].bytes \in Nat /\ acc[j].sources \in Nat
                        /\ Len(acc[j].admitted) \in Nat
  <2> TAKE j \in 0 .. n
  <2>1. acc[j] \in Accounts(W)
    OBVIOUS
  <2> QED
    BY <2>1 DEF Accounts
<1>5. start.bytes \in Nat /\ start.sources \in Nat
  BY DEF Accounts
<1>6. \A j \in 0 .. n : h[j] = TakenNext(items, all, h, j)
  <2> TAKE j \in 0 .. n
  <2>1. CASE j = 0
    <3>1. acc[0] = start
      BY DEF Accounting
    <3>2. h[0] = [count |-> 0, bytes |-> 0, sources |-> 0]
      <4>1. /\ start.admitted = << >> /\ 0 \in 0 .. n
            /\ h[0] = [count |-> Len(start.admitted), bytes |-> start.bytes - start.bytes,
                       sources |-> start.sources - start.sources]
        BY <1>3, <3>1 DEF Run
      <4> QED
        BY <1>5, <4>1
    <3> QED
      BY <2>1, <3>2 DEF TakenNext
  <2>2. CASE j # 0
    <3>1. j \in 1 .. n
      BY <2>2
    <3>2. PICK i : i = j - 1
      OBVIOUS
    <3>3. i \in 0 .. n /\ j \in 0 .. n
      BY <3>1, <3>2
    <3>4. items[j].size \in Nat /\ items[j].sources \in Nat
      BY <3>1 DEF Itemised
    <3>5. /\ j \in F => /\ Len(acc[j].admitted) = Len(acc[i].admitted) + 1
                        /\ acc[j].bytes = acc[i].bytes + items[j].size
                        /\ acc[j].sources = acc[i].sources + items[j].sources
          /\ j \notin F => /\ acc[j].admitted = acc[i].admitted
                           /\ acc[j].bytes = acc[i].bytes /\ acc[j].sources = acc[i].sources
      BY <1>1, <3>1, <3>2, OneConsidered
    <3>6. /\ h[j] = [count |-> Len(acc[j].admitted), bytes |-> acc[j].bytes - start.bytes,
                     sources |-> acc[j].sources - start.sources]
          /\ h[i] = [count |-> Len(acc[i].admitted), bytes |-> acc[i].bytes - start.bytes,
                     sources |-> acc[i].sources - start.sources]
      BY <1>3, <3>3
    <3>7. CASE j \in F
      <4>1. /\ h[j].count = h[i].count + 1 /\ h[j].bytes = h[i].bytes + items[j].size
            /\ h[j].sources = h[i].sources + items[j].sources
        <5>1. /\ acc[i].bytes \in Nat /\ acc[j].bytes \in Nat
              /\ acc[i].sources \in Nat /\ acc[j].sources \in Nat
          BY <1>4, <3>3
        <5>2. h[j].count = h[i].count + 1
          BY <3>5, <3>6, <3>7
        <5>3. h[j].bytes = h[i].bytes + items[j].size
          <6>1. /\ h[j].bytes = acc[j].bytes - start.bytes /\ h[i].bytes = acc[i].bytes - start.bytes
            BY <3>6
          <6>2. acc[j].bytes = acc[i].bytes + items[j].size
            BY <3>5, <3>7
          <6> HIDE <1>0
          <6> QED
            BY <1>5, <3>4, <5>1, <6>1, <6>2
        <5>4. h[j].sources = h[i].sources + items[j].sources
          <6>1. /\ h[j].sources = acc[j].sources - start.sources /\ h[i].sources = acc[i].sources - start.sources
            BY <3>6
          <6>2. acc[j].sources = acc[i].sources + items[j].sources
            BY <3>5, <3>7
          <6> HIDE <1>0
          <6> QED
            BY <1>5, <3>4, <5>1, <6>1, <6>2
        <5> QED
          BY <5>2, <5>3, <5>4
      <4>2. h[j] = [count |-> h[j].count, bytes |-> h[j].bytes, sources |-> h[j].sources]
        BY <3>6
      <4> QED
        BY <1>2, <2>2, <3>1, <3>2, <3>7, <4>1, <4>2 DEF TakenNext
    <3>8. CASE j \notin F
      <4>1. h[j] = h[i]
        BY <3>5, <3>6, <3>8
      <4> QED
        BY <1>2, <2>2, <3>1, <3>2, <3>8, <4>1 DEF TakenNext
    <3> QED
      BY <3>7, <3>8
  <2> QED
    BY <2>1, <2>2
<1>7. h = [j \in 0 .. n |-> TakenNext(items, all, h, j)]
  <2>1. h = [j \in 0 .. n |-> h[j]]
    BY <1>3
  <2> QED
    BY <1>6, <2>1
<1>8. Taken(items, all) = h
  BY <1>7, TakenIs
<1>9. ASSUME NEW j \in DOMAIN items
      PROVE  items[j].what \in all <=>
               /\ h[j - 1].count < most
               /\ start.bytes + h[j - 1].bytes + items[j].size <= request.maxBytes
               /\ start.sources + h[j - 1].sources + items[j].sources <= request.maxSources
  <2>1. PICK i : i = j - 1
    OBVIOUS
  <2>2. j \in 1 .. n /\ i \in 0 .. n
    BY <2>1
  <2>3. /\ h[i].count = Len(acc[i].admitted) /\ start.bytes + h[i].bytes = acc[i].bytes
        /\ start.sources + h[i].sources = acc[i].sources
    BY <1>3, <1>4, <1>5, <2>2
  <2>4. j \in F <=> FitsAt(acc, request, most, items, j)
    BY <1>1, <2>2 DEF Fitting
  <2>5. items[j].what \in all <=> FitsAt(acc, request, most, items, j)
    BY <1>2, <2>2, <2>4
  <2> QED
    BY <2>1, <2>3, <2>5 DEF FitsAt
<1>10. GreedyIn(items, all, most, start.bytes, start.sources, request)
  BY <1>8, <1>9 DEF GreedyIn
<1>11. h[n].bytes = acc[n].bytes - start.bytes
  BY <1>3
<1> QED
  BY <1>1, <1>2, <1>8, <1>10, <1>11

(* A stream to choose from: each thing once *)
Ready(items, n, W) ==
    /\ n \in Nat /\ n = Len(items) /\ DOMAIN items = 1 .. n
    /\ Itemised(items, n, W) /\ Distinct(items, n)

(* What a stream gives to a snapshot *)
Gives(request, most, start, items, result) ==
    /\ result.omitted + Len(result.admitted) = Len(items)
    /\ Range(result.admitted) \subseteq {items[j].what : j \in DOMAIN items}
    /\ GreedyIn(items, Range(result.admitted), most, start.bytes, start.sources, request)
    /\ Taken(items, Range(result.admitted))[Len(items)].bytes = result.bytes - start.bytes

LEMMA RunGives ==
  ASSUME NEW W, NEW request, NEW most, NEW start, NEW items, NEW n, NEW acc,
         Run(acc, n, start, request, most, items, W), Ready(items, n, W)
  PROVE  Gives(request, most, start, items, acc[n])
<1>1. Distinct(items, n)
  BY DEF Ready
<1>2. n = Len(items) /\ DOMAIN items = 1 .. n
  BY DEF Ready
<1>3. /\ acc[n].omitted + Len(acc[n].admitted) = n
      /\ Range(acc[n].admitted) \subseteq {items[j].what : j \in 1 .. n}
      /\ GreedyIn(items, Range(acc[n].admitted), most, start.bytes, start.sources, request)
      /\ Taken(items, Range(acc[n].admitted))[n].bytes = acc[n].bytes - start.bytes
  BY <1>1, <1>2, GreedyRuns
<1> QED
  BY <1>2, <1>3 DEF Gives

(* The choice is such a run. *)
Considering(acc, n, start, request, most, items, W) ==
    /\ acc \in [0 .. n -> Accounts(W)]
    /\ Accounting(acc, n, start, request, most, items)
    /\ Considered(request, most, start, items) = acc[n]

LEMMA ChoiceIsRun ==
  ASSUME NEW W, NEW request, NEW most, NEW start, NEW items, NEW n,
         start \in Accounts(W), Ready(items, n, W)
  PROVE  \E acc : Considering(acc, n, start, request, most, items, W)
<1>1. /\ n \in Nat /\ n = Len(items)
      /\ Itemised(items, n, W)
  BY DEF Ready
<1>2. PICK acc \in [0 .. n -> Accounts(W)] :
        /\ Accounting(acc, n, start, request, most, items)
        /\ Considered(request, most, start, items) = acc[n]
  BY <1>1, ConsideredIs
<1>3. Considering(acc, n, start, request, most, items, W)
  BY <1>2 DEF Considering
<1> QED
  BY <1>3

-----------------------------------------------------------------------------
(* The summaries of a snapshot, by rank *)

EpisodeRank(purpose, e) == PurposeRank(purpose, e.tags)

Precedes(purpose, e, f) ==
    \/ EpisodeRank(purpose, e) < EpisodeRank(purpose, f)
    \/ EpisodeRank(purpose, e) = EpisodeRank(purpose, f) /\ e.at > f.at
    \/ EpisodeRank(purpose, e) = EpisodeRank(purpose, f) /\ e.at = f.at /\ e.id < f.id

EpisodesBy(purpose, S) == {p \in S \X S : Precedes(purpose, p[1], p[2])}

LEMMA EpisodesAreOrdered ==
  ASSUME NEW purpose, NEW S \in SUBSET Episodes
  PROVE  StrictOrder(EpisodesBy(purpose, S), S)
<1>1. \A x, y \in S : <<x, y>> \in EpisodesBy(purpose, S) <=> Precedes(purpose, x, y)
  BY DEF EpisodesBy
<1>2. \A x \in S : EpisodeRank(purpose, x) \in Nat /\ x.at \in Nat /\ x.id \in Nat
  BY RecallAssumption DEF EpisodeRank, PurposeRank
<1>3. \A x, y \in S : x.id = y.id => x = y
  BY RecallAssumption
<1>4. \A x \in S : ~Precedes(purpose, x, x)
  BY <1>2 DEF Precedes
<1>5. \A x, y \in S : x # y => Precedes(purpose, x, y) \/ Precedes(purpose, y, x)
  BY <1>2, <1>3 DEF Precedes
<1>6. ASSUME NEW x \in S, NEW y \in S, NEW z \in S,
             Precedes(purpose, x, y), Precedes(purpose, y, z)
      PROVE  Precedes(purpose, x, z)
  BY <1>2, <1>6 DEF Precedes
<1> QED
  BY <1>1, <1>4, <1>5, <1>6 DEF StrictOrder

LEMMA LineIsFunction ==
  ASSUME NEW R, NEW S
  PROVE  LineOf(R, S) = [j \in 1 .. Cardinality(S) |-> LineOf(R, S)[j]]
<1> DEFINE nth(j) == CHOOSE x \in S : Rank(R, S, x) = j - 1
<1>1. LineOf(R, S) = [j \in 1 .. Cardinality(S) |-> nth(j)]
  BY DEF LineOf
<1> HIDE DEF nth
<1> QED
  BY <1>1

(* Summaries that are all of one rank in a line *)
OfOneRank(purpose, T, rank, S) ==
    /\ S \in SUBSET Episodes /\ T \in SUBSET S
    /\ \A e \in T : EpisodeRank(purpose, e) = rank

LEMMA SummariesOfOneRank ==
  ASSUME NEW purpose, NEW S, NEW T, NEW rank, OfOneRank(purpose, T, rank, S)
  PROVE  Summaries(T) = LineOf(EpisodesBy(purpose, S), T)
<1> DEFINE ahead(e, f) == e.at > f.at \/ (e.at = f.at /\ e.id < f.id)
           R == EpisodesBy(purpose, S)
           nth(j) == CHOOSE x \in T : Cardinality({y \in T : ahead(y, x)}) = j - 1
           line == [j \in 1 .. Cardinality(T) |-> nth(j)]
<1>1. /\ T \in SUBSET Episodes /\ T \in SUBSET S /\ S \in SUBSET Episodes
      /\ \A e \in T : EpisodeRank(purpose, e) = rank
  BY DEF OfOneRank
<1>2. StrictOrder(R, T) /\ IsFiniteSet(T)
  <2>1. StrictOrder(R, S)
    BY <1>1, EpisodesAreOrdered
  <2>2. StrictOrder(R, T)
    <3> HIDE DEF R
    <3> QED
      BY <1>1, <2>1 DEF StrictOrder
  <2>3. IsFiniteSet(T)
    BY <1>1, FS_Subset, RecallAssumption
  <2> QED
    BY <2>2, <2>3
<1>3. \A x, y \in T : <<y, x>> \in R <=> ahead(y, x)
  <2> TAKE x \in T, y \in T
  <2>1. EpisodeRank(purpose, x) \in Nat /\ EpisodeRank(purpose, x) = EpisodeRank(purpose, y)
    BY <1>1 DEF EpisodeRank, PurposeRank
  <2>2. <<y, x>> \in R <=> Precedes(purpose, y, x)
    BY <1>1 DEF EpisodesBy
  <2> QED
    BY <2>1, <2>2 DEF Precedes
<1> HIDE DEF R
<1>4. \A x \in T : {y \in T : ahead(y, x)} = {y \in T : <<y, x>> \in R}
  <2> HIDE DEF ahead
  <2> QED
    BY <1>3
<1>5. ASSUME NEW j \in 1 .. Cardinality(T)
      PROVE  line[j] = LineOf(R, T)[j]
  <2>1. PICK x : x = LineOf(R, T)[j]
    OBVIOUS
  <2>2. x \in T /\ Rank(R, T, x) = j - 1
    BY <1>2, <2>1, LineIsSorted
  <2>3. Cardinality({y \in T : ahead(y, x)}) = j - 1
    BY <1>4, <2>2 DEF Rank
  <2>4. PICK z : z = CHOOSE w \in T : Cardinality({y \in T : ahead(y, w)}) = j - 1
    OBVIOUS
  <2>5. z \in T /\ Cardinality({y \in T : ahead(y, z)}) = j - 1
    <3> HIDE DEF ahead
    <3> QED
      BY <2>2, <2>3, <2>4
  <2>6. Rank(R, T, z) = j - 1
    BY <1>4, <2>5 DEF Rank
  <2>7. LineOf(R, T)[j] = z
    BY <1>2, <2>5, <2>6, PlaceInLine
  <2> QED
    BY <2>4, <2>7
<1>6. Summaries(T) = line
  BY DEF Summaries, Sorted
<1>7. LineOf(R, T) = [j \in 1 .. Cardinality(T) |-> LineOf(R, T)[j]]
  BY LineIsFunction
<1>8. line = [j \in 1 .. Cardinality(T) |-> line[j]]
  <2> HIDE DEF nth
  <2> QED
    OBVIOUS
<1> HIDE DEF line
<1> QED
  BY <1>5, <1>6, <1>7, <1>8 DEF R

LEMMA SummaryCandidatesLine ==
  ASSUME NEW ns, NEW edition, NEW purpose, NEW S,
         S = {e \in Episodes : e.ns = ns /\ e.edition = edition /\ Suits(purpose, e.tags)}
  PROVE  SummaryCandidates(ns, edition, purpose) = SummaryItems(LineOf(EpisodesBy(purpose, S), S))
<1> DEFINE R == EpisodesBy(purpose, S)
           nth(j) == CHOOSE x \in S : Cardinality({y \in S : Precedes(purpose, y, x)}) = j - 1
           line == [j \in 1 .. Cardinality(S) |-> nth(j)]
<1>1. SummaryCandidates(ns, edition, purpose) = SummaryItems(line)
  BY DEF SummaryCandidates, Sorted, Precedes, EpisodeRank
<1>2. \A x \in S : {y \in S : Precedes(purpose, y, x)} = {y \in S : <<y, x>> \in R}
  BY DEF EpisodesBy
<1>3. StrictOrder(R, S) /\ IsFiniteSet(S)
  <2>1. S \in SUBSET Episodes
    OBVIOUS
  <2> QED
    BY <2>1, EpisodesAreOrdered, FS_Subset, RecallAssumption
<1> HIDE DEF R
<1>4. ASSUME NEW j \in 1 .. Cardinality(S)
      PROVE  line[j] = LineOf(R, S)[j]
  <2>1. PICK x : x = LineOf(R, S)[j]
    OBVIOUS
  <2>2. x \in S /\ Rank(R, S, x) = j - 1
    BY <1>3, <2>1, LineIsSorted
  <2>3. Cardinality({y \in S : Precedes(purpose, y, x)}) = j - 1
    BY <1>2, <2>2 DEF Rank
  <2>4. PICK z : z = CHOOSE w \in S : Cardinality({y \in S : Precedes(purpose, y, w)}) = j - 1
    OBVIOUS
  <2>5. z \in S /\ Cardinality({y \in S : Precedes(purpose, y, z)}) = j - 1
    BY <2>2, <2>3, <2>4
  <2>6. Rank(R, S, z) = j - 1
    BY <1>2, <2>5 DEF Rank
  <2>7. LineOf(R, S)[j] = z
    BY <1>3, <2>5, <2>6, PlaceInLine
  <2> QED
    BY <2>4, <2>7
<1>5. LineOf(R, S) = [j \in 1 .. Cardinality(S) |-> LineOf(R, S)[j]]
  BY LineIsFunction
<1>6. line = [j \in 1 .. Cardinality(S) |-> line[j]]
  <2> HIDE DEF nth
  <2> QED
    OBVIOUS
<1> HIDE DEF line
<1>7. line = LineOf(R, S)
  BY <1>4, <1>5, <1>6
<1> QED
  BY <1>1, <1>7 DEF R

LEMMA OrderedLineIsSeq ==
  ASSUME NEW S, IsFiniteSet(S), NEW R, StrictOrder(R, S)
  PROVE  /\ LineOf(R, S) \in Seq(S) /\ Len(LineOf(R, S)) = Cardinality(S)
         /\ Cardinality(S) \in Nat /\ DOMAIN LineOf(R, S) = 1 .. Cardinality(S)
<1>1. PICK n, line : n = Cardinality(S) /\ line = LineOf(R, S)
  OBVIOUS
<1>2. n \in Nat /\ \A j \in 1 .. n : line[j] \in S
  BY <1>1, LineIsSorted
<1>3. line = [j \in 1 .. n |-> line[j]]
  BY <1>1, LineIsFunction
<1>4. line \in [1 .. n -> S]
  BY <1>2, <1>3
<1>5. line \in Seq(S) /\ Len(line) = n /\ DOMAIN line = 1 .. n
  BY <1>2, <1>4
<1> QED
  BY <1>1, <1>2, <1>5, Zenon

LEMMA LineIsOnce ==
  ASSUME NEW S, IsFiniteSet(S), NEW R, StrictOrder(R, S),
         NEW i \in 1 .. Cardinality(S), NEW j \in 1 .. Cardinality(S),
         LineOf(R, S)[i] = LineOf(R, S)[j]
  PROVE  i = j
<1>1. /\ Rank(R, S, LineOf(R, S)[i]) = i - 1 /\ Rank(R, S, LineOf(R, S)[j]) = j - 1
      /\ Cardinality(S) \in Nat
  BY LineIsSorted
<1> QED
  BY <1>1

LEMMA LinesJoined ==
  ASSUME NEW W, NEW s \in Seq(W), NEW t \in Seq(W)
  PROVE  /\ s \o t \in Seq(W) /\ Len(s \o t) = Len(s) + Len(t)
         /\ \A j \in 1 .. Len(s) + Len(t) :
              (s \o t)[j] = IF j <= Len(s) THEN s[j] ELSE t[j - Len(s)]
OBVIOUS

LEMMA SummaryStreamIsRanked ==
  ASSUME NEW ns, NEW edition, NEW purpose, NEW all,
         all = {e \in Episodes : e.ns = ns /\ e.edition = edition}
  PROVE  /\ SummaryStream(all, purpose) = SummaryCandidates(ns, edition, purpose)
         /\ \E n : Ready(SummaryCandidates(ns, edition, purpose), n, Episodes)
<1> DEFINE A == {e \in all : e.tags \cap purpose # {}}
           B == {e \in all : e.tags = {}}
           S == {e \in Episodes : e.ns = ns /\ e.edition = edition /\ Suits(purpose, e.tags)}
           R == EpisodesBy(purpose, S)
           rank == IF purpose # {} THEN 1 ELSE 0
           line == LineOf(R, S)
<1>1. A \cup B = S
  BY DEF Suits
<1>2. /\ \A e \in A : EpisodeRank(purpose, e) = 0
      /\ \A e \in B : EpisodeRank(purpose, e) = rank
      /\ A # {} => rank = 1
  BY DEF EpisodeRank, PurposeRank
<1>3. SummaryCandidates(ns, edition, purpose) = SummaryItems(line)
  BY SummaryCandidatesLine
<1>4. SummaryStream(all, purpose) = SummaryItems(Summaries(A) \o Summaries(B))
  BY DEF SummaryStream
<1>5. S \in SUBSET Episodes /\ IsFiniteSet(S)
  BY FS_Subset, RecallAssumption
<1> HIDE DEF A, B, S, rank
<1>6. /\ Summaries(A) = LineOf(R, A) /\ Summaries(B) = LineOf(R, B)
  <2>1. OfOneRank(purpose, A, 0, S) /\ OfOneRank(purpose, B, rank, S)
    BY <1>1, <1>2, <1>5 DEF OfOneRank
  <2> QED
    BY <2>1, SummariesOfOneRank
<1>7. StrictOrder(R, S)
  BY <1>5, EpisodesAreOrdered
<1>8. Ahead(R, A, B)
  <2> SUFFICES ASSUME NEW a \in A, NEW b \in B
               PROVE  <<a, b>> \in R /\ <<b, a>> \notin R
    BY DEF Ahead
  <2>1. EpisodeRank(purpose, a) = 0 /\ EpisodeRank(purpose, b) = 1 /\ a \in S /\ b \in S
    BY <1>1, <1>2
  <2>2. Precedes(purpose, a, b) /\ ~Precedes(purpose, b, a)
    BY <2>1 DEF Precedes
  <2> QED
    BY <2>1, <2>2 DEF EpisodesBy
<1> HIDE DEF R
<1> DEFINE p == Cardinality(A)
           n == Cardinality(B)
<1>9. /\ StrictOrder(R, A) /\ StrictOrder(R, B) /\ IsFiniteSet(A) /\ IsFiniteSet(B)
      /\ p \in Nat /\ n \in Nat /\ Cardinality(S) = p + n
      /\ \A j \in 1 .. p : line[j] = LineOf(R, A)[j]
      /\ \A j \in 1 .. n : line[p + j] = LineOf(R, B)[j]
  BY <1>1, <1>5, <1>7, <1>8, LinesJoin
<1>10. /\ LineOf(R, A) \in Seq(A) /\ Len(LineOf(R, A)) = p
       /\ LineOf(R, B) \in Seq(B) /\ Len(LineOf(R, B)) = n
       /\ line \in Seq(S) /\ Len(line) = p + n /\ DOMAIN line = 1 .. p + n
  <2>1. LineOf(R, A) \in Seq(A) /\ Len(LineOf(R, A)) = p
    BY <1>9, OrderedLineIsSeq
  <2>2. LineOf(R, B) \in Seq(B) /\ Len(LineOf(R, B)) = n
    BY <1>9, OrderedLineIsSeq
  <2>3. /\ line \in Seq(S) /\ Len(line) = Cardinality(S)
        /\ DOMAIN line = 1 .. Cardinality(S)
    BY <1>5, <1>7, OrderedLineIsSeq
  <2> QED
    BY <1>9, <2>1, <2>2, <2>3
<1>11. Summaries(A) \o Summaries(B) = line
  <2>1. PICK first, second : first = LineOf(R, A) /\ second = LineOf(R, B)
    OBVIOUS
  <2>2. PICK both : both = first \o second
    OBVIOUS
  <2>3. first \in Seq(S) /\ second \in Seq(S) /\ Len(first) = p /\ Len(second) = n
    BY <1>1, <1>10, <2>1
  <2> HIDE DEF p, n, line
  <2>4. both \in Seq(S) /\ Len(both) = p + n
    <3>1. both \in Seq(S) /\ Len(both) = Len(first) + Len(second)
      BY <2>2, <2>3, LinesJoined
    <3> QED
      BY <2>3, <3>1
  <2>5. \A j \in 1 .. p + n : both[j] = IF j <= p THEN first[j] ELSE second[j - p]
    <3> TAKE j \in 1 .. p + n
    <3>1. PICK a, b : a = Len(first) /\ b = Len(second)
      OBVIOUS
    <3>2. a = p /\ b = n /\ a \in Nat /\ b \in Nat /\ j \in 1 .. a + b
      BY <1>9, <2>3, <3>1
    <3>3. both[j] = IF j <= a THEN first[j] ELSE second[j - a]
      BY <2>2, <2>3, <3>1, <3>2
    <3> QED
      BY <3>2, <3>3
  <2>6. ASSUME NEW j \in 1 .. p + n
        PROVE  both[j] = line[j]
    <3>1. CASE j <= p
      <4>1. j \in 1 .. p
        BY <1>9, <3>1
      <4> QED
        BY <1>9, <2>1, <2>5, <3>1, <4>1
    <3>2. CASE ~(j <= p)
      <4>1. PICK i : i = j - p
        OBVIOUS
      <4>2. i \in 1 .. n /\ j = p + i
        BY <1>9, <3>2, <4>1
      <4> QED
        BY <1>9, <2>1, <2>5, <3>2, <4>1, <4>2
    <3> QED
      BY <3>1, <3>2
  <2>7. both = line
    BY <1>10, <2>4, <2>6
  <2> QED
    BY <1>6, <2>1, <2>2, <2>7
<1>12. Ready(SummaryItems(line), p + n, Episodes)
  <2>1. PICK items, m : items = SummaryItems(line) /\ m = p + n
    OBVIOUS
  <2>2. items = [j \in 1 .. m |-> SummaryItem(line[j])]
    BY <1>10, <2>1 DEF SummaryItems
  <2>3. m \in Nat /\ Len(items) = m /\ DOMAIN items = 1 .. m
    <3>1. m \in Nat
      BY <1>9, <2>1
    <3> QED
      BY <2>2, <3>1
  <2>4. \A j \in 1 .. m : line[j] \in S
    BY <1>10, <2>1
  <2>5. Itemised(items, m, Episodes)
    <3> SUFFICES ASSUME NEW j \in 1 .. m
                 PROVE  /\ items[j].what \in Episodes /\ items[j].size \in Nat
                        /\ items[j].sources \in Nat
      BY DEF Itemised
    <3>1. PICK e : e = line[j]
      OBVIOUS
    <3>2. e \in Episodes /\ items[j] = SummaryItem(e)
      BY <1>5, <2>2, <2>4, <3>1
    <3> QED
      BY <3>2, RecallAssumption DEF SummaryItem
  <2>6. Distinct(items, m)
    <3> SUFFICES ASSUME NEW i \in 1 .. m, NEW j \in 1 .. m, items[i].what = items[j].what
                 PROVE  i = j
      BY DEF Distinct
    <3>1. line[i] = line[j]
      BY <2>2 DEF SummaryItem
    <3> QED
      BY <1>5, <1>7, <1>9, <2>1, <3>1, LineIsOnce
  <2> QED
    BY <2>1, <2>3, <2>5, <2>6 DEF Ready
<1> QED
  BY <1>3, <1>4, <1>11, <1>12

(* The entries of a snapshot, while the tables are as the service keeps them *)
LEMMA EntryStreamIsReady ==
  ASSUME IInv, NEW ns \in Namespaces, NEW purpose, pointer = memory.current
  PROVE  \E n : Ready(EntryStream(ns, purpose), n, Shown(ns))
<1> DEFINE S == Suitable(ns, purpose)
           R == ByRank(purpose, S)
           items == EntryStream(ns, purpose)
<1>1. S \in SUBSET Holding(ns)
  BY DEF Suitable, Holding
<1>2. \A x \in S : x[2] \in Nat /\ x = <<ns, x[2]>> /\ memory.current[x].id \in Line(x)
  BY <1>1, HoldingVersions
<1>3. IsFiniteSet(S)
  BY <1>1, HoldingVersions, FS_Subset
<1> HIDE DEF S
<1>4. StrictOrder(R, S)
  BY <1>2, ByRankIsOrder
<1>5. items = [j \in 1 .. Cardinality(S) |-> EntryItem(memory.current[LineOf(R, S)[j]])]
  <2>1. items = Candidates(memory, ns, purpose)
    BY EntryStreamIsRanked
  <2>2. PICK T : T = S
    OBVIOUS
  <2> QED
    BY <1>3, <1>4, <2>1, CandidateLine DEF S
<1>6. PICK line \in Seq(Shown(ns)) :
        Len(items) = Len(line) /\ Itemised(items, Len(line), Shown(ns))
  BY EntryStreamIs
<1> HIDE DEF R, items
<1>7. PICK n : n = Cardinality(S)
  OBVIOUS
<1>8. n \in Nat /\ Len(items) = n /\ DOMAIN items = 1 .. n
  <2>1. n \in Nat
    BY <1>3, <1>7, FS_CardinalityType
  <2> QED
    BY <1>5, <1>7, <2>1
<1>9. Distinct(items, n)
  <2> SUFFICES ASSUME NEW i \in 1 .. n, NEW j \in 1 .. n, items[i].what = items[j].what
               PROVE  i = j
    BY DEF Distinct
  <2>1. PICK x, y : x = LineOf(R, S)[i] /\ y = LineOf(R, S)[j]
    OBVIOUS
  <2>2. x \in S /\ y \in S
    BY <1>3, <1>4, <1>7, <2>1, LineIsSorted
  <2>3. memory.current[x] = memory.current[y]
    BY <1>5, <1>7, <2>1 DEF EntryItem
  <2>4. x = y
    BY <1>2, <2>2, <2>3 DEF Line
  <2> QED
    BY <1>3, <1>4, <1>7, <2>1, <2>4, LineIsOnce
<1> QED
  BY <1>6, <1>8, <1>9 DEF Ready, items

Sourceless(items, n) == \A j \in 1 .. n : items[j].sources = 0

LEMMA SourcesStay ==
  ASSUME NEW W, NEW request, NEW most, NEW start, NEW items, NEW n, NEW acc,
         Run(acc, n, start, request, most, items, W), Sourceless(items, n)
  PROVE  acc[n].sources = start.sources
<1>0. /\ n \in Nat /\ acc \in [0 .. n -> Accounts(W)]
      /\ Accounting(acc, n, start, request, most, items)
  BY DEF Run
<1>1. PICK S : S = {j \in 0 .. n : acc[j].sources = start.sources}
  OBVIOUS
<1>2. 0 \in S
  <2>1. acc[0] = start /\ 0 \in 0 .. n
    BY <1>0 DEF Accounting
  <2> QED
    BY <1>1, <2>1
<1>3. ASSUME NEW j \in 1 .. n, j - 1 \in S
      PROVE  j \in S
  <2>1. PICK i : i = j - 1
    OBVIOUS
  <2>2. i \in 0 .. n /\ j \in 0 .. n /\ acc[i].sources = start.sources
    BY <1>0, <1>1, <1>3, <2>1
  <2>3. acc[i].sources \in Nat /\ items[j].sources = 0
    <3>1. acc[i] \in Accounts(W)
      BY <1>0, <2>2
    <3> QED
      BY <3>1, AccountIs DEF Sourceless
  <2>4. PICK F : F = Fitting(acc, request, most, items, n)
    OBVIOUS
  <2>5. /\ j \in F => acc[j].sources = acc[i].sources + items[j].sources
        /\ j \notin F => acc[j].sources = acc[i].sources
    <3>1. /\ j \in F => /\ acc[j].bytes = acc[j - 1].bytes + items[j].size
                        /\ acc[j].sources = acc[j - 1].sources + items[j].sources
          /\ j \notin F => acc[j].bytes = acc[j - 1].bytes /\ acc[j].sources = acc[j - 1].sources
      BY <2>4, OneConsidered
    <3> QED
      BY <2>1, <3>1
  <2>6. acc[j].sources = acc[i].sources
    BY <2>3, <2>5
  <2> QED
    BY <1>1, <2>2, <2>6
<1>4. \A j \in 0 .. n : j \in S
  BY <1>0, <1>2, <1>3, Stepwise
<1>5. n \in 0 .. n
  BY <1>0
<1> QED
  BY <1>1, <1>4, <1>5

LEMMA StreamGives ==
  ASSUME NEW W, NEW request, NEW most, NEW start \in Accounts(W),
         start.admitted = << >>, start.omitted = 0, NEW items, NEW n, Ready(items, n, W)
  PROVE  /\ Considered(request, most, start, items) \in Accounts(W)
         /\ Gives(request, most, start, items, Considered(request, most, start, items))
         /\ Sourceless(items, n) =>
              Considered(request, most, start, items).sources = start.sources
<1>1. PICK acc : Considering(acc, n, start, request, most, items, W)
  BY ChoiceIsRun
<1>2. Run(acc, n, start, request, most, items, W) /\ n \in 0 .. n
  BY <1>1 DEF Run, Considering, Ready
<1>3. Considered(request, most, start, items) = acc[n]
  BY <1>1 DEF Considering
<1>4. acc[n] \in Accounts(W)
  BY <1>2 DEF Run
<1>5. Gives(request, most, start, items, acc[n])
  BY <1>2, RunGives
<1>6. ASSUME Sourceless(items, n)
      PROVE  acc[n].sources = start.sources
  BY <1>2, <1>6, SourcesStay
<1> QED
  BY <1>3, <1>4, <1>5, <1>6

(* What a snapshot takes of the entries and of the summaries *)
MeetsBudget(ns, edition, request, built, line) ==
    /\ Range(built.entries) \subseteq {line[j].what : j \in DOMAIN line}
    /\ GreedyIn(line, Range(built.entries), request.maxEntries, 0, 0, request)
    /\ GreedyIn(SummaryCandidates(ns, edition, request.purpose), Range(built.summaries),
                request.maxSummaries,
                Taken(line, Range(built.entries))[Len(line)].bytes, 0, request)
    /\ built.omitted[1] + Len(built.entries) = Len(line)

LEMMA SnapshotGreedy ==
  ASSUME IInv, NEW ns \in Namespaces, NEW edition, NEW request, pointer = memory.current,
         NEW all, all = {s \in Episodes : s.ns = ns /\ s.edition = edition},
         NEW built, built = Built(request, EntryStream(ns, request.purpose),
                                  SummaryStream(all, request.purpose)),
         NEW line, line = Candidates(memory, ns, request.purpose)
  PROVE  MeetsBudget(ns, edition, request, built, line)
<1> DEFINE first == Considered(request, request.maxEntries, NoAccount, line)
           start == [first EXCEPT !.admitted = << >>, !.omitted = 0]
           summaries == SummaryCandidates(ns, edition, request.purpose)
           second == Considered(request, request.maxSummaries, start, summaries)
<1>1. line = EntryStream(ns, request.purpose)
  BY EntryStreamIsRanked
<1>2. /\ SummaryStream(all, request.purpose) = summaries
      /\ \E n : Ready(summaries, n, Episodes)
  BY SummaryStreamIsRanked
<1>3. /\ built.entries = first.admitted /\ built.summaries = second.admitted
      /\ built.omitted[1] = first.omitted
  BY <1>1, <1>2 DEF Built, NoAccount
<1>4. PICK n : Ready(line, n, Shown(ns))
  BY <1>1, EntryStreamIsReady
<1>5. /\ NoAccount \in Accounts(Shown(ns)) /\ NoAccount.admitted = << >>
      /\ NoAccount.omitted = 0 /\ NoAccount.bytes = 0 /\ NoAccount.sources = 0
  BY DEF NoAccount, Accounts
<1>6. Sourceless(line, n)
  <2>1. PICK some \in Seq(Shown(ns)) :
          EntryStream(ns, request.purpose) = [j \in 1 .. Len(some) |-> EntryItem(some[j])]
    BY EntryStreamIs
  <2>2. line = [j \in 1 .. Len(some) |-> EntryItem(some[j])]
    BY <1>1, <2>1
  <2>3. DOMAIN line = 1 .. n
    BY <1>4 DEF Ready
  <2>4. \A j \in 1 .. Len(some) : line[j].sources = 0
    BY <2>2 DEF EntryItem
  <2> QED
    BY <2>2, <2>3, <2>4 DEF Sourceless
<1> HIDE DEF first, second, summaries
<1>7. /\ first \in Accounts(Shown(ns))
      /\ Gives(request, request.maxEntries, NoAccount, line, first)
      /\ first.sources = 0
  BY <1>4, <1>5, <1>6, StreamGives DEF first
<1>8. /\ start \in Accounts(Episodes) /\ start.admitted = << >> /\ start.omitted = 0
      /\ start.bytes = first.bytes /\ start.sources = 0
  <2>1. PICK a, b : a = first /\ b = [a EXCEPT !.admitted = << >>, !.omitted = 0]
    OBVIOUS
  <2>2. a = [admitted |-> a.admitted, omitted |-> a.omitted, bytes |-> a.bytes,
             sources |-> a.sources]
    BY <1>7, <2>1 DEF Accounts
  <2>3. b = [admitted |-> << >>, omitted |-> 0, bytes |-> a.bytes, sources |-> a.sources]
    BY <2>1, <2>2
  <2>4. a.bytes \in Nat /\ a.sources \in Nat
    BY <1>7, <2>1, AccountIs
  <2>5. b \in Accounts(Episodes)
    BY <2>3, <2>4 DEF Accounts
  <2> QED
    BY <1>7, <2>1, <2>3, <2>5
<1> HIDE DEF start
<1>9. Gives(request, request.maxSummaries, start, summaries, second)
  BY <1>2, <1>8, StreamGives DEF second
<1>10. Taken(line, Range(first.admitted))[Len(line)].bytes = start.bytes
  <2>1. first.bytes \in Nat
    BY <1>7, AccountIs
  <2>2. Taken(line, Range(first.admitted))[Len(line)].bytes = first.bytes - NoAccount.bytes
    BY <1>7 DEF Gives
  <2> QED
    BY <1>5, <1>8, <2>1, <2>2
<1>11. GreedyIn(line, Range(built.entries), request.maxEntries, 0, 0, request)
  BY <1>3, <1>5, <1>7 DEF Gives
<1>12. GreedyIn(summaries, Range(built.summaries), request.maxSummaries, start.bytes, 0, request)
  BY <1>3, <1>8, <1>9 DEF Gives
<1> QED
  BY <1>3, <1>7, <1>10, <1>11, <1>12 DEF Gives, MeetsBudget, summaries

LEMMA SnapshotReport ==
  ASSUME IInv, SInv, NEW ns \in Namespaces, NEW edition, NEW request,
         BuildMemorySnapshot(ns, edition, request)
  PROVE  \E q, e, view : Reports(q, e, view)
<1> DEFINE all == {s \in Episodes : s.ns = ns /\ s.edition = edition}
           entries == EntryStream(ns, request.purpose)
           built == Built(request, entries, SummaryStream(all, request.purpose))
           q == [read |-> "snapshot", ns |-> ns, edition |-> edition, request |-> request]
           view == [entries |-> Rows(built.entries), summaries |-> built.summaries]
           r == ReadOf(q, built, view)
           line == Candidates(memory, ns, request.purpose)
<1>1. /\ serving /\ EntryRowsSound(ns) /\ Record(q, built, view)
  BY DEF BuildMemorySnapshot
<1>2. PICK some \in Seq(Shown(ns)) :
        Len(entries) = Len(some) /\ Itemised(entries, Len(some), Shown(ns))
  BY EntryStreamIs
<1>3. NoAccount \in Accounts(Shown(ns))
  BY DEF NoAccount, Accounts
<1>4. built.entries = Considered(request, request.maxEntries, NoAccount, entries).admitted
  BY DEF Built, NoAccount
<1>5. ASSUME ~tampered
      PROVE  MeetsBudget(ns, edition, request, built, line)
  <2>1. pointer = memory.current
    BY <1>1, <1>5 DEF IInv, TablesTellTheStream
  <2>2. PICK a, b, l : a = all /\ b = built /\ l = line
    OBVIOUS
  <2>3. /\ a = {s \in Episodes : s.ns = ns /\ s.edition = edition}
        /\ b = Built(request, EntryStream(ns, request.purpose),
                     SummaryStream(a, request.purpose))
        /\ l = Candidates(memory, ns, request.purpose)
    BY <2>2
  <2> HIDE DEF all, built, line
  <2>4. MeetsBudget(ns, edition, request, b, l)
    BY <2>1, <2>3, SnapshotGreedy
  <2> QED
    BY <2>2, <2>4
<1> HIDE DEF built, entries, line
<1>6. built.entries \in Seq(Shown(ns))
  <2>1. PICK n \in Nat : n = Len(some)
    OBVIOUS
  <2>2. n = Len(entries) /\ Itemised(entries, n, Shown(ns))
    BY <1>2, <2>1
  <2>3. PICK W, most : W = Shown(ns) /\ most = request.maxEntries
    OBVIOUS
  <2>4. Considered(request, most, NoAccount, entries) \in Accounts(W)
    BY <1>3, <2>2, <2>3, ChoiceTyped
  <2> QED
    BY <1>4, <2>3, <2>4 DEF Accounts
<1>7. \A j \in DOMAIN built.entries :
        /\ IsVersion(built.entries[j])
        /\ rows.versions[built.entries[j].id] = log[built.entries[j].id].version
  BY <1>1, <1>6, ShownRow
<1>8. \A j \in DOMAIN built.entries : built.entries[j].id \in DOMAIN log
  BY <1>7 DEF IsVersion, ProvenVersions
<1>9. Range(view.entries) = {log[ref.id].version : ref \in Range(built.entries)}
  <2>1. PICK refs, shown : refs = built.entries /\ shown = Rows(refs)
    OBVIOUS
  <2>2. /\ DOMAIN shown = DOMAIN refs
        /\ \A j \in DOMAIN refs : shown[j] = log[refs[j].id].version
    BY <1>7, <2>1 DEF Rows
  <2>3. Range(shown) = {log[ref.id].version : ref \in Range(refs)}
    BY <2>2 DEF Range
  <2> QED
    BY <2>1, <2>3
<1>10. TellsSnapshot(r, memory)
  <2>1. r.request = q /\ r.event = built /\ r.view = view /\ r.doubtful = tampered
    BY DEF ReadOf
  <2>2. q.ns = ns /\ q.edition = edition /\ q.request = request
    OBVIOUS
  <2> HIDE DEF r, q, view
  <2> QED
    BY <1>5, <1>9, <2>1, <2>2 DEF TellsSnapshot, MeetsBudget, line
<1>11. Borne(r, memory)
  <2>1. r.request.read = "snapshot" /\ r.event = built
    BY DEF ReadOf
  <2> HIDE DEF r
  <2> QED
    BY <1>8, <1>10, <2>1 DEF Borne
<1> QED
  BY <1>1, <1>11 DEF Reports

LEMMA SummariesReport ==
  ASSUME NEW ns \in Namespaces, ListEpisodicSummaries(ns)
  PROVE  \E q, e, view : Reports(q, e, view)
<1> DEFINE line == Summaries({e \in Episodes : e.ns = ns})
           q == [read |-> "summaries", ns |-> ns]
           e == [edition |-> Edition(ns), summaries |-> Page(line), total |-> Len(line)]
<1>1. Record(q, e, Page(line))
  BY DEF ListEpisodicSummaries
<1>2. Borne(ReadOf(q, e, Page(line)), memory)
  <2>1. q.read = "summaries"
    OBVIOUS
  <2>2. PICK r, view : view = Page(line) /\ r = ReadOf(q, e, view)
    OBVIOUS
  <2>3. r.request.read = "summaries"
    BY <2>1, <2>2 DEF ReadOf
  <2> QED
    BY <2>2, <2>3 DEF Borne
<1> QED
  BY <1>1, <1>2 DEF Reports

LEMMA SummaryReport ==
  ASSUME NEW s \in Episodes, ShowEpisodicSummary(s)
  PROVE  \E q, e, view : Reports(q, e, view)
<1> DEFINE q == [read |-> "summary", summary |-> s]
           e == [summary |-> s]
<1>1. Record(q, e, s)
  BY DEF ShowEpisodicSummary
<1>2. Borne(ReadOf(q, e, s), memory)
  <2>1. PICK r : r = ReadOf(q, e, s)
    OBVIOUS
  <2>2. r.request.read = "summary"
    BY <2>1 DEF ReadOf
  <2> QED
    BY <2>1, <2>2 DEF Borne
<1> QED
  BY <1>1, <1>2 DEF Reports

(* A read that is recorded tells what the projection holds. *)
LEMMA ReadReports ==
  ASSUME RInv, ReadNext
  PROVE  OtherCommand /\ \/ \E q, e, view : Reports(q, e, view)
                         \/ \E ns : others' = Append(others, Upgraded(ns))
<1>1. ASSUME \E q, e, view : Reports(q, e, view)
      PROVE  OtherCommand
  BY <1>1 DEF Reports, Record
<1>2. ASSUME NEW ns \in Namespaces, Upgrade(ns)
      PROVE  OtherCommand /\ others' = Append(others, Upgraded(ns))
  BY <1>2 DEF Upgrade
<1>3. ASSUME NEW ns \in Namespaces, ListMemoryEntries(ns)
      PROVE  \E q, e, view : Reports(q, e, view)
  BY <1>3, EntriesReport DEF RInv
<1>4. ASSUME NEW ns \in Namespaces, ListEpisodicSummaries(ns)
      PROVE  \E q, e, view : Reports(q, e, view)
  BY <1>4, SummariesReport
<1>5. ASSUME NEW ns \in Namespaces, NEW pending \in BOOLEAN, ListMemoryProposals(ns, pending)
      PROVE  \E q, e, view : Reports(q, e, view)
  BY <1>5, ProposalsReport DEF RInv
<1>6. ASSUME NEW ns \in Namespaces, NEW edition, NEW request,
             BuildMemorySnapshot(ns, edition, request)
      PROVE  \E q, e, view : Reports(q, e, view)
  BY <1>6, SnapshotReport DEF RInv
<1>7. ASSUME NEW pl \in Places, ShowMemoryEntry(pl)
      PROVE  \E q, e, view : Reports(q, e, view)
  BY <1>7, EntryReport DEF RInv
<1>8. ASSUME NEW pl \in Places, ShowMemoryEntryHistory(pl)
      PROVE  \E q, e, view : Reports(q, e, view)
  BY <1>8, HistoryReport DEF RInv
<1>9. ASSUME NEW pl \in Places, NEW number, ShowMemoryEntryVersion(pl, number)
      PROVE  \E q, e, view : Reports(q, e, view)
  BY <1>9, VersionReport DEF RInv
<1>10. ASSUME NEW p \in DOMAIN rows.proposals \ {Foreign}, ShowMemoryProposal(p)
       PROVE  \E q, e, view : Reports(q, e, view)
  BY <1>10, ProposalReport DEF RInv
<1>11. ASSUME NEW s \in Episodes, ShowEpisodicSummary(s)
       PROVE  \E q, e, view : Reports(q, e, view)
  BY <1>11, SummaryReport
<1>12. \/ \E q, e, view : Reports(q, e, view)
       \/ \E ns \in Namespaces : Upgrade(ns)
  BY <1>3, <1>4, <1>5, <1>6, <1>7, <1>8, <1>9, <1>10, <1>11 DEF ReadNext
<1> QED
  BY <1>1, <1>2, <1>12

-----------------------------------------------------------------------------
(* What was told stays so. *)

(* A projection that names only what is in the stream *)
Rooted(m) ==
    /\ \A pl \in Places : m.current[pl].value # Tombstone => m.current[pl].id \in DOMAIN log
    /\ DOMAIN m.proposals \subseteq DOMAIN log

(* The stream only grows. *)
Kept == /\ DOMAIN log = 1 .. Len(log)
        /\ \A j \in DOMAIN log : j \in DOMAIN log' /\ log'[j] = log[j]

LEMMA RootedStays ==
  ASSUME Kept, NEW m, Rooted(m)
  PROVE  Rooted(m)'
BY DEF Kept, Rooted

LEMMA EntriesToldStays ==
  ASSUME Kept, NEW m, Rooted(m), NEW r, r.request.ns \in Namespaces, TellsEntries(r, m)
  PROVE  TellsEntries(r, m)'
<1> DEFINE all == {pl \in PlacesIn(r.request.ns) : m.current[pl].value # Tombstone}
<1>1. \A pl \in all : log'[m.current[pl].id].version = log[m.current[pl].id].version
  BY DEF Kept, Rooted, PlacesIn, Places
<1> QED
  BY <1>1 DEF TellsEntries

LEMMA WrittenStays ==
  ASSUME Kept, NEW n \in 0 .. Len(log), NEW pl
  PROVE  WrittenBy(n, pl)' = WrittenBy(n, pl)
BY DEF Kept, WrittenBy

LEMMA WrittenIs ==
  ASSUME Kept, NEW n \in 0 .. Len(log), NEW pl, NEW i \in WrittenBy(n, pl)
  PROVE  log'[i] = log[i]
BY DEF Kept, WrittenBy

LEMMA HistoryToldStays ==
  ASSUME Kept, NEW r, r.after \in 0 .. Len(log)
  PROVE  /\ TellsVersion(r) => TellsVersion(r)'
         /\ TellsHistory(r) => TellsHistory(r)'
<1>1. PICK all : all = WrittenBy(r.after, r.request.place)
  OBVIOUS
<1>2. WrittenBy(r.after, r.request.place)' = all
  BY <1>1, WrittenStays
<1>3. \A i \in all : log'[i] = log[i]
  BY <1>1, WrittenIs
<1>4. TellsVersion(r) => TellsVersion(r)'
  BY <1>1, <1>2, <1>3 DEF TellsVersion
<1>5. TellsHistory(r) => TellsHistory(r)'
  BY <1>1, <1>2, <1>3 DEF TellsHistory
<1> QED
  BY <1>4, <1>5

LEMMA ProposalsToldStays ==
  ASSUME Kept, NEW m, Rooted(m), NEW r, TellsProposals(r, m)
  PROVE  TellsProposals(r, m)'
<1>1. \A p \in DOMAIN m.proposals : log'[p] = log[p]
  BY DEF Kept, Rooted
<1> QED
  BY <1>1 DEF TellsProposals

LEMMA SnapshotToldStays ==
  ASSUME Kept, NEW m, NEW r, TellsSnapshot(r, m),
         \A j \in DOMAIN r.event.entries : r.event.entries[j].id \in DOMAIN log
  PROVE  TellsSnapshot(r, m)'
<1>1. \A ref \in Range(r.event.entries) : log'[ref.id] = log[ref.id]
  BY DEF Kept, Range
<1>2. {log'[ref.id].version : ref \in Range(r.event.entries)} =
      {log[ref.id].version : ref \in Range(r.event.entries)}
  BY <1>1
<1> QED
  BY <1>2 DEF TellsSnapshot

LEMMA BorneStays ==
  ASSUME Kept, NEW m, Rooted(m), NEW r, r.after \in 0 .. Len(log), Borne(r, m)
  PROVE  Borne(r, m)'
<1>1. CASE /\ r.request.read = "entries" /\ TellsEntries(r, m)
           /\ r.request.ns \in Namespaces
  BY <1>1, EntriesToldStays DEF Borne
<1>2. CASE /\ r.request.read = "entry" /\ TellsEntry(r, m)
           /\ r.request.place \in Places /\ m.current[r.request.place].value # Tombstone
  BY <1>2 DEF Borne, TellsEntry, Kept, Rooted
<1>3. CASE r.request.read = "version" /\ TellsVersion(r)
  BY <1>3, HistoryToldStays DEF Borne
<1>4. CASE r.request.read = "history" /\ TellsHistory(r)
  BY <1>4, HistoryToldStays DEF Borne
<1>5. CASE r.request.read = "proposals" /\ TellsProposals(r, m)
  BY <1>5, ProposalsToldStays DEF Borne
<1>6. CASE /\ r.request.read = "proposal" /\ TellsProposal(r, m)
           /\ r.request.id \in DOMAIN log
  BY <1>6 DEF Borne, TellsProposal, Kept
<1>7. CASE r.request.read \in {"summaries", "summary"}
  BY <1>7 DEF Borne
<1>8. CASE /\ r.request.read = "snapshot" /\ TellsSnapshot(r, m)
           /\ \A j \in DOMAIN r.event.entries : r.event.entries[j].id \in DOMAIN log
  <2>1. TellsSnapshot(r, m)'
    BY <1>8, SnapshotToldStays
  <2>2. (\A j \in DOMAIN r.event.entries : r.event.entries[j].id \in DOMAIN log)'
    BY <1>8 DEF Kept
  <2> QED
    BY <1>8, <2>1, <2>2 DEF Borne
<1> QED
  BY <1>1, <1>2, <1>3, <1>4, <1>5, <1>6, <1>7, <1>8 DEF Borne

LEMMA BorneTells ==
  ASSUME NEW r, Borne(r, MemoryAt(r.after))
  PROVE  TellsTheStream(r)
BY DEF Borne, TellsTheStream

(* What was shown as read n *)
ToldAt(r) == Rooted(MemoryAt(r.after)) /\ Borne(r, MemoryAt(r.after))

ReadsAreTold == \A n \in Reads : ToldAt(others[n])

TInv == RInv /\ ReadsAreTold

LEMMA MemoryIsRooted ==
  ASSUME IInv
  PROVE  Rooted(memory)
<1>1. ASSUME NEW pl \in Places, memory.current[pl].value # Tombstone
      PROVE  memory.current[pl].id \in DOMAIN log
  BY <1>1, CurrentVersion DEF Line, ProvenVersions
<1>2. DOMAIN memory.proposals \subseteq DOMAIN log
  BY DEF IInv, Reduced, ProvenProposals
<1> QED
  BY <1>1, <1>2 DEF Rooted

LEMMA StreamIsKept ==
  ASSUME RInv, [Next]_vars
  PROVE  /\ Kept /\ Len(log) \in Nat
         /\ \A n \in 0 .. Len(log) : MemoryAt(n)' = MemoryAt(n)
<1>1. DOMAIN log = 1 .. Len(log)
  BY DEF RInv, IInv, LogTyped
<1> QED
  BY <1>1, ReplayStep DEF RInv, Kept

LEMMA ToldStays ==
  ASSUME RInv, [Next]_vars, NEW r, r.after \in 0 .. Len(log), ToldAt(r)
  PROVE  ToldAt(r)'
<1>1. PICK m : m = MemoryAt(r.after)
  OBVIOUS
<1>2. MemoryAt(r.after)' = m /\ Kept
  BY <1>1, StreamIsKept
<1>3. Rooted(m) /\ Borne(r, m)
  BY <1>1 DEF ToldAt
<1>4. Rooted(m)' /\ Borne(r, m)'
  BY <1>2, <1>3, RootedStays, BorneStays
<1> QED
  BY <1>2, <1>4 DEF ToldAt

LEMMA OldReadsStayTold ==
  ASSUME TInv, [Next]_vars, NEW n \in Reads, others'[n] = others[n]
  PROVE  ToldAt(others[n])'
<1>1. PICK r : r = others[n]
  OBVIOUS
<1>2. r.after \in 0 .. Len(log) /\ ToldAt(r)
  BY <1>1 DEF TInv, RInv, ReadsAreFaithful, FaithfulRead, ReadsAreTold
<1>3. ToldAt(r)'
  BY <1>2, ToldStays DEF TInv
<1>4. others'[n] = r
  BY <1>1
<1> QED
  BY <1>3, <1>4 DEF ToldAt

LEMMA OthersGrow ==
  ASSUME OthersTyped, NEW x, others' = Append(others, x)
  PROVE  /\ Len(others) + 1 \notin DOMAIN others
         /\ DOMAIN others' = DOMAIN others \cup {Len(others) + 1}
         /\ others'[Len(others) + 1] = x /\ \A k \in DOMAIN others : others'[k] = others[k]
<1>1. PICK S : S = Range(others) \cup {x}
  OBVIOUS
<1>2. others \in Seq(S) /\ x \in S
  BY <1>1 DEF OthersTyped
<1> QED
  BY <1>2

LEMMA NewReadIsTold ==
  ASSUME TInv, OtherCommand, NEW q, NEW e, NEW view, Reports(q, e, view)
  PROVE  ReadsAreTold'
<1>1. PICK r, N : r = ReadOf(q, e, view) /\ N = Len(others) + 1
  OBVIOUS
<1>2. others' = Append(others, r) /\ Borne(r, memory) /\ r.kind = "read" /\ r.after = Len(log)
  BY <1>1 DEF Reports, Record, ReadOf
<1>3. /\ DOMAIN others' = DOMAIN others \cup {N} /\ others'[N] = r
      /\ \A k \in DOMAIN others : others'[k] = others[k]
  BY <1>1, <1>2, OthersGrow DEF TInv, RInv
<1>4. [Next]_vars
  BY DEF Next
<1>5. ToldAt(r)'
  <2>1. memory = MemoryAt(r.after) /\ r.after \in 0 .. Len(log)
    BY <1>2 DEF TInv, RInv, IsReplay, IInv, LogTyped
  <2>2. ToldAt(r)
    BY <1>2, <2>1, MemoryIsRooted DEF ToldAt, TInv, RInv
  <2> QED
    BY <1>4, <2>1, <2>2, ToldStays DEF TInv
<1>6. ASSUME NEW k \in Reads'
      PROVE  ToldAt(others[k])'
  <2>1. CASE k = N
    BY <1>3, <1>5, <2>1 DEF ToldAt
  <2>2. CASE k # N
    <3>1. k \in Reads /\ others'[k] = others[k]
      BY <1>3, <1>6, <2>2 DEF Reads
    <3> QED
      BY <1>4, <3>1, OldReadsStayTold
  <2> QED
    BY <2>1, <2>2
<1> QED
  BY <1>6 DEF ReadsAreTold

LEMMA NoReadIsAdded ==
  ASSUME TInv, [Next]_vars, UNCHANGED others \/ \E ns : others' = Append(others, Upgraded(ns))
  PROVE  ReadsAreTold'
<1>1. \A k \in Reads' : k \in Reads /\ others'[k] = others[k]
  <2>1. CASE UNCHANGED others
    BY <2>1 DEF Reads
  <2>2. ASSUME NEW ns, others' = Append(others, Upgraded(ns))
        PROVE  \A k \in Reads' : k \in Reads /\ others'[k] = others[k]
    <3>1. PICK x : x = Upgraded(ns)
      OBVIOUS
    <3>2. x.kind # "read"
      BY <3>1 DEF Upgraded
    <3> QED
      BY <2>2, <3>1, <3>2, OthersGrow DEF TInv, RInv, Reads
  <2> QED
    BY <2>1, <2>2
<1>2. \A k \in Reads' : ToldAt(others[k])'
  BY <1>1, OldReadsStayTold
<1> QED
  BY <1>2 DEF ReadsAreTold

LEMMA ToldStep == TInv /\ [RecallNext]_<<vars, others>> => TInv'
<1> SUFFICES ASSUME TInv, [RecallNext]_<<vars, others>>
             PROVE  TInv'
  OBVIOUS
<1>1. RInv'
  BY RecallStep DEF TInv
<1>2. CASE (Commands \/ Start \/ Stop \/ Damage) /\ UNCHANGED others
  <2>1. [Next]_vars
    BY <1>2 DEF Next
  <2> QED
    BY <1>1, <1>2, <2>1, NoReadIsAdded DEF TInv
<1>3. CASE ReadNext
  <2>1. OtherCommand /\ \/ \E q, e, view : Reports(q, e, view)
                        \/ \E ns : others' = Append(others, Upgraded(ns))
    BY <1>3, ReadReports DEF TInv
  <2>2. [Next]_vars
    BY <2>1 DEF Next
  <2> QED
    BY <1>1, <2>1, <2>2, NewReadIsTold, NoReadIsAdded DEF TInv
<1>4. CASE UNCHANGED <<vars, others>>
  BY <1>1, <1>4, NoReadIsAdded DEF TInv
<1> QED
  BY <1>2, <1>3, <1>4 DEF RecallNext

LEMMA ToldStarts == RecallInit => TInv
BY RecallStarts DEF RecallInit, TInv, ReadsAreTold, Reads

(* Whatever happened to the tables, what a read showed is what the stream   *)
(* says the memory held, but for what rests on the current tables alone.    *)
THEOREM ReadsAlwaysTellTheStream == RecallSpec => []ReadsTellTheStream
<1>1. TInv => ReadsTellTheStream
  <2> SUFFICES ASSUME TInv, NEW n \in Reads
               PROVE  TellsTheStream(others[n])
    BY DEF ReadsTellTheStream
  <2>1. PICK r : r = others[n]
    OBVIOUS
  <2>2. Borne(r, MemoryAt(r.after))
    BY <2>1 DEF TInv, ReadsAreTold, ToldAt
  <2>3. TellsTheStream(r)
    BY <2>2, BorneTells
  <2> QED
    BY <2>1, <2>3
<1> QED
  BY <1>1, ToldStarts, ToldStep, PTL DEF RecallSpec

=============================================================================
