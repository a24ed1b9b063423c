------------------------------- MODULE Memory -------------------------------
(***************************************************************************)
(* The memory of the agents: keys in namespaces whose every version is     *)
(* kept, proposals of agents that a human approves or rejects, and the     *)
(* tables that hold them.  Every command is one immediate transaction, so  *)
(* one step.  What it reads are the tables; what is true is the event      *)
(* stream, and the reducer judges each event against it before the         *)
(* transaction commits.  Someone else may damage the tables, while the     *)
(* service is down or while it runs; startup compares them to the stream.  *)
(*                                                                         *)
(* Ids are fresh and every event makes at most one entry version or one    *)
(* proposal with its approval: the position of its event names it.         *)
(***************************************************************************)
EXTENDS Naturals, Sequences, FiniteSets, Functions, FiniteSetsExt

CONSTANTS
    Namespaces,         \* MemoryNamespaceId
    Keys,               \* NormalizedMemoryKey
    Values,             \* what a present entry holds
    Tombstone,          \* what a deleted one holds; also the delete operation
    EntryLimit,         \* active keys of a namespace: 1024
    PendingLimit,       \* MAX_PENDING_MEMORY_PROPOSALS: 256
    DependencyLimit,    \* MAX_MEMORY_DEPENDENCY_NODES: 4096
    Altered,            \* an immutable row whose columns, record and digests disagree
    MaxEvents,          \* bound: memory events in the stream
    MaxDamage           \* bound: how often the tables are damaged from outside

ASSUME MemoryAssumption ==
    /\ Tombstone \notin Values
    /\ {EntryLimit, PendingLimit, DependencyLimit, MaxEvents, MaxDamage} \subseteq Nat

VARIABLES
    log,        \* the memory events of event_stream: an entry version, a proposal or a rejection
    memory,     \* MemoryProjection: the reduction of log, which load_in computes anew
    rows,       \* the immutable tables
    pointer,    \* current_memory_entries
    status,     \* current_memory_proposal_status
    serving,    \* whether the service runs
    damages,    \* how often the tables were damaged
    tampered    \* whether they were since the service started

vars == <<log, memory, rows, pointer, status, serving, damages, tampered>>

Places == Namespaces \X Keys

PlacesIn(ns) == {ns} \X Keys

(* No event: no predecessor, no proposal, ExpectedMemoryEntryState::Absent *)
None == 0

Ids == 1 .. MaxEvents

(* The id of a row the stream knows nothing of *)
Foreign == 0

Operations == Values \cup {Tombstone}

Ref(i, version) ==
    [id |-> i, entry |-> version.entry, number |-> version.number, value |-> version.value]

NoEntry == [id |-> None, entry |-> None, number |-> 0, value |-> Tombstone]

(* MemoryProposalStatus and ApprovalStatus, with the event that resolved *)
Pending == [status |-> "pending", event |-> None]

Tables == {"versions", "proposals", "approvals", "resolutions"}

Versions ==
    [place : Places, entry : Nat, number : Nat, pred : Nat, value : Operations, accepted : Nat]

Proposals == [place : Places, expected : Nat, value : Operations]

Approvals == [status : {"pending", "accepted", "rejected", "expired"}, event : Nat]

(* No row that somebody wrote is an altered one. *)
ASSUME AlteredIsNoRow == Altered \notin Versions \cup Proposals \cup Approvals

-----------------------------------------------------------------------------
(* Events and the reducer *)

EntrySet(version, expired) == [kind |-> "entry", version |-> version, expired |-> expired]

ProposalCreated(proposal) == [kind |-> "proposed", proposal |-> proposal]

ProposalRejected(p) == [kind |-> "rejected", rejected |-> p]

(* The resolutions an event carries: MemoryEntrySet, MemoryEntryDeleted and *)
(* MemoryProposalAccepted differ in the one the version came from.          *)
Settles(event) ==
    CASE event.kind = "entry" ->
           [p \in event.expired \cup ({event.version.accepted} \ {None}) |->
              IF p = event.version.accepted THEN "accepted" ELSE "expired"]
      [] event.kind = "rejected" -> [p \in {event.rejected} |-> "rejected"]
      [] event.kind = "proposed" -> << >>

ResolutionRows(i, event) ==
    [p \in DOMAIN Settles(event) |-> [status |-> Settles(event)[p], event |-> i]]

EmptyMemory ==
    [current |-> [pl \in Places |-> NoEntry], proposals |-> << >>, status |-> << >>]

(* Map updated by every pair of another *)
Updated(f, g) == [x \in DOMAIN f \cup DOMAIN g |-> IF x \in DOMAIN g THEN g[x] ELSE f[x]]

Insert(f, x, y) == Updated(f, [z \in {x} |-> y])

PendingIn(m) == {p \in DOMAIN m.proposals : m.status[p] = Pending}

PendingOf(m, ns) == {p \in PendingIn(m) : m.proposals[p].place \in PlacesIn(ns)}

FaultySucceeds(m, version) ==     \* of the same entry is enough
    m.current[version.place] # NoEntry => version.entry = m.current[version.place].entry

(* apply_entry: the version is the next one of its key *)
Succeeds(m, version) ==
    LET c == m.current[version.place] IN
    /\ version.pred = c.id /\ version.number = c.number + 1
    /\ c # NoEntry => version.entry = c.entry

(* apply_accepted_memory_proposal: the proposal is pending and still current *)
Approvable(m, p, pl) ==
    /\ p \in PendingIn(m)
    /\ m.proposals[p].place = pl
    /\ m.proposals[p].expected = m.current[pl].id

(* apply_expirations: exactly the pending proposals the event made stale *)
ExpiresAllStale(m, i, event) ==
    event.expired =
      {p \in PendingIn(m) \ {event.version.accepted} :
         m.proposals[p].place = event.version.place /\ m.proposals[p].expected # i}

(* reduce: what the next event must fit ... *)
Fits(m, i, event) ==
    CASE event.kind = "entry" ->
           /\ event.version.accepted # None =>
                Approvable(m, event.version.accepted, event.version.place)
           /\ Succeeds(m, event.version)
           /\ ExpiresAllStale(m, i, event)
      [] event.kind = "proposed" ->
           /\ event.proposal.expected = m.current[event.proposal.place].id
           /\ Cardinality(PendingOf(m, event.proposal.place[1])) < PendingLimit
      [] event.kind = "rejected" ->
           /\ event.rejected \in PendingIn(m)
           /\ Approvable(m, event.rejected, m.proposals[event.rejected].place)

ForgetfulReduce(m, i, event) ==   \* a deleted key starts over
    CASE event.kind = "entry" ->
           [m EXCEPT !.current[event.version.place] =
                       IF event.version.value = Tombstone THEN NoEntry ELSE Ref(i, event.version),
                     !.status = Updated(@, ResolutionRows(i, event))]
      [] event.kind = "proposed" ->
           [m EXCEPT !.proposals = Insert(@, i, event.proposal),
                     !.status = Insert(@, i, Pending)]
      [] event.kind = "rejected" ->
           [m EXCEPT !.status = Updated(@, ResolutionRows(i, event))]

(* ... and what it makes of the projection *)
Reduce(m, i, event) ==
    CASE event.kind = "entry" ->
           [m EXCEPT !.current[event.version.place] = Ref(i, event.version),
                     !.status = Updated(@, ResolutionRows(i, event))]
      [] event.kind = "proposed" ->
           [m EXCEPT !.proposals = Insert(@, i, event.proposal),
                     !.status = Insert(@, i, Pending)]
      [] event.kind = "rejected" ->
           [m EXCEPT !.status = Updated(@, ResolutionRows(i, event))]

-----------------------------------------------------------------------------
(* Reading the tables: every read authenticates the rows it leads to *)

Intact(table, id) == id \in DOMAIN rows[table] /\ rows[table][id] # Altered

(* validate_proposal_coherence: proposal, approval, status and resolution agree *)
Coherent(p) ==
    /\ Intact("proposals", p) /\ Intact("approvals", p) /\ p \in DOMAIN status
    /\ rows.approvals[p] = status[p]
    /\ IF status[p] = Pending THEN p \notin DOMAIN rows.resolutions
       ELSE Intact("resolutions", p) /\ rows.resolutions[p] = status[p]

(* A proposal that a version came from *)
AcceptedProposal(p) == Coherent(p) /\ status[p].status = "accepted"

(* The versions and accepted proposals that the version of an event leads   *)
(* to, over predecessors and over what a proposal was made for.             *)
Dependencies(version) ==
    LET proposed(p) == IF Intact("proposals", p) THEN rows.proposals[p].expected ELSE None
        reached[id \in 0 .. MaxEvents] ==
          IF id = None \/ ~Intact("versions", id) THEN {id} \ {None}
          ELSE LET v == rows.versions[id] IN
               {id} \cup reached[v.pred]
                 \cup IF v.accepted = None THEN {}
                      ELSE {v.accepted} \cup reached[proposed(v.accepted)]
    IN reached[version]

(* validate_entry_dependency_graph *)
GraphSound(versions) ==
    LET nodes == UNION {Dependencies(v) : v \in versions} IN
    /\ Cardinality(nodes) <= DependencyLimit
    /\ \A id \in nodes : Intact("versions", id) \/ AcceptedProposal(id)

(* load_entry_by_version_id *)
Loadable(id) ==
    /\ Intact("versions", id)
    /\ \A d \in Dependencies(id) : Intact("versions", d) \/ AcceptedProposal(d)

(* load_current_entry *)
Readable(pl) ==
    LET id == pointer[pl].id IN
    id # None => Loadable(id) /\ Ref(id, rows.versions[id]) = pointer[pl]

(* validate_current_entry_rows *)
EntryRowsSound(ns) ==
    LET current == {pointer[pl].id : pl \in PlacesIn(ns)} \ {None} IN
    /\ \A pl \in PlacesIn(ns) : pointer[pl] # NoEntry =>
         /\ Intact("versions", pointer[pl].id)
         /\ Ref(pointer[pl].id, rows.versions[pointer[pl].id]) = pointer[pl]
    /\ GraphSound(current)

(* validate_proposal_rows: of every proposal of the namespace, decided or   *)
(* not; the place of a row that cannot be read is in its event.             *)
ProposalRowsSound(ns) ==
    LET known == {p \in DOMAIN rows.proposals \cup DOMAIN status :
                    log[p].proposal.place \in PlacesIn(ns)}
        expected == {log[p].proposal.expected : p \in known} \ {None}
    IN  /\ \A p \in known : Coherent(p)
        /\ \A v \in expected : Intact("versions", v)
        /\ GraphSound(expected)

(* count_active_entries, count_pending_proposals *)
Active(ns) == Cardinality({pl \in PlacesIn(ns) : pointer[pl].value # Tombstone})

PendingCount(ns) ==
    Cardinality({p \in DOMAIN status :
                   status[p] = Pending /\ rows.proposals[p].place \in PlacesIn(ns)})

(* load_pending_proposals_for_key *)
PendingFor(pl) == {p \in DOMAIN status : status[p] = Pending /\ rows.proposals[p].place = pl}

(* ... and those of them that the new version makes stale *)
StaleFor(pl, selected) ==
    {p \in PendingFor(pl) \ {selected} : rows.proposals[p].expected # Len(log) + 1}

(* prepare_direct_memory_edit: not MemoryNoChange *)
Changes(pl, v) == v # pointer[pl].value

RoomFor(pl, v) ==
    v # Tombstone /\ pointer[pl].value = Tombstone => Active(pl[1]) < EntryLimit

(* create_present, next_present, next_deleted: a deleted key goes on as the *)
(* same entry.                                                              *)
NextVersion(pl, v, accepted) ==
    LET c == pointer[pl]
        i == Len(log) + 1
    IN  [place |-> pl, entry |-> IF c = NoEntry THEN i ELSE c.entry, number |-> c.number + 1,
         pred |-> c.id, value |-> v, accepted |-> accepted]

-----------------------------------------------------------------------------
(* Committing an event: append, the immutable rows, the reducer, the        *)
(* projection rows                                                          *)

(* load_entry_rows_matching: no other row has the number or another entry the key *)
Unclaimed(version) ==
    \A id \in DOMAIN rows.versions : Intact("versions", id) =>
      LET v == rows.versions[id] IN
      /\ ~(v.entry = version.entry /\ v.number = version.number)
      /\ v.place = version.place => v.entry = version.entry

(* insert_proposal_with_approval: a proposal comes with its pending approval *)
WithProposal(tables, p, proposal) ==
    [tables EXCEPT !.proposals = Insert(@, p, proposal), !.approvals = Insert(@, p, Pending)]

FaultyWithResolutions(tables, resolved) ==     \* the approvals only
    [tables EXCEPT !.approvals = Updated(@, resolved)]

(* resolve_proposal: the approval is updated, the resolution inserted *)
WithResolutions(tables, resolved) ==
    [tables EXCEPT !.approvals = Updated(@, resolved), !.resolutions = Updated(@, resolved)]

(* persist_memory_mutation_event *)
RowsAfter(i, event) ==
    CASE event.kind = "entry" ->
           WithResolutions([rows EXCEPT !.versions = Insert(@, i, event.version)],
                           ResolutionRows(i, event))
      [] event.kind = "proposed" -> WithProposal(rows, i, event.proposal)
      [] event.kind = "rejected" -> WithResolutions(rows, ResolutionRows(i, event))

(* replace_current_projection: from the projection, where the rows exist *)
ReplaceCurrent ==
    /\ \A pl \in Places :
         memory'.current[pl] # NoEntry => memory'.current[pl].id \in DOMAIN rows'.versions
    /\ DOMAIN memory'.proposals \subseteq DOMAIN rows'.proposals
    /\ pointer' = memory'.current
    /\ status' = memory'.status

Commit(event) ==
    LET i == Len(log) + 1 IN
    /\ i <= MaxEvents
    /\ event.kind = "entry" => Unclaimed(event.version)
    /\ Fits(memory, i, event)
    /\ log' = Append(log, event)
    /\ memory' = Reduce(memory, i, event)
    /\ rows' = RowsAfter(i, event)
    /\ ReplaceCurrent
    /\ UNCHANGED <<serving, damages, tampered>>

-----------------------------------------------------------------------------
(* The commands.  Each carries the state of the key its author saw: any     *)
(* state the key ever had.                                                  *)

(* SetMemoryEntry, DeleteMemoryEntry: the human, after a review *)
SetEntry(pl, expected, v) ==
    /\ serving
    /\ Readable(pl) /\ pointer[pl].id = expected
    /\ Changes(pl, v)
    /\ EntryRowsSound(pl[1]) /\ RoomFor(pl, v)
    /\ ProposalRowsSound(pl[1])
    /\ Commit(EntrySet(NextVersion(pl, v, None), StaleFor(pl, None)))

(* ProposeMemoryMutation: an agent, for its own namespace *)
Propose(pl, expected, v) ==
    /\ serving
    /\ Readable(pl) /\ pointer[pl].id = expected
    /\ Changes(pl, v)
    /\ ProposalRowsSound(pl[1]) /\ PendingCount(pl[1]) < PendingLimit
    /\ Commit(ProposalCreated([place |-> pl, expected |-> expected, value |-> v]))

(* What approving and rejecting both ask of the tables and the projection *)
Resolvable(p, expected) ==
    /\ serving
    /\ Coherent(p) /\ status[p] = Pending
    /\ p \in DOMAIN memory.proposals /\ memory.status[p] = Pending
    /\ memory.proposals[p] = rows.proposals[p]
    /\ LET pl == rows.proposals[p].place IN
       Readable(pl) /\ pointer[pl].id = expected /\ expected = rows.proposals[p].expected

ApproveProposal(p, expected) ==
    LET pl == rows.proposals[p].place
        v == rows.proposals[p].value
    IN  /\ Resolvable(p, expected)
        /\ ProposalRowsSound(pl[1])
        /\ v # Tombstone /\ pointer[pl].value = Tombstone => EntryRowsSound(pl[1])
        /\ RoomFor(pl, v)
        /\ Commit(EntrySet(NextVersion(pl, v, p), StaleFor(pl, p)))

RejectProposal(p, expected) ==
    /\ Resolvable(p, expected)
    /\ Commit(ProposalRejected(p))

(* Any other command that commits an event writes the projection rows again *)
OtherCommand ==
    /\ serving
    /\ UNCHANGED <<log, memory, rows, serving, damages, tampered>>
    /\ ReplaceCurrent

-----------------------------------------------------------------------------
(* Startup *)

(* expected_memory_records: the immutable rows the stream proves *)
ProvenVersions == {i \in DOMAIN log : log[i].kind = "entry"}

ProvenProposals == {i \in DOMAIN log : log[i].kind = "proposed"}

ProvenApproval(p) ==
    LET by == {i \in DOMAIN log : p \in DOMAIN Settles(log[i])} IN
    IF by = {} THEN Pending
    ELSE LET i == CHOOSE i \in by : TRUE IN [status |-> Settles(log[i])[p], event |-> i]

ProvenRows ==
    [versions    |-> [i \in ProvenVersions |-> log[i].version],
     proposals   |-> [i \in ProvenProposals |-> log[i].proposal],
     approvals   |-> [i \in ProvenProposals |-> ProvenApproval(i)],
     resolutions |-> [p \in {q \in ProvenProposals : ProvenApproval(q) # Pending} |->
                        ProvenApproval(p)]]

(* reconcile_verified_memory: a missing row is put back, an altered or an   *)
(* unknown one stops the startup.                                           *)
Reconcilable ==
    \A t \in Tables : \A id \in DOMAIN rows[t] :
      id \in DOMAIN ProvenRows[t] /\ rows[t][id] = ProvenRows[t][id]

(* reconcile_startup *)
Start ==
    /\ ~serving
    /\ Reconcilable
    /\ rows' = ProvenRows
    /\ memory' = memory
    /\ ReplaceCurrent
    /\ serving' = TRUE /\ tampered' = FALSE
    /\ UNCHANGED <<log, damages>>

(* The service finishes, or the process dies between two transactions *)
Stop ==
    /\ serving
    /\ serving' = FALSE
    /\ UNCHANGED <<log, memory, rows, pointer, status, damages, tampered>>

-----------------------------------------------------------------------------
(* Damage from outside *)

Tamper ==
    /\ damages < MaxDamage
    /\ damages' = damages + 1 /\ tampered' = TRUE
    /\ UNCHANGED <<log, memory, serving>>

LoseRow(t, id) ==
    /\ Tamper
    /\ rows' = [rows EXCEPT ![t] = [x \in DOMAIN @ \ {id} |-> @[x]]]
    /\ UNCHANGED <<pointer, status>>

AlterRow(t, id) ==
    /\ Tamper
    /\ rows[t][id] # Altered
    /\ rows' = [rows EXCEPT ![t][id] = Altered]
    /\ UNCHANGED <<pointer, status>>

ForgeRow(t) ==
    /\ ~serving
    /\ Tamper
    /\ rows' = [rows EXCEPT ![t] = Insert(@, Foreign, Altered)]
    /\ UNCHANGED <<pointer, status>>

(* A pointer set back to an earlier version of the key, or removed *)
DriftPointer(pl, ref) ==
    /\ Tamper
    /\ ref # pointer[pl]
    /\ pointer' = [pointer EXCEPT ![pl] = ref]
    /\ UNCHANGED <<rows, status>>

(* A status set to another one, or removed *)
DriftStatus(p, to) ==
    /\ Tamper
    /\ to # status[p]
    /\ status' = IF to = Altered THEN [x \in DOMAIN status \ {p} |-> status[x]]
                 ELSE [status EXCEPT ![p] = to]
    /\ UNCHANGED <<rows, pointer>>

Damage ==
    \/ \E t \in Tables : ForgeRow(t) \/ \E id \in DOMAIN rows[t] : LoseRow(t, id) \/ AlterRow(t, id)
    \/ \E pl \in Places :
         DriftPointer(pl, NoEntry)
           \/ \E i \in ProvenVersions :
                log[i].version.place = pl /\ DriftPointer(pl, Ref(i, log[i].version))
    \/ \E p \in DOMAIN status :
         \E to \in {Altered, Pending, [status |-> "rejected", event |-> p]} : DriftStatus(p, to)

-----------------------------------------------------------------------------
Init ==
    /\ log = << >> /\ memory = EmptyMemory
    /\ rows = [t \in Tables |-> << >>]
    /\ pointer = EmptyMemory.current /\ status = << >>
    /\ serving = FALSE /\ damages = 0 /\ tampered = FALSE

Commands ==
    \E expected \in 0 .. Len(log) :
      \/ \E pl \in Places, v \in Operations : SetEntry(pl, expected, v) \/ Propose(pl, expected, v)
      \/ \E p \in DOMAIN rows.proposals \ {Foreign} :
           ApproveProposal(p, expected) \/ RejectProposal(p, expected)

Next == Commands \/ OtherCommand \/ Start \/ Stop \/ Damage

Spec == Init /\ [][Next]_vars

-----------------------------------------------------------------------------
(* Properties *)

Line(pl) == {i \in ProvenVersions : log[i].version.place = pl}

LastOf(events) == IF events = {} THEN None ELSE Max(events)

(* The versions of a key are one line of one entry, numbered from 1 without *)
(* a gap, each naming the one before, across deletion and recreation; the   *)
(* current one is the last; and no version repeats what the one before it   *)
(* held.                                                                    *)
HistoryIsOneLine ==
    \A pl \in Places :
      /\ memory.current[pl].id = LastOf(Line(pl))
      /\ \A i \in Line(pl) :
           LET v == log[i].version
               earlier == {j \in Line(pl) : j < i}
           IN  /\ v.number = Cardinality(earlier) + 1
               /\ v.pred = LastOf(earlier)
               /\ v.entry = IF earlier = {} THEN i ELSE log[v.pred].version.entry
               /\ v.value # IF earlier = {} THEN Tombstone ELSE log[v.pred].version.value

(* The rows the commands wrote one by one are the rows startup would derive *)
(* from the stream, in the immutable and in the current tables, as long as  *)
(* nobody touched them since the service started.                           *)
TablesTellTheStream ==
    serving /\ ~tampered =>
      rows = ProvenRows /\ pointer = memory.current /\ status = memory.status

(* The memory keeps its promise to its owner, whatever happens to the       *)
(* tables and whenever the service stops and starts.                        *)
Promise == INSTANCE MemoryPromise WITH
    store <- [pl \in Places |->
                [value |-> memory.current[pl].value, edition |-> memory.current[pl].number,
                 by |-> IF memory.current[pl] = NoEntry THEN None
                        ELSE log[memory.current[pl].id].version.accepted]],
    offers <- {[id |-> p, place |-> memory.proposals[p].place,
                edition |-> memory.current[memory.proposals[p].place].number,
                value |-> memory.proposals[p].value] : p \in PendingIn(memory)},
    offered <- DOMAIN memory.proposals,
    Names <- Ids

KeepsPromise == Promise!Spec

=============================================================================
