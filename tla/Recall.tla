------------------------------- MODULE Recall -------------------------------
(***************************************************************************)
(* Reading the memory of the agents.  A read is a command like any other:  *)
(* in one immediate transaction it takes its answer from the tables and    *)
(* records an event that names, by reference, what was shown; the reducer  *)
(* checks the event before the transaction commits.  Given the same        *)
(* command id again, whenever, the service returns the stored answer, but  *)
(* only if it is the one it can build anew from the recorded event, the    *)
(* immutable tables and the projection as of the event.                    *)
(*                                                                         *)
(* Each namespace belongs to one profile, of which the editions change.    *)
(***************************************************************************)
EXTENDS Memory

CONSTANTS
    TagsOf,             \* the purpose tags of a value
    SizeOf,             \* the bytes a value takes in a snapshot
    Episodes,           \* the summaries recorded before: no command records one yet
    Requests,           \* MemoryRetrievalRequest: a purpose, {} for General, and a budget
    MaxShown,           \* PAGE_LIMIT: 100
    MaxReads,           \* bound: reads that are recorded
    MaxEditions         \* bound: editions of a profile

ASSUME RecallAssumption ==
    /\ Keys \subseteq Nat                   \* keys are ordered
    /\ MaxShown \in Nat \ {0} /\ MaxReads \in Nat /\ MaxEditions \in Nat
    /\ \A e \in Episodes : e.edition = 1 /\ e.ns \in Namespaces
    /\ IsFiniteSet(Episodes)
    /\ \A e \in Episodes : {e.id, e.at, e.size, e.sources} \subseteq Nat
    /\ \A e, f \in Episodes : e.id = f.id => e = f
    /\ \A v \in Values : SizeOf[v] \in Nat

VARIABLE
    others      \* the stream's other events: new editions of profiles, and reads

Upgraded(ns) == [kind |-> "upgraded", ns |-> ns]

Reads == {n \in DOMAIN others : others[n].kind = "read"}

(* ProjectionRepository::load_at: the projections as of an event *)
EditionAt(ns, n) == 1 + Cardinality({k \in 1 .. n : others[k] = Upgraded(ns)})

FaultyMemoryAt(n) == memory       \* as it is now

MemoryAt(n) ==
    LET after[k \in 0 .. n] == IF k = 0 THEN EmptyMemory ELSE Reduce(after[k - 1], k, log[k])
    IN after[n]

Edition(ns) == EditionAt(ns, Len(others))

-----------------------------------------------------------------------------
(* Lines of things in the order they are shown *)

(* ... ORDER BY: each thing behind those that go ahead of it *)
Sorted(S, ahead(_, _)) ==
    [j \in 1 .. Cardinality(S) |->
       CHOOSE x \in S : Cardinality({y \in S : ahead(y, x)}) = j - 1]

(* ... LIMIT page_limit *)
Page(line) == SubSeq(line, 1, IF Len(line) < MaxShown THEN Len(line) ELSE MaxShown)

(* ... WHERE v.state = 'present' *)
Present(ns) == {k \in Keys : pointer[<<ns, k>>].value # Tombstone}

(* ... ORDER BY c.normalized_key *)
KeyLine(ns, keys) ==
    LET line == Sorted(keys, <) IN [j \in DOMAIN line |-> pointer[<<ns, line[j]>>]]

(* A row that cannot be read is still one of its key *)
VersionsOf(pl) == {i \in DOMAIN rows.versions \ {Foreign} : log[i].version.place = pl}

(* ORDER BY p.created_at_ms, the pending ones oldest first, all newest first. *)
(* A row that cannot be read is still one of its namespace.                   *)
ProposalsOf(ns, pending) ==
    LET ids == {p \in DOMAIN status : /\ log[p].proposal.place \in PlacesIn(ns)
                                      /\ pending => status[p] = Pending}
    IN IF pending THEN Sorted(ids, <) ELSE Sorted(ids, >)

(* ORDER BY created_at_ms DESC, summary_id ASC *)
Summaries(all) ==
    Sorted(all, LAMBDA e, f : e.at > f.at \/ (e.at = f.at /\ e.id < f.id))

(* The rows that references lead to *)
Rows(refs) == [j \in DOMAIN refs |-> rows.versions[refs[j].id]]

-----------------------------------------------------------------------------
(* A snapshot: what fits a budget of what suits a purpose *)

Suits(purpose, tags) == tags = {} \/ tags \cap purpose # {}

(* purpose_rank: what was meant for the purpose, then what is for any *)
PurposeRank(purpose, tags) == IF purpose # {} /\ tags \cap purpose = {} THEN 1 ELSE 0

EntryItem(ref) ==
    [what |-> ref, tags |-> TagsOf[ref.value], size |-> SizeOf[ref.value], sources |-> 0]

SummaryItem(e) == [what |-> e, tags |-> e.tags, size |-> e.size, sources |-> e.sources]

EntryItems(line) == [j \in DOMAIN line |-> EntryItem(line[j])]

SummaryItems(line) == [j \in DOMAIN line |-> SummaryItem(line[j])]

(* The streams of one kind, one after the other: what was meant for the     *)
(* purpose, then what is for any.                                           *)
EntryStream(ns, purpose) ==
    LET tags(k) == TagsOf[pointer[<<ns, k>>].value] IN
    EntryItems(KeyLine(ns, {k \in Present(ns) : tags(k) \cap purpose # {}})
                 \o KeyLine(ns, {k \in Present(ns) : tags(k) = {}}))

SummaryStream(all, purpose) ==
    SummaryItems(Summaries({e \in all : e.tags \cap purpose # {}})
                   \o Summaries({e \in all : e.tags = {}}))

(* consider_entry, consider_summary: what does not fit is left out, and the *)
(* next one may fit again.                                                  *)
Consider(request, most, acc, item) ==
    IF /\ Len(acc.admitted) < most
       /\ acc.bytes + item.size <= request.maxBytes
       /\ acc.sources + item.sources <= request.maxSources
    THEN [acc EXCEPT !.admitted = Append(@, item.what),
                     !.bytes = @ + item.size, !.sources = @ + item.sources]
    ELSE [acc EXCEPT !.omitted = @ + 1]

Considered(request, most, start, items) ==
    LET acc[j \in 0 .. Len(items)] ==
          IF j = 0 THEN start ELSE Consider(request, most, acc[j - 1], items[j])
    IN acc[Len(items)]

(* MemorySnapshotBuilder: entries and summaries share the bytes *)
Built(request, entries, summaries) ==
    LET none == [admitted |-> << >>, omitted |-> 0, bytes |-> 0, sources |-> 0]
        first == Considered(request, request.maxEntries, none, entries)
        all == Considered(request, request.maxSummaries,
                          [first EXCEPT !.admitted = << >>, !.omitted = 0], summaries)
    IN  [entries |-> first.admitted, summaries |-> all.admitted,
         omitted |-> <<first.omitted, all.omitted>>, bytes |-> all.bytes, sources |-> all.sources]

(* What items take of the two budgets they share *)
Weight(items) ==
    LET sum[j \in 0 .. Len(items)] ==
          IF j = 0 THEN [bytes |-> 0, sources |-> 0]
          ELSE [bytes |-> sum[j - 1].bytes + items[j].size,
                sources |-> sum[j - 1].sources + items[j].sources]
    IN sum[Len(items)]

(* By rank; the references are checked to be in order beside the contents *)
InOrder(purpose, items) ==
    \A j \in 2 .. Len(items) :
      PurposeRank(purpose, items[j - 1].tags) <= PurposeRank(purpose, items[j].tags)

(* MemorySnapshot::validate, of the snapshot that was built and of the one  *)
(* that is put together again.                                              *)
SnapshotSound(request, built) ==
    LET entries == EntryItems(built.entries)
        summaries == SummaryItems(built.summaries)
        all == entries \o summaries
    IN  /\ Len(entries) <= request.maxEntries /\ Len(summaries) <= request.maxSummaries
        /\ \A j \in DOMAIN all : Suits(request.purpose, all[j].tags)
        /\ InOrder(request.purpose, entries) /\ InOrder(request.purpose, summaries)
        /\ Weight(all) = [bytes |-> built.bytes, sources |-> built.sources]
        /\ built.bytes <= request.maxBytes /\ built.sources <= request.maxSources

-----------------------------------------------------------------------------
(* What the reducer asks of the event of a read *)

IsCurrent(ns, ref) == ref.value # Tombstone /\ \E pl \in PlacesIn(ns) : memory.current[pl] = ref

FaultyEntriesFit(ns, e) ==        \* what is listed is checked, not what is left out
    \A j \in DOMAIN e.refs : IsCurrent(ns, e.refs[j])

EntriesFit(ns, e) ==
    /\ e.total = Cardinality({pl \in PlacesIn(ns) : memory.current[pl].value # Tombstone})
    /\ \A j \in DOMAIN e.refs : IsCurrent(ns, e.refs[j])
    /\ IsInjective(e.refs)

(* Any version of the entry, up to the current one *)
VersionFits(current, ref) ==
    /\ current # NoEntry /\ ref.entry = current.entry
    /\ ref.number < current.number \/ ref = current

(* The newest versions, without a gap *)
HistoryFits(current, e) ==
    /\ e.total = current.number /\ Len(e.refs) > 0 /\ Head(e.refs) = current
    /\ \A j \in DOMAIN e.refs : /\ e.refs[j].entry = current.entry
                                /\ e.refs[j].number + j = current.number + 1

ProposalsFit(ns, pending, e) ==
    LET ids == {p \in DOMAIN memory.proposals : /\ memory.proposals[p].place \in PlacesIn(ns)
                                                /\ pending => memory.status[p] = Pending}
    IN  /\ e.total = Cardinality(ids)
        /\ IsInjective(e.shown)
        /\ \A j \in DOMAIN e.shown : /\ e.shown[j].id \in ids
                                     /\ e.shown[j].status = memory.status[e.shown[j].id].status

(* validate_memory_read_event.  Only summaries of the current edition may   *)
(* be listed.                                                               *)
ReadFits(q, e) ==
    CASE q.read = "entries" -> EntriesFit(q.ns, e)
      [] q.read = "entry" -> e.ref = memory.current[q.place] /\ e.ref.value # Tombstone
      [] q.read = "version" -> VersionFits(memory.current[q.place], e.ref)
      [] q.read = "history" -> HistoryFits(memory.current[q.place], e)
      [] q.read = "proposals" -> ProposalsFit(q.ns, q.pending, e)
      [] q.read = "proposal" -> q.id \in DOMAIN memory.proposals /\ memory.status[q.id] = e.status
      [] q.read = "summaries" -> \A j \in DOMAIN e.summaries : e.summaries[j].edition = e.edition
      [] q.read = "summary" -> q.summary.edition <= Edition(q.summary.ns)
      [] q.read = "snapshot" ->
           /\ q.edition <= Edition(q.ns)
           /\ \A j \in DOMAIN e.entries : IsCurrent(q.ns, e.entries[j])

(* execute_locked: the event, the projection rows and the receipt *)
Record(q, event, view) ==
    /\ Cardinality(Reads) < MaxReads
    /\ ReadFits(q, event)
    /\ others' = Append(others, [kind |-> "read", after |-> Len(log), request |-> q,
                                 event |-> event, view |-> view, doubtful |-> tampered])
    /\ OtherCommand

-----------------------------------------------------------------------------
(* The reads *)

ListMemoryEntries(ns) ==
    LET line == KeyLine(ns, Present(ns))
        refs == Page(line)
    IN
    /\ serving /\ EntryRowsSound(ns)
    /\ Record([read |-> "entries", ns |-> ns],
              [edition |-> Edition(ns), refs |-> refs, total |-> Len(line)], Rows(refs))

ShowMemoryEntry(pl) ==
    /\ serving /\ Readable(pl) /\ pointer[pl].value # Tombstone
    /\ Record([read |-> "entry", place |-> pl],
              [edition |-> Edition(pl[1]), ref |-> pointer[pl]], rows.versions[pointer[pl].id])

(* validate_entry_batch_context of the rows of a page.  A row that cannot   *)
(* be read is on it, or one on it leads to the row.                         *)
BatchSound(ids, page) == (\A i \in ids : Intact("versions", i)) /\ GraphSound(page)

ShowMemoryEntryHistory(pl) ==
    LET line == Sorted(VersionsOf(pl), >)
        refs == [j \in DOMAIN Page(line) |-> Ref(line[j], rows.versions[line[j]])]
    IN  /\ serving /\ Readable(pl) /\ pointer[pl] # NoEntry
        /\ BatchSound(VersionsOf(pl), Range(Page(line)))
        /\ line # << >> /\ refs[1] = pointer[pl]
        /\ Record([read |-> "history", place |-> pl],
                  [edition |-> Edition(pl[1]), refs |-> refs, total |-> Len(line)], Rows(refs))

ShowMemoryEntryVersion(pl, number) ==
    serving /\ \E i \in VersionsOf(pl) :
      /\ Loadable(i) /\ rows.versions[i].number = number
      /\ Record([read |-> "version", place |-> pl, number |-> number],
                [edition |-> Edition(pl[1]), ref |-> Ref(i, rows.versions[i])], rows.versions[i])

ListMemoryProposals(ns, pending) ==
    LET line == ProposalsOf(ns, pending) IN
    /\ serving /\ ProposalRowsSound(ns)
    /\ Record([read |-> "proposals", ns |-> ns, pending |-> pending],
              [edition |-> Edition(ns), total |-> Len(line),
               shown |-> [j \in DOMAIN Page(line) |->
                            [id |-> line[j], status |-> status[line[j]].status]]],
              [j \in DOMAIN Page(line) |-> [proposal |-> rows.proposals[line[j]],
                                            status |-> status[line[j]].status]])

(* validate_proposal_context: with what it was made for *)
ContextSound(p) ==
    rows.proposals[p].expected # None => Loadable(rows.proposals[p].expected)

ProposalLoadable(p) == Coherent(p) /\ ContextSound(p)

(* What the key of the proposal holds comes from the current tables, and is *)
(* not in the event.                                                        *)
ShowMemoryProposal(p) ==
    /\ serving /\ ProposalLoadable(p)
    /\ LET pl == rows.proposals[p].place IN
       /\ Readable(pl)
       /\ Record([read |-> "proposal", id |-> p], [status |-> status[p]],
                 [proposal |-> rows.proposals[p], status |-> status[p],
                  current |-> pointer[pl], owner |-> Edition(pl[1])])

ListEpisodicSummaries(ns) ==
    LET line == Summaries({e \in Episodes : e.ns = ns}) IN
    serving /\ Record([read |-> "summaries", ns |-> ns],
           [edition |-> Edition(ns), summaries |-> Page(line), total |-> Len(line)], Page(line))

ShowEpisodicSummary(e) ==
    serving /\ Record([read |-> "summary", summary |-> e], [summary |-> e], e)

(* For any edition the profile ever had *)
BuildMemorySnapshot(ns, edition, request) ==
    LET all == {e \in Episodes : e.ns = ns /\ e.edition = edition}
        built == Built(request, EntryStream(ns, request.purpose),
                       SummaryStream(all, request.purpose))
    IN  /\ serving /\ edition <= Edition(ns)
        /\ EntryRowsSound(ns)
        /\ SnapshotSound(request, built)
        /\ Record([read |-> "snapshot", ns |-> ns, edition |-> edition, request |-> request],
                  built, [entries |-> Rows(built.entries), summaries |-> built.summaries])

(* A new edition of a profile; it keeps its namespace *)
Upgrade(ns) ==
    /\ serving /\ Edition(ns) < MaxEditions
    /\ others' = Append(others, Upgraded(ns))
    /\ OtherCommand

-----------------------------------------------------------------------------
(* Answering again: materialize_memory_view *)

(* load_exact_entry *)
Exact(ref) == Loadable(ref.id) /\ Ref(ref.id, rows.versions[ref.id]) = ref

Exactly(refs) == \A j \in DOMAIN refs : Exact(refs[j])

EntriesReplay(ns, e, n) == e.edition = EditionAt(ns, n) /\ Exactly(e.refs)

EntryReplays(ns, e, n) == e.edition = EditionAt(ns, n) /\ Exact(e.ref)

ProposalsReplay(ns, e, n) ==
    /\ e.edition = EditionAt(ns, n)
    /\ \A j \in DOMAIN e.shown : ProposalLoadable(e.shown[j].id)

(* MemorySnapshot::replay: put together from the rows, it is the same one *)
SnapshotReplays(q, e, n) ==
    /\ q.edition <= EditionAt(q.ns, n)
    /\ Exactly(e.entries) /\ SnapshotSound(q.request, e)

(* Whether the tables still bear out the event *)
Replays(n) ==
    LET q == others[n].request
        e == others[n].event
    IN  CASE q.read = "entries" -> EntriesReplay(q.ns, e, n)
          [] q.read = "history" -> EntriesReplay(q.place[1], e, n)
          [] q.read \in {"entry", "version"} -> EntryReplays(q.place[1], e, n)
          [] q.read = "proposals" -> ProposalsReplay(q.ns, e, n)
          [] q.read = "proposal" -> ProposalLoadable(q.id)
          [] q.read = "summaries" -> e.edition = EditionAt(q.ns, n)
          [] q.read = "summary" -> e.summary.edition <= EditionAt(e.summary.ns, n)
          [] q.read = "snapshot" -> SnapshotReplays(q, e, n)

(* The answer that is built from them *)
AnswerFrom(n) ==
    LET q == others[n].request
        e == others[n].event
    IN  CASE q.read \in {"entries", "history"} -> Rows(e.refs)
          [] q.read \in {"entry", "version"} -> rows.versions[e.ref.id]
          [] q.read = "proposals" ->
               [j \in DOMAIN e.shown |-> [proposal |-> rows.proposals[e.shown[j].id],
                                          status |-> e.shown[j].status]]
          [] q.read = "proposal" ->
               LET pl == rows.proposals[q.id].place IN
               [proposal |-> rows.proposals[q.id], status |-> e.status,
                current |-> MemoryAt(others[n].after).current[pl],
                owner |-> EditionAt(pl[1], n)]
          [] q.read = "summaries" -> e.summaries
          [] q.read = "summary" -> e.summary
          [] q.read = "snapshot" -> [entries |-> Rows(e.entries), summaries |-> e.summaries]

(* validate_receipt: anything else is an invalid receipt *)
AnsweredAgain(n) == Replays(n) /\ others[n].view = AnswerFrom(n)

(* A mutation's answer is in its event; the rows it wrote must still say it. *)

(* validate_predecessor *)
PredecessorSound(version) ==
    IF version.pred = None THEN version.number = 1
    ELSE /\ Loadable(version.pred)
         /\ LET before == rows.versions[version.pred] IN
            /\ before.place = version.place /\ before.entry = version.entry
            /\ before.number + 1 = version.number

ProposalStands(i) == ProposalLoadable(i) /\ rows.proposals[i] = log[i].proposal

EditStands(i) ==
    /\ PredecessorSound(log[i].version)
    /\ Exact(Ref(i, log[i].version)) /\ rows.versions[i] = log[i].version

ApprovalStands(i) ==
    LET p == log[i].version.accepted IN
    /\ ProposalLoadable(p) /\ status[p] = [status |-> "accepted", event |-> i]
    /\ rows.proposals[p].expected = log[i].version.pred
    /\ rows.proposals[p].value = log[i].version.value
    /\ EditStands(i)

RejectionStands(i) ==
    LET p == log[i].rejected IN
    ProposalLoadable(p) /\ status[p] = [status |-> "rejected", event |-> i]

Stands(i) ==
    CASE log[i].kind = "proposed" -> ProposalStands(i)
      [] log[i].kind = "rejected" -> RejectionStands(i)
      [] log[i].kind = "entry" ->
           IF log[i].version.accepted = None THEN EditStands(i) ELSE ApprovalStands(i)

-----------------------------------------------------------------------------
RecallInit == Init /\ others = << >>

ReadNext ==
    \/ \E ns \in Namespaces :
         \/ ListMemoryEntries(ns) \/ ListEpisodicSummaries(ns) \/ Upgrade(ns)
         \/ \E pending \in BOOLEAN : ListMemoryProposals(ns, pending)
         \/ \E edition \in 1 .. MaxEditions, request \in Requests :
              BuildMemorySnapshot(ns, edition, request)
    \/ \E pl \in Places :
         \/ ShowMemoryEntry(pl) \/ ShowMemoryEntryHistory(pl)
         \/ \E number \in Ids : ShowMemoryEntryVersion(pl, number)
    \/ \E p \in DOMAIN rows.proposals \ {Foreign} : ShowMemoryProposal(p)
    \/ \E e \in Episodes : ShowEpisodicSummary(e)

RecallNext ==
    \/ (Commands \/ Start \/ Stop \/ Damage) /\ UNCHANGED others
    \/ ReadNext

RecallSpec == RecallInit /\ [][RecallNext]_<<vars, others>>

-----------------------------------------------------------------------------
(* Properties *)

(* The versions of a key in the first n events *)
WrittenBy(n, pl) == {i \in 1 .. n : log[i].kind = "entry" /\ log[i].version.place = pl}

(* What the admitted among the first items of a line take *)
Taken(line, admitted) ==
    LET sum[j \in 0 .. Len(line)] ==
          IF j = 0 THEN [count |-> 0, bytes |-> 0, sources |-> 0]
          ELSE IF line[j].what \in admitted
               THEN [count |-> sum[j - 1].count + 1,
                     bytes |-> sum[j - 1].bytes + line[j].size,
                     sources |-> sum[j - 1].sources + line[j].sources]
               ELSE sum[j - 1]
    IN sum

(* An item of a line is admitted exactly if it fits beside the admitted     *)
(* ones before it.                                                          *)
GreedyIn(line, admitted, most, bytes, sources, request) ==
    LET taken == Taken(line, admitted) IN
    \A j \in DOMAIN line :
      line[j].what \in admitted <=>
        /\ taken[j - 1].count < most
        /\ bytes + taken[j - 1].bytes + line[j].size <= request.maxBytes
        /\ sources + taken[j - 1].sources + line[j].sources <= request.maxSources

(* The entries a snapshot has to choose from, by rank, then by key *)
Candidates(m, ns, purpose) ==
    LET suitable == {pl \in PlacesIn(ns) : /\ m.current[pl].value # Tombstone
                                           /\ Suits(purpose, TagsOf[m.current[pl].value])}
        rank(pl) == PurposeRank(purpose, TagsOf[m.current[pl].value])
        line == Sorted(suitable, LAMBDA x, y : \/ rank(x) < rank(y)
                                               \/ (rank(x) = rank(y) /\ x[2] < y[2]))
    IN [j \in DOMAIN line |-> EntryItem(m.current[line[j]])]

(* The summaries, by rank, then the newest first *)
SummaryCandidates(ns, edition, purpose) ==
    LET suitable == {e \in Episodes : e.ns = ns /\ e.edition = edition /\ Suits(purpose, e.tags)}
        rank(e) == PurposeRank(purpose, e.tags)
    IN SummaryItems(Sorted(suitable,
         LAMBDA e, f : \/ rank(e) < rank(f)
                       \/ (rank(e) = rank(f) /\ e.at > f.at)
                       \/ (rank(e) = rank(f) /\ e.at = f.at /\ e.id < f.id)))

(* A page of so many *)
PageOf(count) == 1 .. IF count < MaxShown THEN count ELSE MaxShown

(* All of them in the order of their keys; while somebody has changed the   *)
(* tables, a page that cannot hold them all may hold others of them.        *)
TellsEntries(r, m) ==
    LET all == {pl \in PlacesIn(r.request.ns) : m.current[pl].value # Tombstone}
        version(pl) == log[m.current[pl].id].version
    IN  /\ r.event.total = Cardinality(all) /\ DOMAIN r.view = PageOf(Cardinality(all))
        /\ \A j \in DOMAIN r.view : \E pl \in all : r.view[j] = version(pl)
        /\ \/ r.doubtful /\ Cardinality(all) > MaxShown
           \/ \A pl \in all : LET j == Cardinality({o \in all : o[2] <= pl[2]}) IN
                              j <= MaxShown => r.view[j] = version(pl)

TellsEntry(r, m) == r.view = log[m.current[r.request.place].id].version

TellsVersion(r) ==
    \E i \in WrittenBy(r.after, r.request.place) :
      /\ r.request.number = Cardinality({o \in WrittenBy(r.after, r.request.place) : o <= i})
      /\ r.view = log[i].version

TellsHistory(r) ==
    LET all == WrittenBy(r.after, r.request.place) IN
    /\ r.event.total = Cardinality(all) /\ DOMAIN r.view = PageOf(Cardinality(all))
    /\ \A i \in all : LET j == Cardinality({o \in all : o >= i}) IN
                      j <= MaxShown => r.view[j] = log[i].version

TellsProposals(r, m) ==
    LET q == r.request
        all == {p \in DOMAIN m.proposals : /\ m.proposals[p].place \in PlacesIn(q.ns)
                                           /\ q.pending => m.status[p] = Pending}
    IN  /\ r.event.total = Cardinality(all) /\ DOMAIN r.view = PageOf(Cardinality(all))
        /\ \A p \in all :
             LET j == Cardinality({o \in all : IF q.pending THEN o <= p ELSE o >= p}) IN
             j <= MaxShown => r.view[j] = [proposal |-> log[p].proposal,
                                           status |-> m.status[p].status]

TellsProposal(r, m) ==
    LET p == r.request.id IN
    /\ r.view.proposal = log[p].proposal /\ r.view.status = m.status[p]
    /\ r.doubtful \/ r.view.current = m.current[log[p].proposal.place]

(* What fits, of the entries as they were and of the summaries *)
TellsSnapshot(r, m) ==
    LET q == r.request
        line == Candidates(m, q.ns, q.request.purpose)
        admitted == Range(r.event.entries)
        size == Taken(line, admitted)[Len(line)].bytes
    IN  /\ Range(r.view.entries) = {log[ref.id].version : ref \in admitted}
        /\ \/ r.doubtful
           \/ /\ admitted \subseteq {line[j].what : j \in DOMAIN line}
              /\ GreedyIn(line, admitted, q.request.maxEntries, 0, 0, q.request)
              /\ GreedyIn(SummaryCandidates(q.ns, q.edition, q.request.purpose),
                          Range(r.event.summaries), q.request.maxSummaries, size, 0, q.request)
              /\ r.event.omitted[1] + Len(r.event.entries) = Len(line)

TellsTheStream(r) ==
    LET m == MemoryAt(r.after) IN
    CASE r.request.read = "entries" -> TellsEntries(r, m)
      [] r.request.read = "entry" -> TellsEntry(r, m)
      [] r.request.read = "version" -> TellsVersion(r)
      [] r.request.read = "history" -> TellsHistory(r)
      [] r.request.read = "proposals" -> TellsProposals(r, m)
      [] r.request.read = "proposal" -> TellsProposal(r, m)
      [] r.request.read \in {"summaries", "summary"} -> TRUE
      [] r.request.read = "snapshot" -> TellsSnapshot(r, m)

(* Whatever happened to the tables, what a read showed is what the stream   *)
(* says the memory held: nothing invented, nothing left out, the totals     *)
(* right.  Three things rest on the current tables alone and can be behind  *)
(* while somebody has changed those since the service started: which        *)
(* entries a page that cannot hold them all holds, a snapshot, and what a   *)
(* shown proposal says its key holds.                                       *)
ReadsTellTheStream == \A n \in Reads : TellsTheStream(others[n])

(* A command that is sent again, after any later command, new edition,      *)
(* damage and repair, gets the answer it got the first time.                *)
RetriesAnswerTheSame ==
    serving /\ ~tampered =>
      /\ \A i \in DOMAIN log : Stands(i)
      /\ \A n \in Reads : \/ AnsweredAgain(n)
                          \/ others[n].request.read = "proposal" /\ others[n].doubtful

=============================================================================
