------------------------------ MODULE MCRecall ------------------------------
(* Recall for TLC: one namespace, a value for any purpose and one for a *)
(* purpose, and budgets that some of what is there does not fit.        *)
EXTENDS Recall, TLC

CONSTANTS n1, a, b, t

TagsOfValues == a :> {} @@ b :> {t}

SizeOfValues == a :> 1 @@ b :> 2

Recorded ==
    {[id |-> 1, ns |-> n1, edition |-> 1, at |-> 1, tags |-> {}, size |-> 1, sources |-> 1],
     [id |-> 2, ns |-> n1, edition |-> 1, at |-> 2, tags |-> {t}, size |-> 1, sources |-> 2]}

Budget(purpose, entries, summaries, bytes, sources) ==
    [purpose |-> purpose, maxEntries |-> entries, maxSummaries |-> summaries,
     maxBytes |-> bytes, maxSources |-> sources]

Asked == {Budget({}, 1, 2, 2, 1), Budget({t}, 2, 1, 3, 2), Budget({t}, 2, 1, 1, 1)}
=============================================================================
