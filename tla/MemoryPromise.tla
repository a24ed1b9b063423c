--------------------------- MODULE MemoryPromise ----------------------------
(***************************************************************************)
(* What the memory of the agents promises its owner: a key changes only    *)
(* when the human writes it or approves an offer an agent made for it; an  *)
(* offer is decided at most once, and only while the key is as the agent   *)
(* saw it.  Nothing else, no restart and no repair, changes a key.         *)
(***************************************************************************)
EXTENDS Naturals

CONSTANTS
    Places, Values, Tombstone,
    Names       \* of offers: positive numbers

VARIABLES
    store,      \* for each key: what it holds, its edition, and the offer it came from
    offers,     \* the undecided offers
    offered     \* every offer ever made

NoOffer == 0

Init ==
    /\ store = [pl \in Places |-> [value |-> Tombstone, edition |-> 0, by |-> NoOffer]]
    /\ offers = {} /\ offered = {}

(* A change of a key withdraws the offers that were made for what it held. *)
Change(pl, v, by) ==
    /\ v # store[pl].value
    /\ store' = [store EXCEPT ![pl] = [value |-> v, edition |-> @.edition + 1, by |-> by]]
    /\ offers' = {o \in offers : o.place # pl}
    /\ UNCHANGED offered

Write(pl, v) == Change(pl, v, NoOffer)

Offer(id, pl, v) ==
    /\ id \notin offered
    /\ v # store[pl].value
    /\ offered' = offered \cup {id}
    /\ offers' = offers \cup
         {[id |-> id, place |-> pl, edition |-> store[pl].edition, value |-> v]}
    /\ UNCHANGED store

Approve(o) == o.edition = store[o.place].edition /\ Change(o.place, o.value, o.id)

Decline(o) ==
    /\ o.edition = store[o.place].edition
    /\ offers' = offers \ {o}
    /\ UNCHANGED <<store, offered>>

Next ==
    \/ \E pl \in Places, v \in Values \cup {Tombstone} :
         Write(pl, v) \/ \E id \in Names : Offer(id, pl, v)
    \/ \E o \in offers : Approve(o) \/ Decline(o)

Spec == Init /\ [][Next]_<<store, offers, offered>>
=============================================================================
