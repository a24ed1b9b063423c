------------------------------ MODULE OnceOnly ------------------------------
(***************************************************************************)
(* What durable command receipts promise: however often a command id is    *)
(* asked, by whichever process and across whatever crashes, the            *)
(* application decides it at most once, tells every later asker of the     *)
(* same request that one decision, and tells an asker of another request   *)
(* under the same id that there is a conflict.  An attempt may always be   *)
(* given up without an answer.                                             *)
(***************************************************************************)
CONSTANTS Attempts, Commands, Requests, None

VARIABLES
    decided,    \* for each command id, the decision: which request, which verdict
    asked,      \* for each attempt, the command id and request it carries
    answer      \* for each attempt, what it was told

Undecided == [request |-> None, verdict |-> "None"]

Unasked == [command |-> None, request |-> None]

Waiting(k) == asked[k] # Unasked /\ answer[k] = "None"

Init ==
    /\ decided = [c \in Commands |-> Undecided]
    /\ asked = [k \in Attempts |-> Unasked]
    /\ answer = [k \in Attempts |-> "None"]

Ask(k, c, r) ==
    /\ asked[k] = Unasked
    /\ asked' = [asked EXCEPT ![k] = [command |-> c, request |-> r]]
    /\ UNCHANGED <<decided, answer>>

(* An attempt that never reaches the database *)
Refuse(k, c, r) ==
    /\ asked[k] = Unasked
    /\ asked' = [asked EXCEPT ![k] = [command |-> c, request |-> r]]
    /\ answer' = [answer EXCEPT ![k] = "GivenUp"]
    /\ UNCHANGED decided

Decide(k, verdict) ==
    LET c == asked[k].command IN
    /\ Waiting(k)
    /\ decided[c] = Undecided
    /\ decided' = [decided EXCEPT ![c] = [request |-> asked[k].request, verdict |-> verdict]]
    /\ answer' = [answer EXCEPT ![k] = verdict]
    /\ UNCHANGED asked

Repeat(k) ==
    LET d == decided[asked[k].command] IN
    /\ Waiting(k)
    /\ d # Undecided /\ d.request = asked[k].request
    /\ answer' = [answer EXCEPT ![k] = d.verdict]
    /\ UNCHANGED <<decided, asked>>

Conflict(k) ==
    LET d == decided[asked[k].command] IN
    /\ Waiting(k)
    /\ d # Undecided /\ d.request # asked[k].request
    /\ answer' = [answer EXCEPT ![k] = "Conflict"]
    /\ UNCHANGED <<decided, asked>>

(* A process that dies takes several attempts with it. *)
GiveUp(lost) ==
    /\ \A k \in lost : Waiting(k)
    /\ answer' = [k \in Attempts |-> IF k \in lost THEN "GivenUp" ELSE answer[k]]
    /\ UNCHANGED <<decided, asked>>

Next ==
    \/ \E k \in Attempts, c \in Commands, r \in Requests : Ask(k, c, r) \/ Refuse(k, c, r)
    \/ \E k \in Attempts, verdict \in {"Success", "Denied"} : Decide(k, verdict)
    \/ \E k \in Attempts : Repeat(k) \/ Conflict(k)
    \/ \E lost \in SUBSET Attempts : GiveUp(lost)

Spec == Init /\ [][Next]_<<decided, asked, answer>>
=============================================================================
