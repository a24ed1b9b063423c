-------------------------- MODULE CommandTransport --------------------------
(***************************************************************************)
(* What the bounded runtime promises its callers, without threads, locks   *)
(* or reservations.                                                        *)
(*                                                                         *)
(* A call that is accepted enters the inbox once; the application executes *)
(* the inbox in order, one call at a time, and each execution produces the *)
(* one reply its caller receives.  A refused call is never executed, not   *)
(* even later.  Shutdown finishes only an empty inbox and accepts nothing  *)
(* afterwards; only a panic abandons accepted work, and then every         *)
(* abandoned caller is told that the worker panicked.                      *)
(***************************************************************************)
EXTENDS Naturals, Sequences

CONSTANTS Calls, Replies, Refusals, NoCall

VARIABLES inbox, log, busy, reply, result, phase

vars == <<inbox, log, busy, reply, result, phase>>

Occurs(c, s) == \E i \in 1..Len(s) : s[i] = c

Fresh(c) == ~Occurs(c, inbox) /\ ~Occurs(c, log) /\ reply[c] = "None"

Init ==
    /\ inbox = <<>> /\ log = <<>> /\ busy = NoCall /\ phase = "serving"
    /\ reply = [c \in Calls |-> "None"]
    /\ result = [c \in Calls |-> "None"]

Accept(c) ==
    /\ phase \in {"serving", "panicked"}
    /\ Fresh(c) /\ result[c] = "None"
    /\ inbox' = Append(inbox, c)
    /\ UNCHANGED <<log, busy, reply, result, phase>>

Refuse(c, why) ==
    /\ Fresh(c) /\ result[c] = "None"
    /\ result' = [result EXCEPT ![c] = why]
    /\ UNCHANGED <<inbox, log, busy, reply, phase>>

Execute ==
    /\ phase = "serving" /\ busy = NoCall /\ inbox # <<>>
    /\ busy' = Head(inbox) /\ inbox' = Tail(inbox)
    /\ log' = Append(log, Head(inbox))
    /\ UNCHANGED <<reply, result, phase>>

Answer(value) ==
    /\ busy # NoCall /\ value \in IF phase = "serving" THEN Replies ELSE {"WorkerPanicked"}
    /\ reply[busy] = "None"
    /\ reply' = [reply EXCEPT ![busy] = value]
    /\ busy' = NoCall
    /\ UNCHANGED <<inbox, log, result, phase>>

Panic ==
    /\ phase = "serving"
    /\ phase' = "panicked"
    /\ UNCHANGED <<inbox, log, busy, reply, result>>

(* A graceful end: nothing accepted is left. *)
Finish ==
    /\ phase = "serving" /\ inbox = <<>> /\ busy = NoCall
    /\ phase' = "finished"
    /\ UNCHANGED <<inbox, log, busy, reply, result>>

Abandon ==
    /\ phase = "panicked" /\ busy = NoCall
    /\ phase' = "abandoned"
    /\ inbox' = <<>>
    /\ reply' = [c \in Calls |-> IF Occurs(c, inbox) THEN "Disconnected" ELSE reply[c]]
    /\ UNCHANGED <<log, busy, result>>

Deliver(c) ==
    /\ reply[c] # "None" /\ result[c] = "None"
    /\ result' = [result EXCEPT
         ![c] = IF reply[c] = "Disconnected" THEN "WorkerPanicked" ELSE reply[c]]
    /\ UNCHANGED <<inbox, log, busy, reply, phase>>

Next ==
    \/ \E c \in Calls : Accept(c) \/ Deliver(c) \/ \E why \in Refusals : Refuse(c, why)
    \/ Execute \/ \E value \in Replies \cup {"WorkerPanicked"} : Answer(value)
    \/ Panic \/ Finish \/ Abandon

Spec == Init /\ [][Next]_vars
=============================================================================
