------------------------------ MODULE Reviews -------------------------------
(***************************************************************************)
(* The reviews that confirm a change: previews register one, a command     *)
(* reserves, commits and consumes it, cancels and shutdown clear it.       *)
(*                                                                         *)
(* There are three registries of one place each.  They differ in how they  *)
(* lock: a profile preview holds the lifecycle and the operation lock from *)
(* its first read to the registration; skill and memory previews take the  *)
(* operation lock only to register what they read before; a skill cancel   *)
(* takes no operation lock; a memory command takes it inside its database  *)
(* transaction, and when it fails for good it clears the registry after it *)
(* has let go of every lock.                                               *)
(*                                                                         *)
(* A preview is used once, and its name is the token it hands out.  What a *)
(* review binds is the version it was shown for; a command is asShown when *)
(* it repeats the rest of the review faithfully.                           *)
(***************************************************************************)
EXTENDS Naturals, Sequences, FiniteSets

CONSTANTS
    Previews,       \* calls of preview_*, and the tokens they issue
    Attempts,       \* calls of execute
    Commands,       \* CommandId
    Kinds,          \* the registries previews are made for
    None

Registries == {"profile", "skill", "memory"}

ASSUME ReviewsAssumption ==
    /\ IsFiniteSet(Previews) /\ IsFiniteSet(Attempts)
    /\ Previews \cap Attempts = {}
    /\ Kinds \subseteq Registries
    /\ None \notin Previews \cup Attempts \cup Commands

VARIABLES
    phase,          \* LifecyclePhase, under a readers-writer lock ...
    closing,        \* ... whose writer is waiting: finish has been called
    db,             \* the attempt whose immediate transaction is open
    version,        \* the active version of each object
    receipts,       \* command_receipts
    commits,        \* the reviewed changes, in order
    op,             \* the owner of each registry's operation lock
    slot,           \* each registry's place
    ppc, kind, object, base,                    \* the previews
    apc, command, token, asShown, answer,       \* the attempts
    dropped         \* history: tokens cleared or replaced, not consumed

lifecycle == <<phase, closing>>
store     == <<version, receipts, commits>>
previews  == <<ppc, kind, object, base>>
attempts  == <<apc, command, token, asShown, answer>>
vars      == <<lifecycle, db, store, op, slot, previews, attempts, dropped>>

(* What a review of each registry may change: an assignment of a skill makes *)
(* a new version of the profile.                                            *)
Objects == Registries
ObjectsOf(r) == IF r = "skill" THEN {"skill", "profile"} ELSE {r}

Empty == [state |-> "empty", token |-> None, owner |-> None]

Unasked == [token |-> None, asShown |-> FALSE, verdict |-> "None"]

Init ==
    /\ phase = "Open" /\ closing = FALSE /\ db = None
    /\ version = [o \in Objects |-> 0]
    /\ receipts = [c \in Commands |-> Unasked]
    /\ commits = <<>>
    /\ op = [r \in Registries |-> None]
    /\ slot = [r \in Registries |-> Empty]
    /\ ppc = [p \in Previews |-> "idle"]
    /\ kind = [p \in Previews |-> None]
    /\ object = [p \in Previews |-> None]
    /\ base = [p \in Previews |-> 0]
    /\ apc = [k \in Attempts |-> "idle"]
    /\ command = [k \in Attempts |-> None]
    /\ token = [k \in Attempts |-> None]
    /\ asShown = [k \in Attempts |-> FALSE]
    /\ answer = [k \in Attempts |-> "None"]
    /\ dropped = {}

-----------------------------------------------------------------------------
(* Locks and places *)

Executing == {"lookup", "locking", "locked", "inside", "reserved", "committed",
              "cancelProfile", "cancelSkill", "cancelMemory"}

(* Those who hold the lifecycle lock for reading. A waiting writer keeps new *)
(* readers out.                                                              *)
Readers ==
    {k \in Attempts : apc[k] \in Executing} \cup
    {p \in Previews : kind[p] = "profile" /\ ppc[p] \in {"locking", "viewing", "viewed"}}

(* Let go of the operation locks of x *)
Unlock(x) == op' = [r \in Registries |-> IF op[r] = x THEN None ELSE op[r]]

(* cancel and finish of the registries *)
Clear(r) ==
    /\ slot' = [slot EXCEPT ![r] = Empty]
    /\ dropped' = dropped \cup ({slot[r].token} \ {None})

-----------------------------------------------------------------------------
(* Previews *)

(* The lifecycle is looked at; only a profile preview keeps it locked. *)
BeginPreview(p, r, o) ==
    /\ ppc[p] = "idle" /\ ~closing /\ o \in ObjectsOf(r)
    /\ ppc' = [ppc EXCEPT ![p] = IF phase = "Closed" THEN "done"
                                 ELSE IF r = "profile" THEN "locking" ELSE "viewing"]
    /\ kind' = [kind EXCEPT ![p] = r]
    /\ object' = [object EXCEPT ![p] = o]
    /\ UNCHANGED <<lifecycle, db, store, op, slot, base, attempts, dropped>>

LockPreview(p) ==
    /\ ppc[p] = "locking" /\ op["profile"] = None
    /\ op' = [op EXCEPT !["profile"] = p]
    /\ ppc' = [ppc EXCEPT ![p] = "viewing"]
    /\ UNCHANGED <<lifecycle, db, store, slot, kind, object, base, attempts, dropped>>

(* Memory previews read in an immediate transaction of their own. *)
View(p) ==
    /\ ppc[p] = "viewing"
    /\ kind[p] = "memory" => db = None
    /\ base' = [base EXCEPT ![p] = version[object[p]]]
    /\ ppc' = [ppc EXCEPT ![p] = "viewed"]
    /\ UNCHANGED <<lifecycle, db, store, op, slot, kind, object, attempts, dropped>>

(* replace, issue_edit, issue_assignment, replace_direct, replace_resolution *)
Register(p) ==
    LET r == kind[p] IN
    /\ ppc[p] = "viewed"
    /\ op[r] = IF r = "profile" THEN p ELSE None
    /\ slot' = [slot EXCEPT ![r] = [state |-> "available", token |-> p, owner |-> None]]
    /\ dropped' = dropped \cup ({slot[r].token} \ {None})
    /\ Unlock(p)
    /\ ppc' = [ppc EXCEPT ![p] = "shown"]
    /\ UNCHANGED <<lifecycle, db, store, kind, object, base, attempts>>

(* A stale or unchanged candidate, a taken name, storage *)
PreviewFails(p) ==
    /\ ppc[p] = "viewing"
    /\ Unlock(p)
    /\ ppc' = [ppc EXCEPT ![p] = "done"]
    /\ UNCHANGED <<lifecycle, db, store, slot, kind, object, base, attempts, dropped>>

FaultyCancel(r) ==               \* no cancel waits for a confirmation
    /\ Clear(r)
    /\ UNCHANGED <<lifecycle, db, store, op, previews, attempts>>

(* cancel_agent_profile_edit, cancel_skill_review, cancel_memory_review *)
Cancel(r) ==
    /\ r # "skill" => op[r] = None
    /\ Clear(r)
    /\ UNCHANGED <<lifecycle, db, store, op, previews, attempts>>

-----------------------------------------------------------------------------
(* Attempts *)

Reviewed(k) == token[k] # None      \* or RequestShutdown
Registry(k) == kind[token[k]]
IsMemory(k) == Reviewed(k) /\ Registry(k) = "memory"

Move(k, place) ==
    /\ apc' = [apc EXCEPT ![k] = place]
    /\ UNCHANGED <<command, token, asShown, answer>>

(* Leave execute_locked: the transaction is gone and the locks with it. A   *)
(* memory command that failed for good still has the registry to clear.     *)
Leave(k, why, terminal) ==
    /\ db' = IF db = k THEN None ELSE db
    /\ Unlock(k)
    /\ apc' = [apc EXCEPT ![k] = IF terminal /\ IsMemory(k) THEN "clearing" ELSE "done"]
    /\ answer' = [answer EXCEPT ![k] = why]
    /\ UNCHANGED <<command, token, asShown>>

(* A caller repeats a review it was shown, or asks for shutdown. *)
Begin(k, c, t, same) ==
    /\ apc[k] = "idle" /\ ~closing
    /\ t # None => ppc[t] = "shown"
    /\ command' = [command EXCEPT ![k] = c]
    /\ token' = [token EXCEPT ![k] = t]
    /\ asShown' = [asShown EXCEPT ![k] = same]
    /\ IF phase = "Closed"
         THEN /\ apc' = [apc EXCEPT ![k] = "done"]
              /\ answer' = [answer EXCEPT ![k] = "LifecycleFinished"]
         ELSE /\ apc' = [apc EXCEPT ![k] = IF t = None THEN "locked" ELSE "lookup"]
              /\ UNCHANGED answer
    /\ UNCHANGED <<lifecycle, db, store, op, slot, previews, dropped>>

Receipt(k) == receipts[command[k]]

Remember(k, verdict) ==
    receipts' = [receipts EXCEPT ![command[k]] =
        [token |-> token[k], asShown |-> asShown[k], verdict |-> verdict]]

(* validate_receipt, then into_result *)
Replay(k) ==
    LET same == Receipt(k).token = token[k] /\ Receipt(k).asShown = asShown[k]
        told == IF same THEN Receipt(k).verdict ELSE "Conflict" IN
    /\ Receipt(k) # Unasked
    /\ Leave(k, told, told # "Success")
    /\ UNCHANGED <<lifecycle, store, slot, previews, dropped>>

AfterLookup(k) == IF Registry(k) = "memory" THEN "locked" ELSE "locking"

(* The replay transaction *)
Lookup(k) ==
    /\ apc[k] = "lookup" /\ db = None
    /\ \/ Replay(k)
       \/ /\ Receipt(k) = Unasked
          /\ Move(k, AfterLookup(k))
          /\ UNCHANGED <<lifecycle, db, store, op, slot, previews, dropped>>

LockOperation(k) ==
    /\ apc[k] = "locking" /\ op[Registry(k)] = None
    /\ op' = [op EXCEPT ![Registry(k)] = k]
    /\ Move(k, "locked")
    /\ UNCHANGED <<lifecycle, db, store, slot, previews, dropped>>

(* The database stays busy longer than its timeout. *)
Contention(k) ==
    /\ apc[k] \in {"lookup", "locked"}
    /\ Leave(k, "Contention", FALSE)
    /\ UNCHANGED <<lifecycle, store, slot, previews, dropped>>

(* The main transaction: the receipt again *)
BeginTransaction(k) ==
    /\ apc[k] = "locked" /\ db \in {None, k}
    /\ \/ Replay(k)
       \/ /\ Receipt(k) = Unasked
          /\ db' = k
          /\ Move(k, "inside")
          /\ UNCHANGED <<lifecycle, store, op, slot, previews, dropped>>

(* A refused capability is remembered. *)
Refuse(k) ==
    /\ apc[k] = "inside"
    /\ Remember(k, "Denied")
    /\ Leave(k, "Denied", TRUE)
    /\ UNCHANGED <<lifecycle, version, commits, slot, previews, dropped>>

(* Storage, or a command that is refused before its review is looked at *)
InsideFails(k, terminal) ==
    /\ apc[k] \in {"lookup", "inside"}
    /\ Leave(k, "Failed", terminal)
    /\ UNCHANGED <<lifecycle, store, slot, previews, dropped>>

Fits(k) ==
    /\ slot[Registry(k)].state = "available" /\ slot[Registry(k)].token = token[k]
    /\ asShown[k]

(* reserve, reserve_edit, reserve_assignment under the lock taken before;   *)
(* reserve_direct and reserve_resolution take it now.                       *)
Reserve(k) ==
    LET r == Registry(k) IN
    /\ apc[k] = "inside" /\ Reviewed(k)
    /\ op[r] = IF r = "memory" THEN None ELSE k
    /\ IF Fits(k)
         THEN /\ slot' = [slot EXCEPT ![r].state = "reserved", ![r].owner = command[k]]
              /\ op' = [op EXCEPT ![r] = k]
              /\ Move(k, "reserved")
              /\ UNCHANGED db
         ELSE /\ Leave(k, "Unavailable", TRUE)
              /\ UNCHANGED slot
    /\ UNCHANGED <<lifecycle, store, previews, dropped>>

Owns(k) ==
    LET s == slot[Registry(k)] IN s.state = "reserved" /\ s.owner = command[k]

Change(k) ==
    [command |-> command[k], object |-> object[token[k]], token |-> token[k],
     base |-> base[token[k]], asShown |-> asShown[k]]

FaultyCommit(k) ==               \* whatever version is active now
    LET o == object[token[k]] IN
    /\ apc[k] = "reserved"
    /\ version' = [version EXCEPT ![o] = @ + 1]
    /\ commits' = Append(commits, Change(k))
    /\ Remember(k, "Success")
    /\ db' = None
    /\ Move(k, "committed")
    /\ UNCHANGED <<lifecycle, op, slot, previews, dropped>>

(* The reviewed version is still the active one: event, rows, receipt. *)
Commit(k) ==
    LET o == object[token[k]] IN
    /\ apc[k] = "reserved" /\ version[o] = base[token[k]]
    /\ version' = [version EXCEPT ![o] = @ + 1]
    /\ commits' = Append(commits, Change(k))
    /\ Remember(k, "Success")
    /\ db' = None
    /\ Move(k, "committed")
    /\ UNCHANGED <<lifecycle, op, slot, previews, dropped>>

(* consume *)
Settle(k) ==
    /\ apc[k] = "committed"
    /\ slot' = IF Owns(k) THEN [slot EXCEPT ![Registry(k)] = Empty] ELSE slot
    /\ Leave(k, "Success", FALSE)
    /\ UNCHANGED <<lifecycle, store, previews, dropped>>

FaultyReservedFails(k, terminal) ==   \* an error returns before the release
    /\ apc[k] = "reserved"
    /\ Leave(k, "Failed", terminal)
    /\ UNCHANGED <<lifecycle, store, slot, previews, dropped>>

FaultyInvalidate(k, terminal) ==      \* finish is called inside the reservation
    /\ apc[k] = "reserved"
    /\ IF terminal /\ IsMemory(k)
         THEN apc' = [apc EXCEPT ![k] = "clearing"] /\ UNCHANGED op
         ELSE apc' = [apc EXCEPT ![k] = "done"] /\ Unlock(k)
    /\ db' = None
    /\ answer' = [answer EXCEPT ![k] = "Failed"]
    /\ UNCHANGED <<lifecycle, store, slot, previews, command, token, asShown, dropped>>

(* release; or finish_failed_memory_review, which keeps the review only of a *)
(* failure that may pass. A stale version is not one of those.               *)
ReservedFails(k, terminal) ==
    LET r == Registry(k) IN
    /\ apc[k] = "reserved"
    /\ version[object[token[k]]] # base[token[k]] => terminal
    /\ \/ /\ Owns(k) /\ ~(terminal /\ r = "memory")
          /\ slot' = [slot EXCEPT ![r].state = "available", ![r].owner = None]
          /\ UNCHANGED dropped
       \/ /\ Owns(k) /\ terminal /\ r = "memory"
          /\ Clear(r)
       \/ /\ ~Owns(k)
          /\ UNCHANGED <<slot, dropped>>
    /\ Leave(k, "Failed", terminal)
    /\ UNCHANGED <<lifecycle, store, previews>>

(* An unwinding panic: only ReservedMemoryReview releases in its Drop, and   *)
(* nothing is cleared.                                                       *)
Panic(k) ==
    /\ apc[k] \in {"inside", "reserved"}
    /\ slot' = IF apc[k] = "reserved" /\ IsMemory(k) /\ Owns(k)
         THEN [slot EXCEPT !["memory"].state = "available", !["memory"].owner = None]
         ELSE slot
    /\ Leave(k, "Panicked", FALSE)
    /\ UNCHANGED <<lifecycle, store, previews, dropped>>

(* invalidate_memory_review_after_terminal_failure *)
ClearAfterFailure(k) ==
    /\ apc[k] = "clearing" /\ op["memory"] = None
    /\ Clear("memory")
    /\ Move(k, "done")
    /\ UNCHANGED <<lifecycle, db, store, op, previews>>

(* RequestShutdown commits and then clears the registries one by one. *)
CommitShutdown(k) ==
    /\ apc[k] = "inside" /\ ~Reviewed(k)
    /\ Remember(k, "Success")
    /\ db' = None
    /\ Move(k, "cancelProfile")
    /\ UNCHANGED <<lifecycle, version, commits, op, slot, previews, dropped>>

CancelProfile(k) ==
    /\ apc[k] = "cancelProfile" /\ op["profile"] = None
    /\ Clear("profile")
    /\ Move(k, "cancelSkill")
    /\ UNCHANGED <<lifecycle, db, store, op, previews>>

CancelSkill(k) ==
    /\ apc[k] = "cancelSkill"
    /\ Clear("skill")
    /\ Move(k, "cancelMemory")
    /\ UNCHANGED <<lifecycle, db, store, op, previews>>

CancelMemory(k) ==
    /\ apc[k] = "cancelMemory" /\ op["memory"] = None
    /\ Clear("memory")
    /\ Leave(k, "Success", FALSE)
    /\ UNCHANGED <<lifecycle, store, previews>>

-----------------------------------------------------------------------------
(* finish: the lifecycle write lock, the registries, the end of the session, *)
(* which may fail.                                                           *)
RequestFinish ==
    /\ phase = "Open" /\ ~closing
    /\ closing' = TRUE
    /\ UNCHANGED <<phase, db, store, op, slot, previews, attempts, dropped>>

Finish ==
    /\ closing /\ Readers = {} /\ op["profile"] = None /\ op["memory"] = None
    /\ slot' = [r \in Registries |-> Empty]
    /\ dropped' = dropped \cup ({slot[r].token : r \in Registries} \ {None})
    /\ phase' \in {"Open", "Closed"}
    /\ closing' = FALSE
    /\ UNCHANGED <<db, store, op, previews, attempts>>

Preview(p) == LockPreview(p) \/ View(p) \/ Register(p) \/ PreviewFails(p)

Execute(k) ==
    \/ Lookup(k) \/ LockOperation(k) \/ Contention(k) \/ BeginTransaction(k)
    \/ Refuse(k) \/ Reserve(k) \/ Commit(k) \/ Settle(k) \/ ClearAfterFailure(k)
    \/ CommitShutdown(k) \/ CancelProfile(k) \/ CancelSkill(k) \/ CancelMemory(k)
    \/ \E terminal \in BOOLEAN : InsideFails(k, terminal) \/ ReservedFails(k, terminal)

Next ==
    \/ \E p \in Previews, r \in Kinds, o \in Objects : BeginPreview(p, r, o)
    \/ \E p \in Previews : Preview(p)
    \/ \E k \in Attempts, c \in Commands, t \in Previews, same \in BOOLEAN :
         Begin(k, c, t, same)
    \/ \E k \in Attempts, c \in Commands : Begin(k, c, None, TRUE)
    \/ \E k \in Attempts : Execute(k) \/ Panic(k)
    \/ \E r \in Kinds : Cancel(r)
    \/ RequestFinish \/ Finish

Spec == Init /\ [][Next]_vars

-----------------------------------------------------------------------------
(* Properties *)

(* Every recorded change is the one its review showed, made on the version  *)
(* it was shown for: no confirmation overwrites what its reviewer never saw, *)
(* also when another registry has moved the object on.                      *)
NothingUnseenIsOverwritten ==
    \A i \in 1..Len(commits) :
      /\ commits[i].asShown
      /\ commits[i].base = Cardinality({j \in 1..(i - 1) : commits[j].object = commits[i].object})

Recorded(t) == \E i \in 1..Len(commits) : commits[i].token = t

(* A profile or memory review that was cancelled or replaced is never       *)
(* recorded, however the cancel races the confirmation. (A skill cancel may *)
(* overtake a confirmation that is under way.)                              *)
DroppedIsNeverRecorded ==
    \A t \in dropped : kind[t] # "skill" => ~Recorded(t)

(* A place stays reserved only while an attempt of that command is at work  *)
(* on it; only a panic strands a profile or skill review, never a memory    *)
(* review.                                                                  *)
NoStrandedReservation ==
    \A r \in Registries : slot[r].state = "reserved" =>
      \E k \in Attempts :
        /\ command[k] = slot[r].owner /\ token[k] = slot[r].token
        /\ apc[k] \in {"reserved", "committed"} \/ (answer[k] = "Panicked" /\ r # "memory")

(* Whatever locks they take in whatever order, previews, executions and a   *)
(* finish that have begun never all wait for each other: one of them can    *)
(* take its next step.                                                      *)
SomeoneCanMove ==
    \/ \E p \in Previews : ppc[p] \notin {"idle", "shown", "done"}
    \/ \E k \in Attempts : apc[k] \notin {"idle", "done"}
    \/ closing
    => ENABLED ((\E p \in Previews : Preview(p)) \/ (\E k \in Attempts : Execute(k)) \/ Finish)

=============================================================================
