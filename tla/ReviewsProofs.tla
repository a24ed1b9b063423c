---------------------------- MODULE ReviewsProofs ----------------------------
(***************************************************************************)
(* What a confirmation may record, for any previews, attempts and commands. *)
(*                                                                         *)
(* The argument: an attempt between its reservation and the end of its      *)
(* consumption holds the operation lock of its registry (Held), so nobody   *)
(* but a skill cancel can touch the place it reserved; a token in a place   *)
(* was never dropped (Placed), and a recorded one is in a place only until  *)
(* its own attempt empties it (RecordedOnce).                               *)
(***************************************************************************)
EXTENDS Reviews, FiniteSetTheorems, TLAPS

Places ==
    {"idle", "lookup", "locking", "locked", "inside", "reserved", "committed", "clearing",
     "cancelProfile", "cancelSkill", "cancelMemory", "done"}

Answers ==
    {"None", "LifecycleFinished", "Success", "Denied", "Conflict", "Contention", "Failed",
     "Unavailable", "Panicked"}

Changes ==
    [command : Commands, object : Objects, token : Previews, base : Nat, asShown : BOOLEAN]

TypeLocks ==
    /\ op \in [Registries -> Previews \cup Attempts \cup {None}]
    /\ slot \in [Registries -> [state : {"empty", "available", "reserved"},
                                token : Previews \cup {None}, owner : Commands \cup {None}]]
    /\ dropped \subseteq Previews

TypeStore ==
    /\ version \in [Objects -> Nat]
    /\ receipts \in [Commands -> [token : Previews \cup {None}, asShown : BOOLEAN,
                                  verdict : {"None", "Success", "Denied"}]]
    /\ commits \in Seq(Changes)

TypePreviews ==
    /\ ppc \in [Previews -> {"idle", "locking", "viewing", "viewed", "shown", "done"}]
    /\ kind \in [Previews -> Registries \cup {None}]
    /\ object \in [Previews -> Objects \cup {None}]
    /\ base \in [Previews -> Nat]

TypeAttempts ==
    /\ apc \in [Attempts -> Places]
    /\ command \in [Attempts -> Commands \cup {None}]
    /\ token \in [Attempts -> Previews \cup {None}]
    /\ asShown \in [Attempts -> BOOLEAN]
    /\ answer \in [Attempts -> Answers]

TypeInv == TypeLocks /\ TypeStore /\ TypePreviews /\ TypeAttempts

(* A preview that has begun knows what it is for. *)
Begun == \A p \in Previews : ppc[p] # "idle" => kind[p] \in Registries /\ object[p] \in Objects

(* What an attempt was asked: a review that had been shown, or nothing yet. *)
Asked ==
    \A k \in Attempts :
      /\ token[k] # None => ppc[token[k]] = "shown"
      /\ IF apc[k] = "idle" THEN answer[k] = "None" ELSE command[k] \in Commands
      /\ answer[k] = "Panicked" => apc[k] = "done"

(* A place holds a review of its registry that was never dropped. *)
Placed ==
    /\ \A r \in Registries :
         /\ slot[r].state # "empty" => slot[r].token # None
         /\ slot[r].token # None =>
              /\ ppc[slot[r].token] = "shown" /\ kind[slot[r].token] = r
              /\ slot[r].token \notin dropped
    /\ \A t \in dropped : ppc[t] = "shown"

Working == {"reserved", "committed"}

ReservedFor(place, k) ==
    place.state = "reserved" /\ place.token = token[k] /\ place.owner = command[k]

(* From its reservation to the end, an attempt holds the operation lock, and *)
(* its place, unless it is a skill's and was cancelled.                      *)
Held ==
    \A k \in Attempts : apc[k] \in Working =>
      /\ token[k] # None /\ asShown[k]
      /\ op[kind[token[k]]] = k
      /\ \/ ReservedFor(slot[kind[token[k]]], k)
         \/ kind[token[k]] = "skill" /\ slot["skill"] = Empty

(* A recorded review was shown; of a profile or the memory, it was not       *)
(* dropped, and leaves its place with the attempt that recorded it.          *)
RecordedOnce ==
    \A i \in 1..Len(commits) :
      LET t == commits[i].token IN
      /\ ppc[t] = "shown"
      /\ kind[t] # "skill" =>
           /\ t \notin dropped
           /\ slot[kind[t]].token = t => \E k \in Attempts : apc[k] = "committed" /\ token[k] = t

ChangesOf(o) == {j \in 1..Len(commits) : commits[j].object = o}

(* The version of an object counts its changes. *)
Counted == \A o \in Objects : version[o] = Cardinality(ChangesOf(o))

IInv ==
    /\ TypeInv /\ Begun /\ Asked /\ Placed /\ Held /\ RecordedOnce /\ Counted
    /\ NothingUnseenIsOverwritten /\ NoStrandedReservation

-----------------------------------------------------------------------------
(* At the start nothing has been asked, shown or recorded.                  *)
LEMMA InitInv == Init => IInv
<1> SUFFICES ASSUME Init PROVE IInv
  OBVIOUS
<1> USE ReviewsAssumption
<1>1. TypeInv
  <2>1. TypeLocks
    BY DEF Init, TypeLocks, Empty
  <2>2. TypeStore
    BY DEF Init, TypeStore, Unasked, Changes
  <2>3. TypePreviews
    BY DEF Init, TypePreviews
  <2>4. TypeAttempts
    BY DEF Init, TypeAttempts, Places, Answers
  <2> QED
    BY <2>1, <2>2, <2>3, <2>4 DEF TypeInv
<1>2. Begun /\ Asked /\ Placed /\ Held /\ NoStrandedReservation
  BY DEF Init, Begun, Asked, Placed, Held, Working, NoStrandedReservation, Empty
<1>3. RecordedOnce /\ NothingUnseenIsOverwritten
  BY DEF Init, RecordedOnce, NothingUnseenIsOverwritten
<1>4. Counted
  <2>1. \A o \in Objects : ChangesOf(o) = {}
    BY DEF Init, ChangesOf
  <2> QED
    BY <2>1, FS_EmptySet DEF Init, Counted
<1> QED
  BY <1>1, <1>2, <1>3, <1>4 DEF IInv

-----------------------------------------------------------------------------
(* Most steps are none of the business of the attempts at work: these stay  *)
(* where they are, with what they were asked and their lock; a panic is     *)
(* not forgotten, and a review that was shown stays shown.                  *)
Undisturbed ==
    /\ \A k \in Attempts : apc[k] \in Working \/ apc'[k] \in Working => apc'[k] = apc[k]
    /\ \A k \in Attempts : answer[k] = "Panicked" => answer'[k] = "Panicked"
    /\ \A k \in Attempts : apc[k] \in Working \/ answer[k] = "Panicked" =>
         command'[k] = command[k] /\ token'[k] = token[k] /\ asShown'[k] = asShown[k]
    /\ \A k \in Attempts, r \in Registries :
         apc[k] \in Working /\ op[r] = k => op'[r] = k
    /\ \A p \in Previews : ppc[p] = "shown" => ppc'[p] = "shown" /\ kind'[p] = kind[p]
    /\ UNCHANGED <<version, commits>>

Reserving == Placed /\ Held /\ RecordedOnce /\ NoStrandedReservation

Recording == Counted /\ NothingUnseenIsOverwritten

(* The invariant, in the parts that steps change together *)
LEMMA InvParts ==
    /\ IInv <=> TypeInv /\ Begun /\ Asked /\ Reserving /\ Recording
    /\ IInv' <=> TypeInv' /\ Begun' /\ Asked' /\ Reserving' /\ Recording'
BY DEF IInv, Reserving, Recording

(* What was recorded stays as it is when nothing is recorded.  *)
LEMMA RecordingKept ==
    ASSUME Recording, UNCHANGED <<version, commits>>
    PROVE  Recording'
BY DEF Recording, Counted, ChangesOf, NothingUnseenIsOverwritten

(* The review of an attempt at work, or in a place, was shown and is of a   *)
(* registry.                                                                *)
LEMMA ReviewOf ==
    ASSUME IInv, NEW k \in Attempts, token[k] # None
    PROVE  /\ token[k] \in Previews /\ ppc[token[k]] = "shown"
           /\ kind[token[k]] \in Registries /\ object[token[k]] \in Objects
BY DEF IInv, TypeInv, TypeAttempts, Asked, Begun

(* What is in a place and what was recorded is a review that was shown.     *)
LEMMA CommitOf ==
    ASSUME IInv, NEW i \in 1..Len(commits)
    PROVE  /\ commits[i].token \in Previews /\ ppc[commits[i].token] = "shown"
           /\ kind[commits[i].token] \in Registries
<1>1. commits[i] \in Changes
  BY DEF IInv, TypeInv, TypeStore
<1>2. commits[i].token \in Previews /\ ppc[commits[i].token] = "shown"
  BY <1>1 DEF IInv, Changes, RecordedOnce
<1> QED
  BY <1>2 DEF IInv, Begun

(* A step that leaves the places alone as well changes nothing of note.     *)
LEMMA KeptStep ==
    ASSUME IInv, Undisturbed, UNCHANGED <<slot, dropped>>
    PROVE  Reserving' /\ Recording'
<1> USE ReviewsAssumption
<1>1. Placed'
  BY DEF IInv, TypeInv, TypeLocks, Placed, Undisturbed
<1>2. Held'
  <2> SUFFICES ASSUME NEW k \in Attempts, apc'[k] \in Working
               PROVE  /\ token'[k] # None /\ asShown'[k]
                      /\ op'[kind'[token'[k]]] = k
                      /\ \/ LET place == slot'[kind'[token'[k]]] IN
                               /\ place.state = "reserved" /\ place.token = token'[k]
                               /\ place.owner = command'[k]
                         \/ kind'[token'[k]] = "skill" /\ slot'["skill"] = Empty
    BY DEF Held, ReservedFor
  <2>1. apc[k] \in Working /\ token'[k] = token[k] /\ asShown'[k] = asShown[k]
        /\ command'[k] = command[k]
    BY DEF Undisturbed
  <2>2. token[k] # None
    BY <2>1 DEF IInv, Held
  <2>3. kind[token[k]] \in Registries /\ kind'[token[k]] = kind[token[k]]
    BY <2>2, ReviewOf DEF Undisturbed
  <2> QED
    BY <2>1, <2>2, <2>3 DEF IInv, Held, ReservedFor, Undisturbed
<1>3. RecordedOnce'
  <2> SUFFICES ASSUME NEW i \in 1..Len(commits), NEW t, t = commits[i].token
               PROVE  /\ ppc'[t] = "shown"
                      /\ kind'[t] # "skill" =>
                           /\ t \notin dropped'
                           /\ slot'[kind'[t]].token = t =>
                                \E k \in Attempts : apc'[k] = "committed" /\ token'[k] = t
    BY DEF RecordedOnce, Undisturbed
  <2>1. t \in Previews /\ ppc[t] = "shown" /\ kind[t] \in Registries
    BY CommitOf
  <2>2. ppc'[t] = "shown" /\ kind'[t] = kind[t]
    BY <2>1 DEF Undisturbed
  <2>3. \A k \in Attempts : apc[k] = "committed" => apc'[k] = "committed" /\ token'[k] = token[k]
    BY DEF Undisturbed, Working
  <2> QED
    BY <2>2, <2>3 DEF IInv, RecordedOnce
<1>4. NoStrandedReservation'
  BY DEF IInv, NoStrandedReservation, Undisturbed, Working
<1> QED
  BY <1>1, <1>2, <1>3, <1>4, RecordingKept DEF Reserving, Recording, IInv, Undisturbed

(* Nobody is at work on a registry whose operation lock an attempt does not hold. *)
LEMMA NobodyAtWork ==
    ASSUME IInv, NEW r \in Registries, op[r] \notin Attempts,
           NEW k \in Attempts, apc[k] \in Working
    PROVE  token[k] # None /\ kind[token[k]] # r
BY DEF IInv, Held

(* The review in a place nobody works on is not one that was recorded.      *)
LEMMA UnrecordedPlace ==
    ASSUME IInv, NEW r \in Registries, r # "skill", op[r] \notin Attempts,
           NEW i \in 1..Len(commits), commits[i].token = slot[r].token
    PROVE  FALSE
<1>1. slot[r].token \in Previews /\ ppc[slot[r].token] = "shown"
  BY CommitOf
<1>2. kind[slot[r].token] = r
  BY <1>1, ReviewsAssumption DEF IInv, Placed
<1>3. PICK k \in Attempts : apc[k] = "committed" /\ token[k] = slot[r].token
  BY <1>2 DEF IInv, RecordedOnce
<1> QED
  BY <1>2, <1>3, NobodyAtWork DEF Working

(* A step that clears a place whose lock is free, or the skill place        *)
LEMMA ClearedStep ==
    ASSUME IInv, Undisturbed, NEW r \in Registries, r # "skill" => op[r] \notin Attempts,
           Clear(r)
    PROVE  Reserving' /\ Recording'
<1> USE ReviewsAssumption
<1>0. /\ slot' = [slot EXCEPT ![r] = Empty]
      /\ dropped' = dropped \cup ({slot[r].token} \ {None})
      /\ slot'[r] = Empty /\ Empty.token = None /\ Empty.state = "empty"
      /\ \A q \in Registries \ {r} : slot'[q] = slot[q]
  BY DEF Clear, Empty, IInv, TypeInv, TypeLocks
<1>1. Placed'
  <2>1. ASSUME NEW q \in Registries
        PROVE  /\ slot'[q].state # "empty" => slot'[q].token # None
               /\ slot'[q].token # None =>
                    /\ ppc'[slot'[q].token] = "shown" /\ kind'[slot'[q].token] = q
                    /\ slot'[q].token \notin dropped'
    <3>1. CASE q = r
      BY <1>0, <3>1
    <3>2. CASE q # r
      BY <1>0, <3>2 DEF IInv, TypeInv, TypeLocks, Placed, Undisturbed
    <3> QED
      BY <3>1, <3>2
  <2>2. \A t \in dropped' : ppc'[t] = "shown"
    BY <1>0 DEF IInv, TypeInv, TypeLocks, Placed, Undisturbed
  <2> QED
    BY <2>1, <2>2 DEF Placed
<1>2. Held'
  <2> SUFFICES ASSUME NEW k \in Attempts, apc'[k] \in Working
               PROVE  /\ token'[k] # None /\ asShown'[k]
                      /\ op'[kind'[token'[k]]] = k
                      /\ \/ LET place == slot'[kind'[token'[k]]] IN
                               /\ place.state = "reserved" /\ place.token = token'[k]
                               /\ place.owner = command'[k]
                         \/ kind'[token'[k]] = "skill" /\ slot'["skill"] = Empty
    BY DEF Held, ReservedFor
  <2>1. apc[k] \in Working /\ token'[k] = token[k] /\ asShown'[k] = asShown[k]
        /\ command'[k] = command[k]
    BY DEF Undisturbed
  <2>2. token[k] # None
    BY <2>1 DEF IInv, Held
  <2>3. kind[token[k]] \in Registries /\ kind'[token[k]] = kind[token[k]]
    BY <2>2, ReviewOf DEF Undisturbed
  <2>4. r # "skill" => kind[token[k]] # r
    BY <2>1, NobodyAtWork
  <2> QED
    BY <1>0, <2>1, <2>2, <2>3, <2>4 DEF IInv, Held, ReservedFor, Undisturbed
<1>3. RecordedOnce'
  <2> SUFFICES ASSUME NEW i \in 1..Len(commits), NEW t, t = commits[i].token
               PROVE  /\ ppc'[t] = "shown"
                      /\ kind'[t] # "skill" =>
                           /\ t \notin dropped'
                           /\ slot'[kind'[t]].token = t =>
                                \E k \in Attempts : apc'[k] = "committed" /\ token'[k] = t
    BY DEF RecordedOnce, Undisturbed
  <2>1. t \in Previews /\ ppc[t] = "shown" /\ kind[t] \in Registries
    BY CommitOf
  <2>2. ppc'[t] = "shown" /\ kind'[t] = kind[t]
    BY <2>1 DEF Undisturbed
  <2>3. \A k \in Attempts : apc[k] = "committed" => apc'[k] = "committed" /\ token'[k] = token[k]
    BY DEF Undisturbed, Working
  <2>4. kind[t] # "skill" => t # slot[r].token
    <3> SUFFICES ASSUME t = slot[r].token, kind[t] # "skill" PROVE FALSE
      OBVIOUS
    <3>1. kind[t] = r
      BY <2>1 DEF IInv, Placed
    <3> QED
      BY <3>1, UnrecordedPlace
  <2>5. CASE kind[t] = r
    BY <1>0, <2>1, <2>2, <2>4, <2>5 DEF IInv, RecordedOnce
  <2>6. CASE kind[t] # r
    BY <1>0, <2>1, <2>2, <2>3, <2>4, <2>6 DEF IInv, RecordedOnce
  <2> QED
    BY <2>5, <2>6
<1>4. NoStrandedReservation'
  BY <1>0 DEF IInv, NoStrandedReservation, Undisturbed, Working
<1> QED
  BY <1>1, <1>2, <1>3, <1>4, RecordingKept DEF Reserving, Recording, IInv, Undisturbed

-----------------------------------------------------------------------------
(* Every action keeps the invariant.  First the steps of previews that have *)
(* nothing to register yet, and the begin of an execution.                  *)

(* A preview begins: nothing that was shown changes. *)
LEMMA BeginPreviewInv ==
    ASSUME IInv, NEW p \in Previews, NEW r \in Kinds, NEW o \in Objects,
           BeginPreview(p, r, o)
    PROVE  IInv'
<1> USE ReviewsAssumption DEF BeginPreview, Objects, lifecycle, store, attempts
<1>1. TypeInv'
  <2>1. TypeLocks' /\ TypeStore'
    BY DEF IInv, TypeInv, TypeLocks, TypeStore
  <2>2. TypePreviews'
    BY DEF IInv, TypeInv, TypeStore, TypePreviews
  <2>3. TypeAttempts'
    BY DEF IInv, TypeInv, TypeAttempts, Places, Answers
  <2> QED
    BY <2>1, <2>2, <2>3 DEF TypeInv
<1>2. Begun' /\ Asked'
  BY DEF IInv, TypeInv, TypePreviews, TypeAttempts, Begun, Asked
<1>3. Undisturbed
  BY DEF IInv, TypeInv, TypeLocks, TypePreviews, TypeAttempts, Asked, Undisturbed, Working
<1> QED
  BY <1>1, <1>2, <1>3, KeptStep, InvParts

(* A profile preview takes its operation lock: nobody was at work under it. *)
LEMMA LockPreviewInv ==
    ASSUME IInv, NEW p \in Previews, LockPreview(p)
    PROVE  IInv'
<1> USE ReviewsAssumption DEF LockPreview, lifecycle, store, attempts
<1>1. TypeInv'
  <2>1. TypeLocks' /\ TypeStore'
    BY DEF IInv, TypeInv, TypeLocks, TypeStore
  <2>2. TypePreviews'
    BY DEF IInv, TypeInv, TypeStore, TypePreviews
  <2>3. TypeAttempts'
    BY DEF IInv, TypeInv, TypeAttempts, Places, Answers
  <2> QED
    BY <2>1, <2>2, <2>3 DEF TypeInv
<1>2. Begun' /\ Asked'
  BY DEF IInv, TypeInv, TypePreviews, TypeAttempts, Begun, Asked
<1>3. Undisturbed
  BY DEF IInv, TypeInv, TypeLocks, TypePreviews, TypeAttempts, Asked, Undisturbed, Working
<1> QED
  BY <1>1, <1>2, <1>3, KeptStep, InvParts

(* A preview reads the version of its object. *)
LEMMA ViewInv ==
    ASSUME IInv, NEW p \in Previews, View(p)
    PROVE  IInv'
<1> USE ReviewsAssumption DEF View, lifecycle, store, attempts
<1>1. TypeInv'
  <2>1. TypeLocks' /\ TypeStore'
    BY DEF IInv, TypeInv, TypeLocks, TypeStore
  <2>2. TypePreviews'
    BY DEF IInv, TypeInv, TypeStore, TypePreviews, Begun
  <2>3. TypeAttempts'
    BY DEF IInv, TypeInv, TypeAttempts, Places, Answers
  <2> QED
    BY <2>1, <2>2, <2>3 DEF TypeInv
<1>2. Begun' /\ Asked'
  BY DEF IInv, TypeInv, TypePreviews, TypeAttempts, Begun, Asked
<1>3. Undisturbed
  BY DEF IInv, TypeInv, TypeLocks, TypePreviews, TypeAttempts, Asked, Undisturbed, Working
<1> QED
  BY <1>1, <1>2, <1>3, KeptStep, InvParts

(* A preview fails and lets go of its lock. *)
LEMMA PreviewFailsInv ==
    ASSUME IInv, NEW p \in Previews, PreviewFails(p)
    PROVE  IInv'
<1> USE ReviewsAssumption DEF PreviewFails, Unlock, lifecycle, store, attempts
<1>1. TypeInv'
  <2>1. TypeLocks' /\ TypeStore'
    BY DEF IInv, TypeInv, TypeLocks, TypeStore
  <2>2. TypePreviews'
    BY DEF IInv, TypeInv, TypeStore, TypePreviews
  <2>3. TypeAttempts'
    BY DEF IInv, TypeInv, TypeAttempts, Places, Answers
  <2> QED
    BY <2>1, <2>2, <2>3 DEF TypeInv
<1>2. Begun' /\ Asked'
  BY DEF IInv, TypeInv, TypePreviews, TypeAttempts, Begun, Asked
<1>3. Undisturbed
  BY DEF IInv, TypeInv, TypeLocks, TypePreviews, TypeAttempts, Asked, Undisturbed, Working
<1> QED
  BY <1>1, <1>2, <1>3, KeptStep, InvParts

(* A caller repeats a review that was shown, or asks for shutdown. *)
LEMMA BeginInv ==
    ASSUME IInv, NEW k \in Attempts, NEW c \in Commands, NEW t \in Previews \cup {None},
           NEW same \in BOOLEAN, Begin(k, c, t, same)
    PROVE  IInv'
<1> USE ReviewsAssumption DEF Begin, lifecycle, store, previews
<1>1. TypeInv'
  <2>1. TypeLocks' /\ TypeStore'
    BY DEF IInv, TypeInv, TypeLocks, TypeStore
  <2>2. TypePreviews'
    BY DEF IInv, TypeInv, TypeStore, TypePreviews
  <2>3. TypeAttempts'
    BY DEF IInv, TypeInv, TypeAttempts, Places, Answers
  <2> QED
    BY <2>1, <2>2, <2>3 DEF TypeInv
<1>2. Begun' /\ Asked'
  BY DEF IInv, TypeInv, TypePreviews, TypeAttempts, Begun, Asked
<1>3. Undisturbed
  BY DEF IInv, TypeInv, TypeLocks, TypePreviews, TypeAttempts, Asked, Undisturbed, Working
<1> QED
  BY <1>1, <1>2, <1>3, KeptStep, InvParts

-----------------------------------------------------------------------------
(* The steps of an attempt before its reservation, and of a shutdown: its   *)
(* place, its answer, its own locks and the receipts change.                *)
Before ==
    {"lookup", "locking", "locked", "inside", "clearing",
     "cancelProfile", "cancelSkill", "cancelMemory"}

Moved(k) ==
    /\ apc[k] \in Before
    /\ \E place \in Before \cup {"done"}, told \in Answers :
         /\ told = "Panicked" => place = "done" \/ told = answer[k]
         /\ apc' = [apc EXCEPT ![k] = place] /\ answer' = [answer EXCEPT ![k] = told]
    /\ UNCHANGED <<command, token, asShown, previews, version, commits>>
    /\ receipts' = receipts
         \/ \E verdict \in {"Success", "Denied"} : Remember(k, verdict)
    /\ op' \in [Registries -> Previews \cup Attempts \cup {None}]
    /\ \A r \in Registries : op[r] \in Attempts \ {k} => op'[r] = op[r]

(* Such a step disturbs nobody at work. *)
LEMMA MovedStep ==
    ASSUME IInv, NEW k \in Attempts, Moved(k)
    PROVE  TypeStore' /\ TypePreviews' /\ TypeAttempts' /\ Begun' /\ Asked' /\ Undisturbed
<1> USE ReviewsAssumption DEF Moved
<1>1. TypeStore'
  <2>1. token[k] \in Previews \cup {None} /\ asShown[k] \in BOOLEAN
    BY DEF IInv, TypeInv, TypeAttempts
  <2>2. receipts' \in [Commands -> [token : Previews \cup {None}, asShown : BOOLEAN,
                                     verdict : {"None", "Success", "Denied"}]]
    BY <2>1 DEF IInv, TypeInv, TypeStore, Remember
  <2> QED
    BY <2>2 DEF IInv, TypeInv, TypeStore
<1>2. TypePreviews' /\ Begun'
  BY DEF IInv, TypeInv, TypePreviews, Begun, previews
<1>3. TypeAttempts'
  BY DEF IInv, TypeInv, TypeAttempts, Before, Places
<1>4. Asked'
  BY DEF IInv, TypeInv, TypeAttempts, Asked, Before, previews
<1>5. Undisturbed
  BY DEF IInv, TypeInv, TypeAttempts, Asked, Before, Undisturbed, Working, previews
<1> QED
  BY <1>1, <1>2, <1>3, <1>4, <1>5

(* ... and keeps the invariant when it leaves the places alone, *)
LEMMA MovedKept ==
    ASSUME IInv, NEW k \in Attempts, Moved(k), UNCHANGED <<slot, dropped>>
    PROVE  IInv'
<1>1. TypeLocks'
  BY DEF IInv, TypeInv, TypeLocks, Moved
<1> QED
  BY <1>1, MovedStep, KeptStep, InvParts DEF TypeInv

(* ... or clears a place that nobody works on. *)
LEMMA MovedCleared ==
    ASSUME IInv, NEW k \in Attempts, Moved(k),
           NEW r \in Registries, r # "skill" => op[r] = None, Clear(r)
    PROVE  IInv'
<1>1. TypeLocks'
  BY DEF IInv, TypeInv, TypeLocks, Moved, Clear, Empty
<1> QED
  BY <1>1, MovedStep, ClearedStep, InvParts, ReviewsAssumption DEF TypeInv

(* Leaving with an answer is such a step. *)
LEMMA LeaveMoves ==
    ASSUME IInv, NEW k \in Attempts, apc[k] \in Before,
           NEW why \in Answers, NEW terminal \in BOOLEAN, Leave(k, why, terminal),
           why = "Panicked" => ~terminal,
           UNCHANGED <<previews, version, commits>>,
           receipts' = receipts \/ \E verdict \in {"Success", "Denied"} : Remember(k, verdict)
    PROVE  Moved(k)
<1>1. /\ op' \in [Registries -> Previews \cup Attempts \cup {None}]
      /\ \A r \in Registries : op[r] \in Attempts \ {k} => op'[r] = op[r]
  BY DEF IInv, TypeInv, TypeLocks, Leave, Unlock
<1> QED
  BY <1>1 DEF Leave, Moved, Before

(* Going on without an answer, with the locks as they were *)
LEMMA MoveMoves ==
    ASSUME IInv, NEW k \in Attempts, apc[k] \in Before,
           NEW place \in Before \cup {"done"}, Move(k, place),
           UNCHANGED <<op, previews, version, commits>>,
           receipts' = receipts \/ \E verdict \in {"Success", "Denied"} : Remember(k, verdict)
    PROVE  Moved(k)
<1>1. answer[k] \in Answers /\ answer' = [answer EXCEPT ![k] = answer[k]]
  BY DEF IInv, TypeInv, TypeAttempts, Move
<1>2. apc' = [apc EXCEPT ![k] = place] /\ UNCHANGED <<command, token, asShown>>
  BY DEF Move
<1>3. /\ op' \in [Registries -> Previews \cup Attempts \cup {None}]
      /\ \A r \in Registries : op[r] \in Attempts \ {k} => op'[r] = op[r]
  BY DEF IInv, TypeInv, TypeLocks
<1> QED
  BY <1>1, <1>2, <1>3 DEF Moved

(* A receipt is found, and answers with what it says, or with a conflict. *)
LEMMA ReplayInv ==
    ASSUME IInv, NEW k \in Attempts, apc[k] \in Before, Replay(k)
    PROVE  IInv'
<1>1. command[k] \in Commands
  BY DEF IInv, Asked, Before
<1>2. Receipt(k).verdict \in Answers \ {"Panicked"}
  BY <1>1 DEF IInv, TypeInv, TypeStore, Receipt, Answers
<1>3. PICK told \in Answers \ {"Panicked"} : Leave(k, told, told # "Success")
  BY <1>2 DEF Replay, Answers
<1>4. Moved(k)
  BY <1>3, LeaveMoves DEF Replay, store
<1> QED
  BY <1>4, MovedKept DEF Replay

(* The replay transaction, before any lock *)
LEMMA LookupInv ==
    ASSUME IInv, NEW k \in Attempts, Lookup(k)
    PROVE  IInv'
<1>1. CASE Replay(k)
  BY <1>1, ReplayInv DEF Lookup, Before
<1>2. CASE Move(k, AfterLookup(k)) /\ UNCHANGED <<lifecycle, db, store, op, slot, previews, dropped>>
  BY <1>2, MoveMoves, MovedKept DEF Lookup, AfterLookup, Before, store
<1> QED
  BY <1>1, <1>2 DEF Lookup

(* The operation lock is taken when it is free. *)
LEMMA LockOperationInv ==
    ASSUME IInv, NEW k \in Attempts, LockOperation(k)
    PROVE  IInv'
<1>1. Moved(k)
  <2>1. /\ op' \in [Registries -> Previews \cup Attempts \cup {None}]
        /\ \A r \in Registries : op[r] \in Attempts \ {k} => op'[r] = op[r]
    BY ReviewsAssumption DEF IInv, TypeInv, TypeLocks, LockOperation
  <2> QED
    BY <2>1 DEF IInv, TypeInv, TypeAttempts, Asked, LockOperation, Move, Moved, Before, store
<1> QED
  BY <1>1, MovedKept DEF LockOperation

(* The database stays busy: nothing but the attempt ends. *)
LEMMA ContentionInv ==
    ASSUME IInv, NEW k \in Attempts, Contention(k)
    PROVE  IInv'
<1>1. Moved(k)
  BY LeaveMoves DEF Contention, Before, Answers, store
<1> QED
  BY <1>1, MovedKept DEF Contention

(* The receipt is looked for again inside the main transaction. *)
LEMMA BeginTransactionInv ==
    ASSUME IInv, NEW k \in Attempts, BeginTransaction(k)
    PROVE  IInv'
<1>1. CASE Replay(k)
  BY <1>1, ReplayInv DEF BeginTransaction, Before
<1>2. CASE Move(k, "inside") /\ UNCHANGED <<lifecycle, store, op, slot, previews, dropped>>
  BY <1>2, MoveMoves, MovedKept DEF BeginTransaction, Before, store
<1> QED
  BY <1>1, <1>2 DEF BeginTransaction

(* A refused capability leaves a receipt and no change. *)
LEMMA RefuseInv ==
    ASSUME IInv, NEW k \in Attempts, Refuse(k)
    PROVE  IInv'
<1>1. Moved(k)
  BY LeaveMoves DEF Refuse, Before, Answers
<1> QED
  BY <1>1, MovedKept DEF Refuse

(* A failure before the reservation *)
LEMMA InsideFailsInv ==
    ASSUME IInv, NEW k \in Attempts, NEW terminal \in BOOLEAN, InsideFails(k, terminal)
    PROVE  IInv'
<1>1. Moved(k)
  BY LeaveMoves DEF InsideFails, Before, Answers, store
<1> QED
  BY <1>1, MovedKept DEF InsideFails

(* A shutdown is recorded before it clears anything. *)
LEMMA CommitShutdownInv ==
    ASSUME IInv, NEW k \in Attempts, CommitShutdown(k)
    PROVE  IInv'
<1>1. Moved(k)
  BY MoveMoves DEF CommitShutdown, Before
<1> QED
  BY <1>1, MovedKept DEF CommitShutdown

(* The clears that follow a failure or a shutdown *)
LEMMA ClearsInv ==
    ASSUME IInv, NEW k \in Attempts,
           ClearAfterFailure(k) \/ CancelProfile(k) \/ CancelSkill(k) \/ CancelMemory(k)
    PROVE  IInv'
<1>1. CASE ClearAfterFailure(k)
  BY <1>1, MoveMoves, MovedCleared DEF ClearAfterFailure, Before, Registries, store
<1>2. CASE CancelProfile(k)
  BY <1>2, MoveMoves, MovedCleared DEF CancelProfile, Before, Registries, store
<1>3. CASE CancelSkill(k)
  BY <1>3, MoveMoves, MovedCleared DEF CancelSkill, Before, Registries, store
<1>4. CASE CancelMemory(k)
  <2>1. Moved(k)
    BY <1>4, LeaveMoves DEF CancelMemory, Before, Answers, store
  <2> QED
    BY <1>4, <2>1, MovedCleared DEF CancelMemory, Registries
<1> QED
  BY <1>1, <1>2, <1>3, <1>4

-----------------------------------------------------------------------------
(* The end of the work.  The place of the attempt is no longer reserved,    *)
(* unless a panic left a profile or skill review there; the review that was *)
(* recorded, or cleared, is no longer in it.                                *)
Slots ==
    [state : {"empty", "available", "reserved"},
     token : Previews \cup {None}, owner : Commands \cup {None}]

Vacated(k) ==
    LET r == kind[token[k]] IN
    /\ slot' \in [Registries -> Slots] /\ \A q \in Registries \ {r} : slot'[q] = slot[q]
    /\ \/ slot'[r] = slot[r]
       \/ slot'[r] = Empty
       \/ slot'[r].state = "available" /\ slot'[r].token = slot[r].token
            /\ slot[r].state = "reserved"
    /\ slot'[r].state = "reserved" => answer'[k] = "Panicked" /\ r # "memory"
    /\ apc[k] = "committed" => slot'[r].token # token[k] \/ r = "skill"
    /\ dropped' = dropped \/ (apc[k] = "reserved" /\ slot'[r] = Empty
                              /\ dropped' = dropped \cup ({slot[r].token} \ {None}))

Ended(k) ==
    /\ apc[k] \in Working
    /\ \E why \in Answers, terminal \in BOOLEAN :
         Leave(k, why, terminal) /\ (why = "Panicked" => ~terminal)
    /\ Vacated(k)
    /\ UNCHANGED <<store, previews>>

(* An attempt that ends its work keeps the invariant: the registry was its own. *)
LEMMA EndedStep ==
    ASSUME IInv, NEW k \in Attempts, Ended(k)
    PROVE  IInv'
<1> USE ReviewsAssumption
<1> DEFINE r == kind[token[k]]
<1>1. /\ token[k] \in Previews /\ ppc[token[k]] = "shown" /\ r \in Registries
      /\ op[r] = k /\ (ReservedFor(slot[r], k) \/ (r = "skill" /\ slot[r] = Empty))
  BY ReviewOf DEF IInv, Held, Ended
<1>2. PICK why \in Answers, terminal \in BOOLEAN :
        Leave(k, why, terminal) /\ (why = "Panicked" => ~terminal)
  BY DEF Ended
<1>3. Vacated(k)
  BY DEF Ended
<1> HIDE DEF r
<1>4. /\ slot' \in [Registries -> Slots] /\ \A q \in Registries \ {r} : slot'[q] = slot[q]
      /\ slot'[r].token \in {slot[r].token, None}
      /\ slot'[r].state # "empty" => slot'[r].token # None
  BY <1>1, <1>3 DEF IInv, Vacated, Empty, Placed, r
<1>5. /\ ppc' = ppc /\ kind' = kind /\ token' = token /\ asShown' = asShown
      /\ command' = command /\ commits' = commits /\ version' = version
      /\ apc'[k] \in {"clearing", "done"} /\ \A j \in Attempts \ {k} : apc'[j] = apc[j]
      /\ answer'[k] = why /\ \A j \in Attempts \ {k} : answer'[j] = answer[j]
      /\ \A j \in Attempts \ {k}, q \in Registries : op[q] = j => op'[q] = j
  BY <1>2 DEF IInv, TypeInv, TypeLocks, TypeAttempts, Leave, Unlock, Ended, store, previews
<1>6. TypeInv'
  <2>1. TypeLocks'
    <3>1. op' \in [Registries -> Previews \cup Attempts \cup {None}]
      BY <1>2 DEF IInv, TypeInv, TypeLocks, Leave, Unlock
    <3>2. slot' \in [Registries -> Slots]
      BY <1>4
    <3>3. dropped' \subseteq Previews
      BY <1>1, <1>3 DEF IInv, TypeInv, TypeLocks, Vacated, r
    <3> QED
      BY <3>1, <3>2, <3>3 DEF TypeLocks, Slots
  <2>2. TypeStore' /\ TypePreviews'
    BY DEF IInv, TypeInv, TypeStore, TypePreviews, Ended, store, previews
  <2>3. TypeAttempts'
    BY <1>2 DEF IInv, TypeInv, TypeAttempts, Places, Leave
  <2> QED
    BY <2>1, <2>2, <2>3 DEF TypeInv
<1>7. Begun'
  BY DEF IInv, Begun, Ended, previews
<1>8. Asked'
  <2>1. answer'[k] = "Panicked" => apc'[k] = "done"
    BY <1>2 DEF IInv, TypeInv, TypeAttempts, Leave
  <2> QED
    BY <1>5, <2>1 DEF IInv, Asked, Ended, Working
<1>9. Placed'
  BY <1>1, <1>3, <1>4, <1>5 DEF IInv, TypeInv, TypeLocks, Placed, Vacated, Empty, r
<1>10. Held'
  <2> SUFFICES ASSUME NEW j \in Attempts, apc'[j] \in Working
               PROVE  /\ token[j] # None /\ asShown[j]
                      /\ op'[kind[token[j]]] = j
                      /\ \/ ReservedFor(slot'[kind[token[j]]], j)
                         \/ kind[token[j]] = "skill" /\ slot'["skill"] = Empty
    BY <1>5 DEF Held, ReservedFor
  <2>1. j # k /\ apc[j] \in Working
    BY <1>5 DEF Working
  <2>2. token[j] # None /\ asShown[j] /\ op[kind[token[j]]] = j
    BY <2>1 DEF IInv, Held
  <2>3. kind[token[j]] \in Registries /\ kind[token[j]] # r
    BY <1>1, <2>1, <2>2, ReviewOf
  <2> QED
    BY <1>4, <1>5, <2>1, <2>2, <2>3 DEF IInv, Held, Registries
<1>11. RecordedOnce'
  <2> SUFFICES ASSUME NEW i \in 1..Len(commits), NEW t, t = commits[i].token, kind[t] # "skill"
               PROVE  /\ t \notin dropped'
                      /\ slot'[kind[t]].token = t =>
                           \E j \in Attempts : apc'[j] = "committed" /\ token[j] = t
    BY <1>5, CommitOf DEF RecordedOnce
  <2>1. t \in Previews /\ kind[t] \in Registries /\ t \notin dropped
    BY CommitOf DEF IInv, RecordedOnce
  <2>2. ASSUME slot[kind[t]].token = t
        PROVE  \E j \in Attempts : apc[j] = "committed" /\ token[j] = t
    BY <2>2 DEF IInv, RecordedOnce
  <2>3. t \notin dropped'
    <3> SUFFICES ASSUME apc[k] = "reserved", t = slot[r].token PROVE FALSE
      BY <1>3, <2>1 DEF Vacated, r
    <3>1. ReservedFor(slot[r], k) /\ t = token[k] /\ kind[t] = r
      BY <1>1, <2>1 DEF Empty, ReservedFor, r
    <3>2. PICK j \in Attempts : apc[j] = "committed" /\ token[j] = t
      BY <2>2, <3>1
    <3> QED
      BY <1>1, <3>1, <3>2 DEF IInv, Held, Working
  <2>4. CASE kind[t] = r
    <3> SUFFICES ASSUME slot'[r].token = t
                 PROVE  \E j \in Attempts : apc'[j] = "committed" /\ token[j] = t
      BY <2>3, <2>4
    <3>1. slot[r].token = t
      BY <1>4, <2>1
    <3>2. PICK j \in Attempts : apc[j] = "committed" /\ token[j] = t
      BY <2>2, <2>4, <3>1
    <3>3. j = k
      BY <1>1, <2>4, <3>2 DEF IInv, Held, Working
    <3> QED
      BY <1>3, <1>4, <2>4, <3>2, <3>3 DEF Vacated, r
  <2>5. CASE kind[t] # r
    <3> SUFFICES ASSUME slot[kind[t]].token = t
                 PROVE  \E j \in Attempts : apc'[j] = "committed" /\ token[j] = t
      BY <1>4, <2>1, <2>3, <2>5
    <3>1. PICK j \in Attempts : apc[j] = "committed" /\ token[j] = t
      BY <2>2
    <3> QED
      BY <1>5, <2>5, <3>1 DEF r
  <2> QED
    BY <2>4, <2>5
<1>12. NoStrandedReservation'
  <2> SUFFICES ASSUME NEW q \in Registries, slot'[q].state = "reserved"
               PROVE  \E j \in Attempts :
                        /\ command[j] = slot'[q].owner /\ token[j] = slot'[q].token
                        /\ \/ apc'[j] \in {"reserved", "committed"}
                           \/ answer'[j] = "Panicked" /\ q # "memory"
    BY <1>5 DEF NoStrandedReservation
  <2>1. CASE q = r
    <3>1. ReservedFor(slot'[r], k) /\ answer'[k] = "Panicked" /\ r # "memory"
      BY <1>1, <1>3, <1>4, <2>1 DEF Vacated, Empty, r
    <3> QED
      BY <1>4, <2>1, <3>1 DEF ReservedFor
  <2>2. CASE q # r
    <3>1. slot'[q] = slot[q] /\ slot[q].token # None
      BY <1>4, <2>2 DEF IInv, Placed
    <3>2. PICK j \in Attempts :
            /\ command[j] = slot[q].owner /\ token[j] = slot[q].token
            /\ \/ apc[j] \in {"reserved", "committed"}
               \/ answer[j] = "Panicked" /\ q # "memory"
      BY <3>1 DEF IInv, NoStrandedReservation
    <3>3. j # k
      BY <2>2, <3>1, <3>2 DEF IInv, Placed, r
    <3> QED
      BY <1>5, <3>1, <3>2, <3>3
  <2> QED
    BY <2>1, <2>2
<1> QED
  BY <1>5, <1>6, <1>7, <1>8, <1>9, <1>10, <1>11, <1>12, RecordingKept, InvParts DEF Reserving

(* The place of an attempt at work, and whether it is its own *)
LEMMA AtWork ==
    ASSUME IInv, NEW k \in Attempts, apc[k] \in Working
    PROVE  /\ Registry(k) = kind[token[k]] /\ Registry(k) \in Registries
           /\ token[k] \in Previews /\ Reviewed(k) /\ op[Registry(k)] = k
           /\ Owns(k) => slot[Registry(k)].state = "reserved"
           /\ ~Owns(k) => Registry(k) = "skill" /\ slot[Registry(k)] = Empty
<1>1. token[k] # None
  BY DEF IInv, Held
<1>2. token[k] \in Previews /\ kind[token[k]] \in Registries
  BY <1>1, ReviewOf
<1>3. op[kind[token[k]]] = k
  BY DEF IInv, Held
<1>4. \/ ReservedFor(slot[kind[token[k]]], k)
      \/ kind[token[k]] = "skill" /\ slot[kind[token[k]]] = Empty
  BY DEF IInv, Held
<1>5. ReservedFor(slot[kind[token[k]]], k) => Owns(k) /\ slot[kind[token[k]]].state = "reserved"
  BY DEF ReservedFor, Owns, Registry
<1>6. slot[kind[token[k]]] = Empty => ~Owns(k)
  BY DEF Empty, Owns, Registry
<1> QED
  BY <1>1, <1>2, <1>3, <1>4, <1>5, <1>6 DEF Registry, Reviewed

(* The consumption of a recorded review empties its place, if it still has it. *)
LEMMA SettleInv ==
    ASSUME IInv, NEW k \in Attempts, Settle(k)
    PROVE  IInv'
<1>1. apc[k] = "committed" /\ apc[k] \in Working
  BY DEF Settle, Working
<1>2. Vacated(k)
  <2>1. slot' \in [Registries -> Slots]
    BY <1>1, AtWork DEF IInv, TypeInv, TypeLocks, Settle, Slots, Empty
  <2>2. slot'[Registry(k)] = Empty /\ \A q \in Registries \ {Registry(k)} : slot'[q] = slot[q]
    BY <1>1, AtWork DEF IInv, TypeInv, TypeLocks, Settle
  <2> QED
    BY <1>1, <2>1, <2>2, AtWork, ReviewsAssumption DEF Settle, Vacated, Empty
<1>3. Ended(k)
  BY <1>1, <1>2 DEF Settle, Ended, Answers
<1> QED
  BY <1>3, EndedStep

(* A failure under a reservation gives the place back, or clears it. *)
LEMMA ReservedFailsInv ==
    ASSUME IInv, NEW k \in Attempts, NEW terminal \in BOOLEAN, ReservedFails(k, terminal)
    PROVE  IInv'
<1>1. apc[k] = "reserved" /\ apc[k] \in Working
  BY DEF ReservedFails, Working
<1>2. Vacated(k)
  <2>1. slot' \in [Registries -> Slots]
    BY DEF IInv, TypeInv, TypeLocks, ReservedFails, Clear, Slots, Empty
  <2>2. \A q \in Registries \ {Registry(k)} : slot'[q] = slot[q]
    BY <1>1, AtWork DEF IInv, TypeInv, TypeLocks, ReservedFails, Clear
  <2>3. CASE Owns(k) /\ ~(terminal /\ Registry(k) = "memory")
    <3>1. /\ slot'[Registry(k)].state = "available"
          /\ slot'[Registry(k)].token = slot[Registry(k)].token /\ dropped' = dropped
      BY <2>3, <1>1, AtWork DEF IInv, TypeInv, TypeLocks, ReservedFails
    <3> QED
      BY <1>1, <2>1, <2>2, <2>3, <3>1, AtWork DEF Vacated
  <2>4. CASE Owns(k) /\ terminal /\ Registry(k) = "memory"
    <3>1. /\ slot'[Registry(k)] = Empty
          /\ dropped' = dropped \cup ({slot[Registry(k)].token} \ {None})
      BY <2>4, <1>1, AtWork DEF IInv, TypeInv, TypeLocks, ReservedFails, Clear
    <3> QED
      BY <1>1, <2>1, <2>2, <3>1, AtWork DEF Vacated, Empty
  <2>5. CASE ~Owns(k)
    BY <1>1, <2>1, <2>2, <2>5, AtWork DEF ReservedFails, Vacated, Empty
  <2> QED
    BY <2>3, <2>4, <2>5
<1>3. Ended(k)
  BY <1>1, <1>2 DEF ReservedFails, Ended, Answers
<1> QED
  BY <1>3, EndedStep

(* A panic gives a memory review back and strands any other. *)
LEMMA PanicInv ==
    ASSUME IInv, NEW k \in Attempts, Panic(k)
    PROVE  IInv'
<1>1. CASE apc[k] = "inside"
  <2>1. Moved(k)
    BY <1>1, LeaveMoves DEF Panic, Before, Answers, store
  <2> QED
    BY <1>1, <2>1, MovedKept DEF Panic
<1>2. CASE apc[k] = "reserved"
  <2>1. apc[k] \in Working /\ answer'[k] = "Panicked"
    BY <1>2 DEF IInv, TypeInv, TypeAttempts, Panic, Leave, Working
  <2>2. slot' \in [Registries -> Slots]
    BY DEF IInv, TypeInv, TypeLocks, Panic, Slots
  <2>3. Vacated(k)
    <3>1. CASE IsMemory(k)
      <4>1. Owns(k) /\ Registry(k) = "memory"
        BY <2>1, <3>1, AtWork DEF IsMemory
      <4>2. /\ slot'["memory"].state = "available"
            /\ slot'["memory"].token = slot["memory"].token
            /\ \A q \in Registries \ {"memory"} : slot'[q] = slot[q]
        BY <1>2, <2>1, <3>1, <4>1, AtWork DEF IInv, TypeInv, TypeLocks, Panic
      <4> QED
        BY <1>2, <2>1, <2>2, <4>1, <4>2, AtWork DEF Panic, Vacated
    <3>2. CASE ~IsMemory(k)
      BY <1>2, <2>1, <2>2, <3>2, AtWork DEF Panic, Vacated, IsMemory
    <3> QED
      BY <3>1, <3>2
  <2>4. Ended(k)
    BY <2>1, <2>3 DEF Panic, Ended, Answers
  <2> QED
    BY <2>4, EndedStep
<1> QED
  BY <1>1, <1>2 DEF Panic

-----------------------------------------------------------------------------
(* Registering, cancelling and finishing: nobody is at work on the places   *)
(* that change, but for a skill place that is cleared.                      *)
LEMMA RegisterInv ==
    ASSUME IInv, NEW p \in Previews, Register(p)
    PROVE  IInv'
<1> USE ReviewsAssumption
<1> DEFINE r == kind[p]
<1>1. /\ ppc[p] = "viewed" /\ r \in Registries /\ p # None /\ p \notin Attempts
      /\ op[r] \notin Attempts
  BY DEF IInv, Begun, Register
<1> HIDE DEF r
<1>2. /\ slot'[r] = [state |-> "available", token |-> p, owner |-> None]
      /\ \A q \in Registries \ {r} : slot'[q] = slot[q]
      /\ dropped' = dropped \cup ({slot[r].token} \ {None})
      /\ ppc'[p] = "shown" /\ \A t \in Previews \ {p} : ppc'[t] = ppc[t]
      /\ \A j \in Attempts, q \in Registries : op[q] = j => op'[q] = j
  BY <1>1 DEF IInv, TypeInv, TypeLocks, TypePreviews, Register, Unlock, r
<1>3. UNCHANGED <<kind, object, base, apc, command, token, asShown, answer, version, commits>>
  BY DEF Register, store, attempts
<1>4. TypeInv'
  <2>1. TypeLocks'
    BY <1>1, <1>2 DEF IInv, TypeInv, TypeLocks, Register, Unlock, r
  <2>2. TypeStore' /\ TypePreviews' /\ TypeAttempts'
    BY DEF IInv, TypeInv, TypeStore, TypePreviews, TypeAttempts, Register, store, attempts
  <2> QED
    BY <2>1, <2>2 DEF TypeInv
<1>5. Begun' /\ Asked'
  BY <1>1, <1>2, <1>3 DEF IInv, TypeInv, TypePreviews, TypeAttempts, Begun, Asked
<1>6. Placed'
  <2>1. p \notin dropped'
    BY <1>1, <1>2 DEF IInv, Placed
  <2> QED
    BY <1>1, <1>2, <1>3, <2>1 DEF IInv, TypeInv, TypeLocks, Placed, r
<1>7. Held'
  <2> SUFFICES ASSUME NEW k \in Attempts, apc[k] \in Working
               PROVE  /\ token[k] # None /\ asShown[k]
                      /\ op'[kind[token[k]]] = k
                      /\ \/ ReservedFor(slot'[kind[token[k]]], k)
                         \/ kind[token[k]] = "skill" /\ slot'["skill"] = Empty
    BY <1>3 DEF Held, ReservedFor
  <2>1. token[k] # None /\ kind[token[k]] # r
    BY <1>1, NobodyAtWork
  <2>2. kind[token[k]] \in Registries
    BY <2>1, ReviewOf
  <2> QED
    BY <1>2, <2>1, <2>2 DEF IInv, Held, Registries
<1>8. RecordedOnce'
  <2> SUFFICES ASSUME NEW i \in 1..Len(commits), NEW t, t = commits[i].token
               PROVE  /\ ppc'[t] = "shown"
                      /\ kind[t] # "skill" =>
                           /\ t \notin dropped'
                           /\ slot'[kind[t]].token = t =>
                                \E k \in Attempts : apc[k] = "committed" /\ token[k] = t
    BY <1>3 DEF RecordedOnce
  <2>1. t \in Previews /\ ppc[t] = "shown" /\ kind[t] \in Registries /\ t # p
    BY <1>1, CommitOf
  <2>2. kind[t] # "skill" => t # slot[r].token
    <3> SUFFICES ASSUME kind[t] # "skill", t = slot[r].token PROVE FALSE
      OBVIOUS
    <3>1. kind[t] = r
      BY <1>1, <2>1 DEF IInv, Placed
    <3> QED
      BY <1>1, <3>1, UnrecordedPlace
  <2> QED
    BY <1>2, <2>1, <2>2 DEF IInv, RecordedOnce
<1>9. NoStrandedReservation'
  BY <1>1, <1>2, <1>3 DEF IInv, NoStrandedReservation
<1> QED
  BY <1>3, <1>4, <1>5, <1>6, <1>7, <1>8, <1>9, RecordingKept, InvParts DEF Reserving

(* A cancel that waits for the lock finds nobody at work. *)
LEMMA CancelInv ==
    ASSUME IInv, NEW r \in Kinds, Cancel(r)
    PROVE  IInv'
<1> USE ReviewsAssumption
<1>1. r \in Registries /\ Clear(r) /\ (r # "skill" => op[r] \notin Attempts)
  BY DEF Cancel
<1>2. TypeInv' /\ Begun' /\ Asked'
  BY <1>1 DEF IInv, TypeInv, TypeLocks, TypeStore, TypePreviews, TypeAttempts, Begun, Asked,
              Cancel, Clear, Empty, store, previews, attempts
<1>3. Undisturbed
  BY DEF Undisturbed, Cancel, store, previews, attempts
<1> QED
  BY <1>1, <1>2, <1>3, ClearedStep, InvParts

(* A finish that waits changes nothing yet. *)
LEMMA RequestFinishInv ==
    ASSUME IInv, RequestFinish
    PROVE  IInv'
<1>1. TypeInv' /\ Begun' /\ Asked'
  BY DEF IInv, TypeInv, TypeLocks, TypeStore, TypePreviews, TypeAttempts, Begun, Asked,
         RequestFinish, store, previews, attempts
<1>2. Undisturbed
  BY DEF Undisturbed, RequestFinish, store, previews, attempts
<1> QED
  BY <1>1, <1>2, KeptStep, InvParts DEF RequestFinish

(* Nobody executes when finish has the lifecycle for itself. *)
LEMMA FinishInv ==
    ASSUME IInv, Finish
    PROVE  IInv'
<1> USE ReviewsAssumption
<1>1. \A k \in Attempts : apc[k] \notin Working
  BY DEF Finish, Readers, Executing, Working
<1>2. /\ \A r \in Registries : slot'[r] = Empty
      /\ dropped' = dropped \cup ({slot[r].token : r \in Registries} \ {None})
      /\ UNCHANGED <<ppc, kind, object, base, apc, command, token, asShown, answer, version, commits>>
  BY DEF Finish, store, previews, attempts
<1>3. TypeInv'
  <2>1. TypeLocks'
    BY DEF IInv, TypeInv, TypeLocks, Finish, Empty
  <2>2. TypeStore' /\ TypePreviews' /\ TypeAttempts'
    BY DEF IInv, TypeInv, TypeStore, TypePreviews, TypeAttempts, Finish, store, previews, attempts
  <2> QED
    BY <2>1, <2>2 DEF TypeInv
<1>4. Begun' /\ Asked' /\ Held' /\ NoStrandedReservation'
  BY <1>1, <1>2 DEF IInv, Begun, Asked, Held, NoStrandedReservation, Empty
<1>5. Placed'
  BY <1>2 DEF IInv, Placed, Empty
<1>6. RecordedOnce'
  <2> SUFFICES ASSUME NEW i \in 1..Len(commits), NEW t, t = commits[i].token, kind[t] # "skill"
               PROVE  t \notin dropped' /\ slot'[kind[t]].token # t
    BY <1>2, CommitOf DEF RecordedOnce
  <2>1. t \in Previews /\ kind[t] \in Registries /\ t \notin dropped
    BY CommitOf DEF IInv, RecordedOnce
  <2>2. ASSUME NEW r \in Registries, t = slot[r].token PROVE FALSE
    <3>1. kind[t] = r
      BY <2>1, <2>2 DEF IInv, Placed
    <3> QED
      BY <1>1, <2>2, <3>1 DEF IInv, RecordedOnce, Working
  <2> QED
    BY <1>2, <2>1, <2>2 DEF Empty
<1> QED
  BY <1>2, <1>3, <1>4, <1>5, <1>6, RecordingKept, InvParts DEF Reserving

-----------------------------------------------------------------------------
(* A reservation: the place holds the review, under a lock that is free or  *)
(* the attempt's own.                                                       *)
LEMMA ReserveInv ==
    ASSUME IInv, NEW k \in Attempts, Reserve(k)
    PROVE  IInv'
<1> USE ReviewsAssumption
<1> DEFINE r == kind[token[k]]
<1>1. /\ token[k] \in Previews /\ r \in Registries /\ Registry(k) = r
      /\ apc[k] = "inside" /\ op[r] \in {None, k} /\ command[k] \in Commands
  BY ReviewOf DEF IInv, Asked, Reserve, Reviewed, Registry
<1>2. CASE ~Fits(k)
  <2>1. Leave(k, "Unavailable", TRUE) /\ UNCHANGED <<slot, dropped>>
    BY <1>2 DEF Reserve
  <2>2. Moved(k)
    BY <1>1, <2>1, LeaveMoves DEF Reserve, Before, Answers, store
  <2> QED
    BY <2>1, <2>2, MovedKept
<1>3. CASE Fits(k)
  <2>1. /\ slot' = [slot EXCEPT ![r].state = "reserved", ![r].owner = command[k]]
        /\ op' = [op EXCEPT ![r] = k] /\ Move(k, "reserved") /\ dropped' = dropped
        /\ slot[r].state = "available" /\ slot[r].token = token[k] /\ asShown[k]
        /\ UNCHANGED <<version, commits, receipts, ppc, kind, object, base>>
    BY <1>1, <1>3 DEF Reserve, Fits, store, previews
  <2>2. /\ slot'[r].state = "reserved" /\ slot'[r].token = token[k] /\ slot'[r].owner = command[k]
        /\ slot' \in [Registries -> Slots] /\ \A q \in Registries \ {r} : slot'[q] = slot[q]
    BY <1>1, <2>1 DEF IInv, TypeInv, TypeLocks, Slots
  <2>0. ppc' = ppc /\ kind' = kind /\ commits' = commits /\ dropped' = dropped
    BY <2>1
  <2>3. /\ apc' = [apc EXCEPT ![k] = "reserved"] /\ apc'[k] = "reserved"
        /\ UNCHANGED <<command, token, asShown, answer>>
        /\ \A j \in Attempts \ {k} : apc'[j] = apc[j]
    BY <2>1 DEF IInv, TypeInv, TypeAttempts, Move
  <2> HIDE DEF r
  <2>4. TypeInv'
    <3>1. TypeLocks'
      BY <1>1, <2>1, <2>2 DEF IInv, TypeInv, TypeLocks, Slots
    <3>2. TypeStore' /\ TypePreviews' /\ TypeAttempts'
      BY <2>1, <2>3 DEF IInv, TypeInv, TypeStore, TypePreviews, TypeAttempts, Places
    <3> QED
      BY <3>1, <3>2 DEF TypeInv
  <2>5. Begun' /\ Asked'
    BY <1>1, <2>1, <2>3 DEF IInv, Begun, Asked
  <2>6. Placed'
    BY <1>1, <2>1, <2>2 DEF IInv, Placed
  <2>7. Held'
    <3>1. ASSUME NEW j \in Attempts, apc[j] \in Working
          PROVE  /\ token[j] # None /\ asShown[j] /\ op[kind[token[j]]] = j
                 /\ kind[token[j]] # r /\ kind[token[j]] \in Registries
                 /\ \/ ReservedFor(slot[kind[token[j]]], j)
                    \/ kind[token[j]] = "skill" /\ slot["skill"] = Empty
      <4>1. token[j] # None /\ op[kind[token[j]]] = j /\ j # k
        BY <1>1, <3>1 DEF IInv, Held, Working
      <4> QED
        BY <1>1, <3>1, <4>1, ReviewOf DEF IInv, Held
    <3>2. ASSUME NEW j \in Attempts \ {k}, apc'[j] \in Working
          PROVE  /\ token[j] # None /\ asShown[j] /\ op'[kind[token[j]]] = j
                 /\ \/ ReservedFor(slot'[kind[token[j]]], j)
                    \/ kind[token[j]] = "skill" /\ slot'["skill"] = Empty
      BY <2>1, <2>2, <2>3, <3>1, <3>2 DEF IInv, TypeInv, TypeLocks
    <3>3. token[k] # None /\ asShown[k] /\ op'[r] = k /\ ReservedFor(slot'[r], k)
      BY <1>1, <2>1, <2>2 DEF IInv, TypeInv, TypeLocks, ReservedFor, Slots
    <3> QED
      BY <2>0, <2>3, <3>2, <3>3 DEF Held, ReservedFor, r
  <2>8. RecordedOnce'
    <3>1. \A j \in Attempts : apc[j] = "committed" => apc'[j] = "committed"
      BY <1>1, <2>3
    <3>2. \A q \in Registries : slot'[q].token = slot[q].token
      BY <2>1, <2>2
    <3> SUFFICES ASSUME NEW i \in 1..Len(commits), NEW t, t = commits[i].token, kind[t] # "skill"
                 PROVE  /\ t \notin dropped
                        /\ slot'[kind[t]].token = t =>
                             \E j \in Attempts : apc'[j] = "committed" /\ token[j] = t
      BY <2>0, <2>3, CommitOf DEF RecordedOnce
    <3>3. kind[t] \in Registries
      BY CommitOf
    <3> QED
      BY <3>1, <3>2, <3>3 DEF IInv, RecordedOnce
  <2>9. NoStrandedReservation'
    <3> SUFFICES ASSUME NEW q \in Registries, slot'[q].state = "reserved"
                 PROVE  \E j \in Attempts :
                          /\ command[j] = slot'[q].owner /\ token[j] = slot'[q].token
                          /\ \/ apc'[j] \in {"reserved", "committed"}
                             \/ answer[j] = "Panicked" /\ q # "memory"
      BY <2>3 DEF NoStrandedReservation
    <3>1. CASE q = r
      BY <2>2, <2>3, <3>1
    <3>2. CASE q # r
      BY <1>1, <2>2, <2>3, <3>2 DEF IInv, NoStrandedReservation
    <3> QED
      BY <3>1, <3>2
  <2> QED
    BY <2>1, <2>4, <2>5, <2>6, <2>7, <2>8, <2>9, RecordingKept, InvParts DEF Reserving
<1> QED
  BY <1>2, <1>3

-----------------------------------------------------------------------------
(* A commit appends its change to the record, on the version that counts    *)
(* the earlier changes of its object.                                       *)
LEMMA ChangesFinite ==
    ASSUME NEW o \in Objects, TypeStore
    PROVE  IsFiniteSet(ChangesOf(o)) /\ Len(commits) + 1 \notin ChangesOf(o)
<1>1. Len(commits) \in Nat
  BY DEF TypeStore
<1>2. IsFiniteSet(1..Len(commits))
  BY <1>1, FS_Interval
<1>3. ChangesOf(o) \subseteq 1..Len(commits)
  BY DEF ChangesOf
<1> QED
  BY <1>1, <1>2, <1>3, FS_Subset

(* The change is appended and counted. *)
LEMMA CommitRecords ==
    ASSUME IInv, NEW k \in Attempts, Commit(k)
    PROVE  TypeStore' /\ Recording'
<1> DEFINE o == object[token[k]]
           n == Len(commits) + 1
<1>1. /\ token[k] \in Previews /\ o \in Objects /\ asShown[k] /\ command[k] \in Commands
      /\ version[o] = base[token[k]] /\ base[token[k]] \in Nat
  <2>1. token[k] # None /\ asShown[k]
    BY DEF IInv, Held, Commit, Working
  <2>2. command[k] \in Commands
    BY DEF IInv, Asked, Commit
  <2> QED
    BY <2>1, <2>2, ReviewOf DEF IInv, TypeInv, TypePreviews, Commit
<1>2. Change(k) \in Changes /\ Change(k).object = o /\ Change(k).base = version[o] /\ Change(k).asShown
  BY <1>1 DEF Change, Changes, IInv, TypeInv, TypeAttempts
<1>3. /\ commits \in Seq(Changes) /\ Len(commits) \in Nat
      /\ commits' = Append(commits, Change(k))
      /\ version \in [Objects -> Nat] /\ version' = [version EXCEPT ![o] = @ + 1]
  BY DEF IInv, TypeInv, TypeStore, Commit
<1> HIDE DEF o
<1>4. /\ commits' \in Seq(Changes) /\ Len(commits') = n /\ commits'[n] = Change(k)
      /\ \A i \in 1..Len(commits) : commits'[i] = commits[i]
  BY <1>2, <1>3
<1>5. TypeStore'
  <2>1. receipts' \in [Commands -> [token : Previews \cup {None}, asShown : BOOLEAN,
                                   verdict : {"None", "Success", "Denied"}]]
    BY <1>1 DEF IInv, TypeInv, TypeStore, TypeAttempts, Commit, Remember
  <2>2. version' \in [Objects -> Nat]
    BY <1>1, <1>3
  <2> QED
    BY <1>4, <2>1, <2>2 DEF TypeStore
<1>6. Counted'
  <2> SUFFICES ASSUME NEW p \in Objects PROVE version'[p] = Cardinality(ChangesOf(p)')
    BY DEF Counted
  <2>1. CASE p = o
    <3>1. ChangesOf(p)' = ChangesOf(p) \cup {n}
      BY <1>2, <1>3, <1>4, <2>1 DEF ChangesOf
    <3>2. Cardinality(ChangesOf(p) \cup {n}) = Cardinality(ChangesOf(p)) + 1
      BY ChangesFinite, FS_AddElement DEF IInv, TypeInv
    <3> QED
      BY <1>3, <2>1, <3>1, <3>2 DEF IInv, Counted
  <2>2. CASE p # o
    <3>1. ChangesOf(p)' = ChangesOf(p)
      BY <1>2, <1>3, <1>4, <2>2 DEF ChangesOf
    <3> QED
      BY <1>3, <2>2, <3>1 DEF IInv, Counted
  <2> QED
    BY <2>1, <2>2
<1>7. NothingUnseenIsOverwritten'
  <2> SUFFICES ASSUME NEW i \in 1..n
               PROVE  /\ commits'[i].asShown
                      /\ commits'[i].base =
                           Cardinality({j \in 1..(i - 1) : commits'[j].object = commits'[i].object})
    BY <1>4 DEF NothingUnseenIsOverwritten
  <2>1. CASE i = n
    <3>1. {j \in 1..(i - 1) : commits'[j].object = commits'[i].object} = ChangesOf(o)
      BY <1>2, <1>3, <1>4, <2>1 DEF ChangesOf
    <3> QED
      BY <1>1, <1>2, <1>4, <2>1, <3>1 DEF IInv, Counted
  <2>2. CASE i # n
    <3>1. i \in 1..Len(commits)
      BY <1>3, <2>2
    <3>2. {j \in 1..(i - 1) : commits'[j].object = commits'[i].object}
            = {j \in 1..(i - 1) : commits[j].object = commits[i].object}
      BY <1>3, <1>4, <3>1
    <3> QED
      BY <1>4, <3>1, <3>2 DEF IInv, NothingUnseenIsOverwritten
  <2> QED
    BY <2>1, <2>2
<1> QED
  BY <1>5, <1>6, <1>7 DEF Recording

(* ... and the attempt keeps its lock and its place. *)
LEMMA CommitInv ==
    ASSUME IInv, NEW k \in Attempts, Commit(k)
    PROVE  IInv'
<1> USE ReviewsAssumption
<1>1. /\ UNCHANGED <<op, slot, dropped, ppc, kind, object, base, command, token, asShown, answer>>
      /\ apc[k] = "reserved" /\ apc'[k] = "committed"
      /\ \A j \in Attempts \ {k} : apc'[j] = apc[j]
  BY DEF IInv, TypeInv, TypeAttempts, Commit, Move, previews
<1>2. TypeInv'
  <2>1. TypeLocks' /\ TypePreviews'
    BY <1>1 DEF IInv, TypeInv, TypeLocks, TypePreviews
  <2>2. TypeAttempts'
    BY DEF IInv, TypeInv, TypeAttempts, Places, Commit, Move
  <2> QED
    BY <2>1, <2>2, CommitRecords DEF TypeInv
<1>3. Begun' /\ Asked' /\ Placed'
  BY <1>1 DEF IInv, Begun, Asked, Placed
<1>4. Held'
  BY <1>1 DEF IInv, Held, Working, ReservedFor
<1>5. NoStrandedReservation'
  BY <1>1 DEF IInv, NoStrandedReservation
<1>6. RecordedOnce'
  <2>1. /\ commits \in Seq(Changes) /\ commits' = Append(commits, Change(k))
        /\ Change(k).token = token[k]
    BY DEF IInv, TypeInv, TypeStore, Commit, Change
  <2>2. /\ token[k] \in Previews /\ ppc[token[k]] = "shown" /\ kind[token[k]] \in Registries
        /\ kind[token[k]] # "skill" => slot[kind[token[k]]].token = token[k]
    BY <1>1, ReviewOf DEF IInv, Held, Working, ReservedFor
  <2>3. token[k] \notin dropped \/ kind[token[k]] = "skill"
    BY <2>2 DEF IInv, Placed
  <2> SUFFICES ASSUME NEW i \in 1..Len(commits'), NEW t, t = commits'[i].token
               PROVE  /\ ppc[t] = "shown"
                      /\ kind[t] # "skill" =>
                           /\ t \notin dropped
                           /\ slot[kind[t]].token = t =>
                                \E j \in Attempts : apc'[j] = "committed" /\ token[j] = t
    BY <1>1 DEF RecordedOnce
  <2>4. CASE i = Len(commits) + 1
    <3>1. t = token[k]
      BY <2>1, <2>4
    <3> QED
      BY <1>1, <2>2, <2>3, <3>1
  <2>5. CASE i # Len(commits) + 1
    <3>1. i \in 1..Len(commits) /\ commits'[i] = commits[i]
      BY <2>1, <2>5
    <3>2. \A j \in Attempts : apc[j] = "committed" => apc'[j] = "committed"
      BY <1>1
    <3> QED
      BY <3>1, <3>2 DEF IInv, RecordedOnce
  <2> QED
    BY <2>4, <2>5
<1> QED
  BY <1>2, <1>3, <1>4, <1>5, <1>6, CommitRecords, InvParts DEF Reserving

-----------------------------------------------------------------------------
(* Every step, and every stutter, keeps the invariant. *)
LEMMA NextInv == IInv /\ [Next]_vars => IInv'
<1> SUFFICES ASSUME IInv, [Next]_vars PROVE IInv'
  OBVIOUS
<1>1. CASE \E p \in Previews, r \in Kinds, o \in Objects : BeginPreview(p, r, o)
  BY <1>1, BeginPreviewInv
<1>2. ASSUME NEW p \in Previews, Preview(p) PROVE IInv'
  BY <1>2, LockPreviewInv, ViewInv, RegisterInv, PreviewFailsInv DEF Preview
<1>3. ASSUME NEW k \in Attempts, NEW c \in Commands, NEW t \in Previews \cup {None},
             NEW same \in BOOLEAN, Begin(k, c, t, same)
      PROVE  IInv'
  BY <1>3, BeginInv
<1>4. ASSUME NEW k \in Attempts, Execute(k) PROVE IInv'
  <2>1. CASE \/ Lookup(k) \/ LockOperation(k) \/ Contention(k) \/ BeginTransaction(k)
            \/ Refuse(k) \/ CommitShutdown(k)
    BY <2>1, LookupInv, LockOperationInv, ContentionInv, BeginTransactionInv, RefuseInv,
       CommitShutdownInv
  <2>2. CASE Reserve(k) \/ Commit(k) \/ Settle(k)
    BY <2>2, ReserveInv, CommitInv, SettleInv
  <2>3. CASE ClearAfterFailure(k) \/ CancelProfile(k) \/ CancelSkill(k) \/ CancelMemory(k)
    BY <2>3, ClearsInv
  <2>4. CASE \E terminal \in BOOLEAN : InsideFails(k, terminal) \/ ReservedFails(k, terminal)
    BY <2>4, InsideFailsInv, ReservedFailsInv
  <2> QED
    BY <1>4, <2>1, <2>2, <2>3, <2>4 DEF Execute
<1>5. ASSUME NEW k \in Attempts, Panic(k) PROVE IInv'
  BY <1>5, PanicInv
<1>6. CASE (\E r \in Kinds : Cancel(r)) \/ RequestFinish \/ Finish
  BY <1>6, CancelInv, RequestFinishInv, FinishInv
<1>7. CASE UNCHANGED vars
  <2>1. UNCHANGED <<op, slot, dropped, version, receipts, commits, ppc, kind, object, base,
                    apc, command, token, asShown, answer>>
    BY <1>7 DEF vars, store, previews, attempts
  <2>2. TypeInv' /\ Begun' /\ Asked'
    BY <2>1 DEF IInv, TypeInv, TypeLocks, TypeStore, TypePreviews, TypeAttempts, Begun, Asked
  <2>3. Undisturbed
    BY <2>1 DEF Undisturbed
  <2> QED
    BY <2>1, <2>2, <2>3, KeptStep, InvParts
<1> QED
  BY <1>1, <1>2, <1>3, <1>4, <1>5, <1>6, <1>7 DEF Next

(* All reachable states satisfy the inductive invariant. *)
THEOREM Invariance == Spec => []IInv
BY InitInv, NextInv, PTL DEF Spec

(* The types of the state, for any previews, attempts and commands.         *)
THEOREM Typed == Spec => []TypeInv
<1>1. IInv => TypeInv
  BY DEF IInv
<1> QED
  BY <1>1, Invariance, PTL

(* Every recorded change is the one its review showed, made on the version  *)
(* it was shown for (commit and the version check in the service).          *)
THEOREM NothingUnseenIsEverOverwritten == Spec => []NothingUnseenIsOverwritten
<1>1. IInv => NothingUnseenIsOverwritten
  BY DEF IInv
<1> QED
  BY <1>1, Invariance, PTL

(* A profile or memory review that was cancelled or replaced is never       *)
(* recorded, however its cancel races its confirmation.                     *)
THEOREM DroppedIsNeverEverRecorded == Spec => []DroppedIsNeverRecorded
<1>1. IInv => DroppedIsNeverRecorded
  <2> SUFFICES ASSUME IInv, NEW t \in dropped, kind[t] # "skill", NEW i \in 1..Len(commits),
                      commits[i].token = t
               PROVE  FALSE
    BY DEF DroppedIsNeverRecorded, Recorded
  <2> QED
    BY DEF IInv, RecordedOnce
<1> QED
  BY <1>1, Invariance, PTL

(* A place stays reserved only while an attempt of that command works on    *)
(* it; only a panic strands one, and never a memory review.                 *)
THEOREM NoReservationIsStranded == Spec => []NoStrandedReservation
<1>1. IInv => NoStrandedReservation
  BY DEF IInv
<1> QED
  BY <1>1, Invariance, PTL

=============================================================================
