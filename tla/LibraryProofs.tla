---------------------------- MODULE LibraryProofs ----------------------------
(***************************************************************************)
(* What holds of profiles and skills for any of them, any names, any       *)
(* number of changes, reads and restarts and any damage to the tables      *)
(* while the service is down.                                              *)
(*                                                                         *)
(* The stream is never damaged.  So the inductive invariant speaks of the  *)
(* stream, and of the tables only while the service serves, or as long as  *)
(* nobody damaged them: the compiled-in versions and those of the stream   *)
(* are chained, no two active ones share a name, pins name what is there,  *)
(* and every recorded outcome can be made again from tables that say what  *)
(* the stream says.                                                        *)
(***************************************************************************)
EXTENDS Library, FunctionTheorems, FiniteSetTheorems, TLAPS

New == Len(log) + 1

KnownSkills == Manifests \cup ProjectedSkills(Len(log))

KnownProfiles == ProjectedProfiles(Len(log))

(* The stream, read through tables that say what it says *)
Truth == INSTANCE Library WITH skillRows <- KnownSkills, activeSkills <- Active(KnownSkills)

ReadEvents ==
    {"SkillsListed", "SkillViewed", "SkillHistoryViewed", "SkillVersionViewed",
     "AgentProfilesListed", "AgentProfileViewed", "AgentProfileHistoryViewed",
     "AgentProfileVersionViewed"}

LogIsKept ==
    /\ \E S : log \in Seq(S)
    /\ \A i \in 1..Len(log) : log[i].event.type \in Writes \cup ReadEvents
    /\ \E S : answers \in Seq(S)
    /\ Len(answers) = Len(log)

IsSkill(v) ==
    /\ v = [id |-> v.id, version |-> v.version, name |-> v.name, text |-> v.text]
    /\ v.version \in Nat \ {0}

(* One line of versions for each skill *)
SkillsAreChained ==
    /\ \A v \in KnownSkills : IsSkill(v)
    /\ \A v, w \in KnownSkills : v.id = w.id /\ v.version = w.version => v = w
    /\ ValidHistories(KnownSkills)

NotShared(active) == \A v, w \in active : v.name = w.name => v.id = w.id

NamesAreOwned == NotShared(Active(KnownSkills)) /\ NotShared(Active(KnownProfiles))

PinsAreKnown ==
    \A profile \in KnownProfiles : profile.pins \subseteq KnownSkills /\ WellPinned(profile.pins)

(* What undamaged tables say of the stream: before the first start, nothing *)
Untouched ==
    /\ damages \in Nat
    /\ damages = 0 =>
         skillRows \cup Manifests = KnownSkills /\ profileRows \subseteq KnownProfiles

Repeatable ==
    \A i \in 1..Len(log) : EditedSince(i) \/ (Truth!Stands(i) /\ View(i) = answers[i])

IInv ==
    /\ LogIsKept /\ SkillsAreChained /\ NamesAreOwned /\ PinsAreKnown /\ Untouched
    /\ RowsTellTheStream /\ UndamagedStartupIsAccepted /\ Repeatable

-----------------------------------------------------------------------------
(* The compiled-in skills *)

LEMMA SmallerFits ==
  ASSUME NEW S, NEW T, IsFiniteSet(S), IsFiniteSet(T), Cardinality(S) <= Cardinality(T)
  PROVE  \E f \in [S -> T] : IsInjective(f)
<1> DEFINE m == Cardinality(S)
           n == Cardinality(T)
<1>1. m \in Nat /\ n \in Nat /\ ExistsBijection(1..m, S) /\ ExistsBijection(1..n, T)
  BY FS_CardinalityType
<1>2. PICK count \in [1..m -> S] : \A s \in S : \E i \in 1..m : count[i] = s
  BY <1>1 DEF ExistsBijection, Bijection, Surjection
<1>3. PICK place \in [1..n -> T] : \A i, j \in 1..n : place[i] = place[j] => i = j
  BY <1>1 DEF ExistsBijection, Bijection, Injection, IsInjective
<1> DEFINE number == [s \in S |-> CHOOSE i \in 1..m : count[i] = s]
           f == [s \in S |-> place[number[s]]]
<1>4. \A s \in S : number[s] \in 1..n /\ count[number[s]] = s
  BY <1>1, <1>2
<1> HIDE DEF number
<1>5. f \in [S -> T]
  BY <1>3, <1>4
<1>6. \A a, b \in S : f[a] = f[b] => a = b
  BY <1>3, <1>4
<1> QED
  BY <1>5, <1>6 DEF IsInjective

LEMMA BuiltInNames ==
  /\ BuiltInName \in [BuiltIns -> Names]
  /\ \A a, b \in BuiltIns : BuiltInName[a] = BuiltInName[b] => a = b
<1>1. IsFiniteSet(BuiltIns)
  BY LibraryAssumption, FS_Subset
<1>2. \E f \in [BuiltIns -> Names] : IsInjective(f)
  BY <1>1, LibraryAssumption, SmallerFits
<1>3. BuiltInName \in [BuiltIns -> Names] /\ IsInjective(BuiltInName)
  BY <1>2 DEF BuiltInName
<1> QED
  BY <1>3 DEF IsInjective

LEMMA ManifestsAre ==
  /\ \A m \in Manifests : m.id \in BuiltIns /\ m.version = 1 /\ m.name = BuiltInName[m.id]
  /\ \A m, n \in Manifests : m.id = n.id => m = n
  /\ NotShared(Manifests)
  /\ Active(Manifests) = Manifests
<1>1. \A m \in Manifests : m.id \in BuiltIns /\ m.version = 1 /\ m.name = BuiltInName[m.id]
  BY DEF Manifests
<1>2. \A m, n \in Manifests : m.id = n.id => m = n
  <2>1. PICK text : text = CHOOSE t \in Texts : TRUE
    OBVIOUS
  <2>2. Manifests = {[id |-> b, version |-> 1, name |-> BuiltInName[b], text |-> text] :
                       b \in BuiltIns}
    BY <2>1 DEF Manifests
  <2> QED
    BY <2>2
<1>3. NotShared(Manifests)
  BY <1>1, BuiltInNames DEF NotShared
<1>4. Active(Manifests) = Manifests
  BY <1>1 DEF Active, HistoryOf
<1> QED
  BY <1>1, <1>2, <1>3, <1>4

-----------------------------------------------------------------------------
(* One more event *)

LEMMA Appends ==
  ASSUME LogIsKept, NEW entry, log' = Append(log, entry)
  PROVE  /\ \E S : log' \in Seq(S)
         /\ Len(log) \in Nat /\ New \in Nat /\ Len(log') = New
         /\ 1..Len(log') = (1..Len(log)) \cup {New} /\ New \notin 1..Len(log)
         /\ \A i \in 1..Len(log) : log'[i] = log[i]
         /\ log'[New] = entry
<1>1. PICK S : log \in Seq(S)
  BY DEF LogIsKept
<1>2. log \in Seq(S \cup {entry}) /\ entry \in S \cup {entry}
  BY <1>1
<1>3. log' \in Seq(S \cup {entry})
  BY <1>2
<1>4. Len(log) \in Nat /\ Len(log') = New
  BY <1>1, <1>2 DEF New
<1>5. /\ \A i \in 1..Len(log) : log'[i] = log[i]
      /\ log'[New] = entry
  BY <1>2 DEF New
<1> QED
  BY <1>3, <1>4, <1>5 DEF New

LEMMA PrefixStays ==
  ASSUME LogIsKept, NEW entry, log' = Append(log, entry), NEW n \in 0..Len(log), NEW types
  PROVE  RecordedBy(types, n)' = RecordedBy(types, n)
<1>1. Len(log) \in Nat /\ \A i \in 1..Len(log) : log'[i] = log[i]
  BY Appends
<1>2. 1..n \subseteq 1..Len(log)
  BY <1>1
<1> QED
  BY <1>1, <1>2 DEF RecordedBy

(* What the events of some types made *)
LEMMA RecordGrows ==
  ASSUME LogIsKept, NEW entry, log' = Append(log, entry), NEW types
  PROVE  {log'[i].event.made : i \in {j \in 1..Len(log') : log'[j].event.type \in types}} =
           {log[i].event.made : i \in {j \in 1..Len(log) : log[j].event.type \in types}}
             \cup (IF entry.event.type \in types THEN {entry.event.made} ELSE {})
BY Appends

LEMMA KnownGrows ==
  ASSUME LogIsKept, NEW request, NEW event, Commit(request, event)
  PROVE  /\ KnownSkills' = KnownSkills \cup (IF event.type \in SkillEvents THEN {event.made} ELSE {})
         /\ KnownProfiles' =
              KnownProfiles \cup (IF event.type \in ProfileEvents THEN {event.made} ELSE {})
<1> DEFINE entry == [request |-> request, event |-> event]
<1>1. log' = Append(log, entry) /\ entry.event = event
  BY DEF Commit
<1>2. PICK skills : skills = SkillEvents
  OBVIOUS
<1>3. PICK profiles : profiles = ProfileEvents
  OBVIOUS
<1> HIDE DEF entry
<1>4. KnownSkills' = KnownSkills \cup (IF event.type \in SkillEvents THEN {event.made} ELSE {})
  BY <1>1, <1>2, RecordGrows DEF KnownSkills, ProjectedSkills, RecordedBy
<1>5. KnownProfiles' =
        KnownProfiles \cup (IF event.type \in ProfileEvents THEN {event.made} ELSE {})
  BY <1>1, <1>3, RecordGrows DEF KnownProfiles, ProjectedProfiles, RecordedBy
<1> QED
  BY <1>4, <1>5

LEMMA KindsDiffer ==
  SkillEvents \cap ProfileEvents = {} /\ ReadEvents \cap (SkillEvents \cup ProfileEvents) = {}
BY DEF SkillEvents, ProfileEvents, PinEvents, ReadEvents

-----------------------------------------------------------------------------
(* Every command records one entry: a version of a skill, a version of a    *)
(* profile, or what was read.                                               *)

SkillFollows(skill) ==
    /\ IsSkill(skill)
    /\ skill.version = 1 \/ \E w \in KnownSkills :
         /\ w.id = skill.id /\ w.version = skill.version - 1
         /\ <<w.name, w.text>> # <<skill.name, skill.text>>

LEMMA NextSkillIs ==
  ASSUME NEW current, IsSkill(current), NEW name, NEW text
  PROVE  NextSkill(current, name, text) =
           [id |-> current.id, version |-> current.version + 1, name |-> name, text |-> text]
<1> DEFINE c == [id |-> current.id, version |-> current.version, name |-> current.name,
                 text |-> current.text]
<1>1. NextSkill(current, name, text) =
        [c EXCEPT !.version = @ + 1, !.name = name, !.text = text]
  BY DEF NextSkill, IsSkill
<1>2. ASSUME NEW t, t = [c EXCEPT !.version = @ + 1, !.name = name, !.text = text]
      PROVE  t = [id |-> current.id, version |-> current.version + 1, name |-> name,
                  text |-> text]
  BY <1>2
<1> QED
  BY <1>1, <1>2

LEMMA ServingTables ==
  ASSUME RowsTellTheStream, Loaded
  PROVE  /\ service = "serving"
         /\ skillRows = KnownSkills /\ profileRows = KnownProfiles
         /\ activeSkills = Active(KnownSkills) /\ activeProfiles = Active(KnownProfiles)
BY DEF Loaded, RowsTellTheStream, KnownSkills, KnownProfiles

LEMMA SkillsAreRecorded ==
  ASSUME IInv, WriteSkill
  PROVE  \E skill, base : \E type \in SkillEvents :
           RecordSkill(type, skill, base) /\ SkillFollows(skill) /\ Loaded
<1>1. PICK id \in Skills, name \in Names, text \in Texts :
        CreateSkill(id, name, text) \/ ActivateSkillVersion(id, name, text)
  BY DEF WriteSkill
<1>2. Loaded /\ skillRows = KnownSkills
  BY ServingTables DEF WriteSkill, MayWrite, IInv
<1>3. CASE CreateSkill(id, name, text)
  <2>1. RecordSkill("SkillCreated", NewSkill(id, name, text), 0)
    BY <1>3 DEF CreateSkill
  <2>2. SkillFollows(NewSkill(id, name, text))
    BY DEF SkillFollows, IsSkill, NewSkill
  <2> QED
    BY <1>2, <2>1, <2>2 DEF SkillEvents
<1>4. CASE ActivateSkillVersion(id, name, text)
  <2>1. PICK current \in ActiveSkill(id) :
          /\ ~SkillUnchanged(current, name, text)
          /\ RecordSkill("SkillVersionActivated", NextSkill(current, name, text),
                         current.version)
    BY <1>4 DEF ActivateSkillVersion
  <2>2. current \in KnownSkills /\ IsSkill(current)
    BY <1>2 DEF ActiveSkill, IInv, SkillsAreChained
  <2>3. NextSkill(current, name, text) =
          [id |-> current.id, version |-> current.version + 1, name |-> name, text |-> text]
    BY <2>2, NextSkillIs
  <2>4. SkillFollows(NextSkill(current, name, text))
    BY <2>1, <2>2, <2>3 DEF SkillFollows, IsSkill, SkillUnchanged
  <2> QED
    BY <1>2, <2>1, <2>4 DEF SkillEvents
<1> QED
  BY <1>1, <1>3, <1>4

LEMMA ActivationsAreRecorded ==
  ASSUME NEW type \in ProfileEvents, NEW id, NEW name, NEW pins,
         ActivateProfileAs(type, id, name, pins)
  PROVE  \E profile, base :
           /\ RecordProfile(type, profile, base)
           /\ NameFree(Active(KnownProfiles), profile.id, profile.name)
BY DEF ActivateProfileAs, ActivatesProfile, KnownProfiles

LEMMA ProfilesAreRecorded ==
  ASSUME IInv, WriteProfile
  PROVE  \E profile, base : \E type \in ProfileEvents :
           /\ RecordProfile(type, profile, base) /\ Loaded
           /\ NameFree(Active(KnownProfiles), profile.id, profile.name)
<1>1. Loaded
  BY DEF WriteProfile, MayWrite
<1>2. ASSUME NEW id, NEW name, NEW pins, CreateAgentProfile(id, name, pins)
      PROVE  \E profile, base : \E type \in ProfileEvents :
               /\ RecordProfile(type, profile, base)
               /\ NameFree(Active(KnownProfiles), profile.id, profile.name)
  <2>1. /\ RecordProfile("AgentProfileCreated", NewProfile(id, name, pins), 0)
        /\ NameFree(Active(KnownProfiles), NewProfile(id, name, pins).id,
                    NewProfile(id, name, pins).name)
    BY <1>2 DEF CreateAgentProfile, CreatesProfile, KnownProfiles
  <2> QED
    BY <2>1 DEF ProfileEvents
<1>3. ASSUME NEW type \in ProfileEvents, NEW id, NEW name, NEW pins,
             ActivateProfileAs(type, id, name, pins)
      PROVE  \E profile, base : \E kind \in ProfileEvents :
               /\ RecordProfile(kind, profile, base)
               /\ NameFree(Active(KnownProfiles), profile.id, profile.name)
  BY <1>3, ActivationsAreRecorded
<1>4. {"AgentProfileVersionActivated", "AgentSkillAssigned", "AgentSkillUpgraded",
       "AgentSkillUnassigned"} \subseteq ProfileEvents
  BY DEF ProfileEvents, PinEvents
<1>5. ASSUME NEW name \in Names, NEW pins \in Drafts, NEW id \in Profiles,
             CreateAgentProfile(id, name, pins) \/ ActivateAgentProfileVersion(id, name, pins)
      PROVE  \E profile, base : \E type \in ProfileEvents :
               /\ RecordProfile(type, profile, base)
               /\ NameFree(Active(KnownProfiles), profile.id, profile.name)
  BY <1>2, <1>3, <1>4, <1>5 DEF ActivateAgentProfileVersion
<1>6. ASSUME NEW current, NEW skill,
             \/ AssignAgentSkill(current, skill) \/ UnassignAgentSkill(current, skill)
             \/ \E replacement \in skillRows : UpgradeAgentSkill(current, skill, replacement)
      PROVE  \E profile, base : \E type \in ProfileEvents :
               /\ RecordProfile(type, profile, base)
               /\ NameFree(Active(KnownProfiles), profile.id, profile.name)
  <2>1. CASE AssignAgentSkill(current, skill)
    BY <1>3, <1>4, <2>1 DEF AssignAgentSkill
  <2>2. CASE UnassignAgentSkill(current, skill)
    BY <1>3, <1>4, <2>2 DEF UnassignAgentSkill
  <2>3. ASSUME NEW replacement \in skillRows, UpgradeAgentSkill(current, skill, replacement)
        PROVE  \E profile, base : \E type \in ProfileEvents :
                 /\ RecordProfile(type, profile, base)
                 /\ NameFree(Active(KnownProfiles), profile.id, profile.name)
    BY <1>3, <1>4, <2>3 DEF UpgradeAgentSkill
  <2> QED
    BY <1>6, <2>1, <2>2, <2>3
<1>7. \E profile, base : \E type \in ProfileEvents :
        /\ RecordProfile(type, profile, base)
        /\ NameFree(Active(KnownProfiles), profile.id, profile.name)
  BY <1>5, <1>6 DEF WriteProfile
<1> QED
  BY <1>1, <1>7

LEMMA ReadsAreRecorded ==
  ASSUME ReadSomething
  PROVE  \E request, event :
           Read(request, event) /\ event.type \in ReadEvents /\ Loaded
<1>1. Loaded
  BY DEF ReadSomething, MayRead
<1> DEFINE Recording == \E request, event : Read(request, event) /\ event.type \in ReadEvents
<1> HIDE DEF Recording
<1>2. ASSUME ListSkills PROVE Recording
  BY <1>2 DEF ListSkills, ReadEvents, Recording
<1>3. ASSUME ListAgentProfiles PROVE Recording
  BY <1>3 DEF ListAgentProfiles, ReadEvents, Recording
<1>4. ASSUME NEW selector, ShowSkill(selector) PROVE Recording
  BY <1>4 DEF ShowSkill, ReadEvents, Recording
<1>5. ASSUME NEW selector, ShowSkillHistory(selector) PROVE Recording
  BY <1>5 DEF ShowSkillHistory, HistoryEvent, ReadEvents, Recording
<1>6. ASSUME NEW selector, ShowAgentProfile(selector) PROVE Recording
  BY <1>6 DEF ShowAgentProfile, ReadEvents, Recording
<1>7. ASSUME NEW selector, ShowAgentProfileHistory(selector) PROVE Recording
  BY <1>7 DEF ShowAgentProfileHistory, ReadEvents, Recording
<1>8. ASSUME NEW selector, NEW version, ShowSkillVersion(selector, version) PROVE Recording
  BY <1>8 DEF ShowSkillVersion, ReadEvents, Recording
<1>9. ASSUME NEW selector, NEW version, ShowAgentProfileVersion(selector, version)
       PROVE  Recording
  BY <1>9 DEF ShowAgentProfileVersion, ReadEvents, Recording
<1>10. Recording
  BY <1>2, <1>3, <1>4, <1>5, <1>6, <1>7, <1>8, <1>9 DEF ReadSomething
<1> QED
  BY <1>1, <1>10 DEF Recording

-----------------------------------------------------------------------------
(* The tables and the stream after a command *)

Tables ==
    /\ SkillsAreChained /\ NamesAreOwned /\ PinsAreKnown /\ Untouched
    /\ RowsTellTheStream /\ UndamagedStartupIsAccepted

(* One more version makes nothing older active. *)
LEMMA ActiveGrows ==
  ASSUME NEW versions, NEW v
  PROVE  Active(versions \cup {v}) \subseteq Active(versions) \cup {v}
BY DEF Active, HistoryOf

LEMMA NamesStayOwned ==
  ASSUME NEW versions, NEW v, NotShared(Active(versions)),
         NameFree(Active(versions), v.id, v.name)
  PROVE  NotShared(Active(versions \cup {v}))
<1>1. \A x \in Active(versions \cup {v}) : x \in Active(versions) \/ x = v
  BY ActiveGrows
<1>2. \A x, y \in Active(versions) : x.name = y.name => x.id = y.id
  BY DEF NotShared
<1>3. \A x \in Active(versions) : x.name = v.name => x.id = v.id
  BY DEF NameFree
<1> QED
  BY <1>1, <1>2, <1>3 DEF NotShared

LEMMA SkillKeepsTables ==
  ASSUME IInv, NEW type \in SkillEvents, NEW skill, NEW base,
         RecordSkill(type, skill, base), SkillFollows(skill), Loaded
  PROVE  Tables'
<1> DEFINE request == [id |-> skill.id, base |-> base, name |-> skill.name, text |-> skill.text]
           event == [type |-> type, made |-> skill]
<1>1. /\ \A v \in HistoryOf(skillRows, skill.id) : v.version # skill.version
      /\ NameFree(activeSkills, skill.id, skill.name)
      /\ Commit(request, event)
      /\ skillRows' = skillRows \cup {skill}
      /\ activeSkills' = ExpectedActive(Len(log))'
      /\ UNCHANGED profileTables
  BY DEF RecordSkill
<1>2. /\ service = "serving"
      /\ skillRows = KnownSkills /\ profileRows = KnownProfiles
      /\ activeSkills = Active(KnownSkills) /\ activeProfiles = Active(KnownProfiles)
  BY ServingTables DEF IInv
<1>3. KnownSkills' = KnownSkills \cup {skill} /\ KnownProfiles' = KnownProfiles
  <2>1. event.type \in SkillEvents /\ event.type \notin ProfileEvents /\ event.made = skill
    BY KindsDiffer
  <2> HIDE DEF request, event
  <2> QED
    BY <1>1, <2>1, KnownGrows DEF IInv
<1>4. service' = "serving" /\ damages' = damages
  BY <1>1, <1>2 DEF Commit
<1>5. PICK known : known = KnownSkills /\ known \cup {skill} = KnownSkills'
  BY <1>3
<1>6. RowsTellTheStream'
  <2>1. activeSkills' = Active(skillRows)'
    BY <1>1, <1>2, <1>3 DEF ExpectedActive, KnownSkills, Active, HistoryOf
  <2>2. profileRows' = KnownProfiles' /\ activeProfiles' = Active(profileRows)'
    BY <1>1, <1>2, <1>3 DEF profileTables, Active, HistoryOf
  <2> QED
    BY <1>1, <1>2, <1>3, <2>1, <2>2 DEF RowsTellTheStream, KnownSkills, KnownProfiles
<1>7. SkillsAreChained'
  <2>1. \A v \in KnownSkills' : IsSkill(v)
    BY <1>3 DEF IInv, SkillsAreChained, SkillFollows
  <2>2. \A v, w \in KnownSkills' : v.id = w.id /\ v.version = w.version => v = w
    BY <1>1, <1>2, <1>3 DEF IInv, SkillsAreChained, HistoryOf
  <2>3. ValidHistories(known \cup {skill})
    <3>1. ValidHistories(known)
      BY <1>5 DEF IInv, SkillsAreChained
    <3>2. skill.version = 1 \/ \E w \in known :
            /\ w.id = skill.id /\ w.version = skill.version - 1
            /\ <<w.name, w.text>> # <<skill.name, skill.text>>
      BY <1>5 DEF SkillFollows
    <3> QED
      BY <3>1, <3>2 DEF ValidHistories, HistoryOf
  <2>4. ValidHistories(KnownSkills)'
    BY <1>5, <2>3 DEF ValidHistories, HistoryOf
  <2> QED
    BY <2>1, <2>2, <2>4 DEF SkillsAreChained
<1>8. NamesAreOwned'
  <2>1. NotShared(Active(known \cup {skill}))
    BY <1>1, <1>2, <1>5, NamesStayOwned DEF IInv, NamesAreOwned
  <2>2. NotShared(Active(KnownSkills))'
    BY <1>5, <2>1 DEF NotShared, Active, HistoryOf
  <2>3. NotShared(Active(KnownProfiles))'
    BY <1>3 DEF IInv, NamesAreOwned, NotShared, Active, HistoryOf
  <2> QED
    BY <2>2, <2>3 DEF NamesAreOwned
<1>9. PinsAreKnown'
  BY <1>3 DEF IInv, PinsAreKnown
<1>10. Untouched'
  BY <1>1, <1>2, <1>3, <1>4 DEF IInv, Untouched, profileTables, KnownSkills
<1> QED
  BY <1>4, <1>6, <1>7, <1>8, <1>9, <1>10 DEF Tables, UndamagedStartupIsAccepted

LEMMA ProfileKeepsTables ==
  ASSUME IInv, NEW type \in ProfileEvents, NEW profile, NEW base,
         RecordProfile(type, profile, base), Loaded,
         NameFree(Active(KnownProfiles), profile.id, profile.name)
  PROVE  Tables'
<1> DEFINE request == [id |-> profile.id, base |-> base, name |-> profile.name,
                       pins |-> profile.pins]
           event == [type |-> type, made |-> profile]
<1>1. /\ WellPinned(profile.pins) /\ PinsKnown(profile, skillRows)
      /\ Commit(request, event)
      /\ profileRows' = profileRows \cup {profile}
      /\ activeProfiles' = Active(ProjectedProfiles(Len(log)))'
      /\ UNCHANGED skillTables
  BY DEF RecordProfile
<1>2. /\ service = "serving"
      /\ skillRows = KnownSkills /\ profileRows = KnownProfiles
      /\ activeSkills = Active(KnownSkills) /\ activeProfiles = Active(KnownProfiles)
  BY ServingTables DEF IInv
<1>3. KnownSkills' = KnownSkills /\ KnownProfiles' = KnownProfiles \cup {profile}
  <2>1. event.type \notin SkillEvents /\ event.type \in ProfileEvents /\ event.made = profile
    BY KindsDiffer
  <2> HIDE DEF request, event
  <2> QED
    BY <1>1, <2>1, KnownGrows DEF IInv
<1>4. service' = "serving" /\ damages' = damages
  BY <1>1, <1>2 DEF Commit
<1>5. PICK known : known = KnownProfiles /\ known \cup {profile} = KnownProfiles'
  BY <1>3
<1>6. RowsTellTheStream'
  <2>1. skillRows' = KnownSkills' /\ activeSkills' = Active(skillRows)'
    BY <1>1, <1>2, <1>3 DEF skillTables, Active, HistoryOf
  <2>2. activeProfiles' = Active(profileRows)'
    BY <1>1, <1>2, <1>3 DEF KnownProfiles, Active, HistoryOf
  <2> QED
    BY <1>1, <1>2, <1>3, <2>1, <2>2 DEF RowsTellTheStream, KnownSkills, KnownProfiles
<1>7. SkillsAreChained'
  BY <1>3 DEF IInv, SkillsAreChained, ValidHistories, HistoryOf
<1>8. NamesAreOwned'
  <2>1. NotShared(Active(known \cup {profile}))
    BY <1>5, NamesStayOwned DEF IInv, NamesAreOwned
  <2>2. NotShared(Active(KnownProfiles))'
    BY <1>5, <2>1 DEF NotShared, Active, HistoryOf
  <2>3. NotShared(Active(KnownSkills))'
    BY <1>3 DEF IInv, NamesAreOwned, NotShared, Active, HistoryOf
  <2> QED
    BY <2>2, <2>3 DEF NamesAreOwned
<1>9. PinsAreKnown'
  BY <1>1, <1>2, <1>3 DEF IInv, PinsAreKnown, PinsKnown
<1>10. Untouched'
  BY <1>1, <1>2, <1>3, <1>4 DEF IInv, Untouched, skillTables, KnownSkills
<1> QED
  BY <1>4, <1>6, <1>7, <1>8, <1>9, <1>10 DEF Tables, UndamagedStartupIsAccepted

(* What leaves the stream as it is leaves alone what is said of it. *)
LEMMA StreamStays ==
  ASSUME IInv, KnownSkills' = KnownSkills, KnownProfiles' = KnownProfiles
  PROVE  SkillsAreChained' /\ NamesAreOwned' /\ PinsAreKnown'
BY DEF IInv, SkillsAreChained, NamesAreOwned, PinsAreKnown, ValidHistories, NotShared, Active,
   HistoryOf

LEMMA ReadKeepsTables ==
  ASSUME IInv, NEW request, NEW event, Read(request, event), Loaded,
         event.type \in ReadEvents
  PROVE  Tables'
<1>1. /\ Commit(request, event) /\ service' = service /\ damages' = damages
      /\ UNCHANGED <<skillRows, activeSkills, profileRows, activeProfiles>>
  BY DEF Read, Commit, skillTables, profileTables
<1>2. KnownSkills' = KnownSkills /\ KnownProfiles' = KnownProfiles
  BY <1>1, KindsDiffer, KnownGrows DEF IInv
<1>3. RowsTellTheStream'
  BY <1>1, <1>2 DEF IInv, RowsTellTheStream, KnownSkills, KnownProfiles, Active, HistoryOf
<1>4. Untouched' /\ UndamagedStartupIsAccepted'
  BY <1>1, <1>2 DEF IInv, Untouched, UndamagedStartupIsAccepted, KnownSkills
<1> QED
  BY <1>2, <1>3, <1>4, StreamStays DEF Tables

-----------------------------------------------------------------------------
(* The tables after a restart or damage *)

LEMMA UndamagedFits ==
  ASSUME IInv, damages = 0
  PROVE  LET stored == skillRows \cup Manifests IN
         /\ BuiltInsFit(skillRows) /\ ValidHistories(stored) /\ StoredIsExpected(stored)
         /\ ProfileRowsFit /\ PinsAllKnown(stored)
<1>1. skillRows \cup Manifests = KnownSkills /\ profileRows \subseteq KnownProfiles
  BY DEF IInv, Untouched
<1>2. BuiltInsFit(skillRows)
  <2>1. skillRows \subseteq KnownSkills /\ Manifests \subseteq KnownSkills
    BY <1>1
  <2> QED
    BY <2>1, ManifestsAre DEF BuiltInsFit, HistoryOf, IInv, SkillsAreChained
<1>3. ValidHistories(KnownSkills) /\ StoredIsExpected(KnownSkills)
  BY DEF IInv, SkillsAreChained, StoredIsExpected, KnownSkills
<1>4. PinsAllKnown(KnownSkills) /\ ProfileRowsFit
  BY <1>1 DEF IInv, PinsAreKnown, PinsAllKnown, PinsKnown, ProfileRowsFit, KnownProfiles
<1> QED
  BY <1>1, <1>2, <1>3, <1>4

LEMMA OtherKeepsTables ==
  ASSUME IInv, Startup \/ Stop \/ DamageSkills \/ DamageProfiles \/ UNCHANGED vars
  PROVE  /\ Tables' /\ UNCHANGED <<log, answers>>
         /\ KnownSkills' = KnownSkills /\ KnownProfiles' = KnownProfiles
<1>1. UNCHANGED <<log, answers>>
  BY DEF Startup, Stop, DamageSkills, DamageProfiles, Damage, vars
<1>2. KnownSkills' = KnownSkills /\ KnownProfiles' = KnownProfiles
  BY <1>1 DEF KnownSkills, KnownProfiles, ProjectedSkills, ProjectedProfiles, RecordedBy
<1>3. SkillsAreChained' /\ NamesAreOwned' /\ PinsAreKnown'
  BY <1>2, StreamStays
<1>4. CASE Startup
  <2> DEFINE stored == skillRows \cup Manifests
             Accepted == /\ BuiltInsFit(skillRows) /\ ValidHistories(stored)
                         /\ StoredIsExpected(stored) /\ ProfileRowsFit /\ PinsAllKnown(stored)
  <2>1. damages' = damages
    BY <1>4 DEF Startup
  <2>2. CASE Accepted
    <3>1. /\ skillRows' = stored /\ activeSkills' = ExpectedActive(Len(log))
          /\ profileRows' = KnownProfiles /\ activeProfiles' = Active(KnownProfiles)
          /\ service' = "serving"
      BY <1>4, <2>2 DEF Startup, KnownProfiles
    <3>2. stored = KnownSkills /\ ExpectedActive(Len(log)) = Active(KnownSkills)
      BY <2>2 DEF StoredIsExpected, ExpectedActive, KnownSkills
    <3>3. RowsTellTheStream'
      BY <1>2, <3>1, <3>2 DEF RowsTellTheStream, KnownSkills, KnownProfiles, Active, HistoryOf
    <3>4. Untouched' /\ UndamagedStartupIsAccepted'
      BY <1>2, <2>1, <3>1, <3>2
      DEF IInv, Untouched, UndamagedStartupIsAccepted, KnownSkills
    <3> QED
      BY <1>1, <1>2, <1>3, <3>3, <3>4 DEF Tables
  <2>3. CASE ~Accepted
    <3>1. service' = "refused" /\ UNCHANGED <<skillTables, profileTables>>
      BY <1>4, <2>3 DEF Startup
    <3>2. damages # 0
      BY <2>3, UndamagedFits
    <3> QED
      BY <1>1, <1>2, <1>3, <2>1, <3>1, <3>2
      DEF Tables, IInv, Untouched, UndamagedStartupIsAccepted, RowsTellTheStream, skillTables,
          profileTables
  <2> QED
    BY <2>2, <2>3
<1>5. CASE Stop \/ UNCHANGED vars
  <2>1. /\ UNCHANGED <<skillRows, activeSkills, profileRows, activeProfiles, damages>>
        /\ service' = service \/ service' = "down"
    BY <1>5 DEF Stop, vars, skillTables, profileTables
  <2>2. RowsTellTheStream'
    BY <1>2, <2>1 DEF IInv, RowsTellTheStream, KnownSkills, KnownProfiles, Active, HistoryOf
  <2> QED
    BY <1>1, <1>2, <1>3, <2>1, <2>2 DEF Tables, IInv, Untouched, UndamagedStartupIsAccepted
<1>6. CASE DamageSkills \/ DamageProfiles
  <2>1. service' = "down" /\ damages' = damages + 1
    BY <1>6 DEF DamageSkills, DamageProfiles, Damage
  <2> QED
    BY <1>1, <1>2, <1>3, <2>1
    DEF Tables, IInv, Untouched, UndamagedStartupIsAccepted, RowsTellTheStream
<1> QED
  BY <1>4, <1>5, <1>6

-----------------------------------------------------------------------------
(* What was recorded can be made again.                                     *)

StreamSkills == ProjectedSkills(Len(log))

(* Of the i-th entry, all that its outcome is made from stays; the stream   *)
(* may go on.                                                               *)
Keeps(i) ==
    /\ log'[i] = log[i]
    /\ ProjectedSkills(i)' = ProjectedSkills(i)
    /\ ProjectedProfiles(i)' = ProjectedProfiles(i)
    /\ StreamSkills \subseteq StreamSkills'

LEMMA SameCount == \A S : Truth!Cardinality(S) = Cardinality(S)
BY DEF Truth!Cardinality, Cardinality

LEMMA SameReading ==
  /\ \A n : Truth!ProjectedSkills(n) = ProjectedSkills(n)
  /\ \A n : Truth!ProjectedProfiles(n) = ProjectedProfiles(n)
  /\ \A active, selector : Truth!Select(active, selector) = Select(active, selector)
  /\ \A versions : Truth!Active(versions) = Active(versions)
  /\ \A versions, id : Truth!HistoryOf(versions, id) = HistoryOf(versions, id)
  /\ \A versions : Truth!Newest(versions) = Newest(versions)
  /\ \A n : Truth!ProjectedFor(n) = n /\ ProjectedFor(n) = n
<1>1. \A n : Truth!ProjectedSkills(n) = ProjectedSkills(n)
  BY DEF Truth!ProjectedSkills, ProjectedSkills, Truth!RecordedBy, RecordedBy,
     Truth!SkillEvents, SkillEvents
<1>2. \A n : Truth!ProjectedProfiles(n) = ProjectedProfiles(n)
  BY DEF Truth!ProjectedProfiles, ProjectedProfiles, Truth!RecordedBy, RecordedBy,
     Truth!ProfileEvents, ProfileEvents, Truth!PinEvents, PinEvents
<1>3. \A active, selector : Truth!Select(active, selector) = Select(active, selector)
  BY DEF Truth!Select, Select
<1>4. \A versions, id : Truth!HistoryOf(versions, id) = HistoryOf(versions, id)
  BY DEF Truth!HistoryOf, HistoryOf
<1>5. \A versions : Truth!Active(versions) = Active(versions)
  BY DEF Truth!Active, Active, Truth!HistoryOf, HistoryOf
<1>6. \A versions : Truth!Newest(versions) = Newest(versions)
  BY SameCount DEF Truth!Newest, Newest
<1>7. \A n : Truth!ProjectedFor(n) = n /\ ProjectedFor(n) = n
  BY DEF Truth!ProjectedFor, ProjectedFor
<1> QED
  BY <1>1, <1>2, <1>3, <1>4, <1>5, <1>6, <1>7

LEMMA SameReadingAfter ==
  /\ \A n : Truth!ProjectedSkills(n)' = ProjectedSkills(n)'
  /\ \A n : Truth!ProjectedProfiles(n)' = ProjectedProfiles(n)'
BY DEF Truth!ProjectedSkills, ProjectedSkills, Truth!ProjectedProfiles, ProjectedProfiles,
   Truth!RecordedBy, RecordedBy, Truth!SkillEvents, SkillEvents, Truth!ProfileEvents,
   ProfileEvents, Truth!PinEvents, PinEvents

LEMMA SkillCreationStays ==
  ASSUME NEW i, NEW request, NEW event, Keeps(i),
         Truth!SkillCreationStands(request, event, i)
  PROVE  Truth!SkillCreationStands(request, event, i)'
BY SameReading, SameReadingAfter
DEF Keeps, Truth!SkillCreationStands, Truth!ProjectedFor, Truth!Active, Truth!HistoryOf,
    Truth!NewSkill, KnownSkills, StreamSkills

LEMMA SkillActivationStays ==
  ASSUME NEW i, NEW request, NEW event, Keeps(i),
         Truth!SkillActivationStands(request, event, i)
  PROVE  Truth!SkillActivationStands(request, event, i)'
BY SameReading, SameReadingAfter
DEF Keeps, Truth!SkillActivationStands, Truth!ProjectedFor, Truth!Active, Truth!HistoryOf,
    Truth!NextSkill, KnownSkills, StreamSkills

LEMMA SkillViewStays ==
  ASSUME NEW i, NEW request, NEW event, Keeps(i),
         Truth!SkillViewStands(request, event, i)
  PROVE  Truth!SkillViewStands(request, event, i)'
BY SameReading, SameReadingAfter
DEF Keeps, Truth!SkillViewStands, Truth!ProjectedFor, Truth!ProjectedSkill, Truth!Active,
    Truth!HistoryOf, Truth!Select, Truth!SeededMatches, KnownSkills, StreamSkills

LEMMA SkillVersionViewStays ==
  ASSUME NEW i, NEW request, NEW event, Keeps(i),
         Truth!SkillVersionViewStands(request, event, i)
  PROVE  Truth!SkillVersionViewStands(request, event, i)'
BY SameReading, SameReadingAfter
DEF Keeps, Truth!SkillVersionViewStands, Truth!ProjectedFor, Truth!ProjectedSkill, Truth!Active,
    Truth!HistoryOf, Truth!Select, Truth!SeededMatches, KnownSkills, StreamSkills

LEMMA ProfileOutcomesStay ==
  ASSUME NEW i, NEW request, NEW event, Keeps(i)
  PROVE  /\ Truth!ProfileCreationStands(request, event, i) =>
              Truth!ProfileCreationStands(request, event, i)'
         /\ Truth!ProfileActivationStands(request, event, i) =>
              Truth!ProfileActivationStands(request, event, i)'
         /\ Truth!PinChangeStands(request, event, i) => Truth!PinChangeStands(request, event, i)'
         /\ Truth!ProfileListStands(event, i) => Truth!ProfileListStands(event, i)'
         /\ Truth!ProfileViewStands(request, event, i) =>
              Truth!ProfileViewStands(request, event, i)'
         /\ Truth!ProfileHistoryStands(request, event, i) =>
              Truth!ProfileHistoryStands(request, event, i)'
         /\ Truth!ProfileVersionViewStands(request, event, i) =>
              Truth!ProfileVersionViewStands(request, event, i)'
<1>1. /\ Truth!ProjectedProfiles(i)' = Truth!ProjectedProfiles(i)
  BY SameReading, SameReadingAfter DEF Keeps
<1> QED
  BY <1>1 DEF Truth!ProfileCreationStands, Truth!ProfileActivationStands, Truth!PinChangeStands,
     Truth!ProfileListStands, Truth!ProfileViewStands, Truth!ProfileHistoryStands,
     Truth!ProfileVersionViewStands, Truth!ProjectedProfile, Truth!ProjectedFor, Truth!Active,
     Truth!HistoryOf, Truth!Select, Truth!NewProfile, Truth!NextProfile

(* The history of a built-in skill is read from the tables until the skill  *)
(* is edited; what an earlier answer listed is then no longer what is there.*)
LEMMA SkillHistoryStays ==
  ASSUME NEW i, NEW request, NEW event, Keeps(i),
         Truth!SkillHistoryStands(request, event, i),
         ~(event.active.id \in BuiltIns /\ HistoryOf(StreamSkills', event.active.id) # {})
  PROVE  Truth!SkillHistoryStands(request, event, i)'
<1> DEFINE id == event.active.id
<1>1. PICK past : past = ProjectedSkills(i) /\ past = ProjectedSkills(i)'
  BY DEF Keeps
<1>2. PICK known : known = KnownSkills
  OBVIOUS
<1>3. PICK after : after = KnownSkills'
  OBVIOUS
<1>4. known = Manifests \cup StreamSkills /\ after = Manifests \cup StreamSkills'
      /\ StreamSkills \subseteq StreamSkills'
  BY <1>2, <1>3 DEF KnownSkills, StreamSkills, Keeps
<1> DEFINE Stand(rows) ==
             LET found == Select(Active(past), request.selector)
                 versions == IF found = {} THEN HistoryOf(rows, id) ELSE HistoryOf(past, id)
             IN  /\ IF found = {}
                      THEN event.active \in Active(rows)
                           /\ Truth!SeededMatches(request.selector, event.active)
                      ELSE found = {event.active}
                 /\ event.total = Cardinality(versions)
                 /\ event.versions = Newest(versions)
<1>5. Stand(known)
  BY <1>1, <1>2, SameReading, SameCount DEF Truth!SkillHistoryStands, Truth!ProjectedSkill
<1>6. Stand(after)
  <2>1. CASE Select(Active(past), request.selector) = {}
    <3>1. id \in BuiltIns
      BY <1>5, <2>1 DEF Truth!SeededMatches
    <3>2. HistoryOf(StreamSkills', id) = {}
      BY <3>1
    <3>3. HistoryOf(known, id) = HistoryOf(after, id)
      BY <1>4, <3>2 DEF HistoryOf
    <3>4. event.active \in Active(known) => event.active \in Active(after)
      BY <3>3 DEF Active, HistoryOf
    <3> QED
      BY <1>5, <2>1, <3>3, <3>4
  <2>2. CASE Select(Active(past), request.selector) # {}
    BY <1>5, <2>2
  <2> QED
    BY <2>1, <2>2
<1> QED
  BY <1>1, <1>3, <1>6, SameReading, SameReadingAfter, SameCount
  DEF Truth!SkillHistoryStands, Truth!ProjectedSkill

(* The outcome of one entry, by what was recorded *)
Outcome(request, event, i) ==
    CASE event.type = "SkillCreated" -> Truth!SkillCreationStands(request, event, i)
      [] event.type = "SkillVersionActivated" -> Truth!SkillActivationStands(request, event, i)
      [] event.type = "SkillsListed" -> event.total >= Cardinality(event.skills)
      [] event.type = "SkillViewed" -> Truth!SkillViewStands(request, event, i)
      [] event.type = "SkillVersionViewed" -> Truth!SkillVersionViewStands(request, event, i)
      [] event.type = "SkillHistoryViewed" -> Truth!SkillHistoryStands(request, event, i)
      [] event.type = "AgentProfileCreated" -> Truth!ProfileCreationStands(request, event, i)
      [] event.type = "AgentProfileVersionActivated" ->
           Truth!ProfileActivationStands(request, event, i)
      [] event.type \in PinEvents -> Truth!PinChangeStands(request, event, i)
      [] event.type = "AgentProfilesListed" -> Truth!ProfileListStands(event, i)
      [] event.type = "AgentProfileViewed" -> Truth!ProfileViewStands(request, event, i)
      [] event.type = "AgentProfileHistoryViewed" ->
           Truth!ProfileHistoryStands(request, event, i)
      [] event.type = "AgentProfileVersionViewed" ->
           Truth!ProfileVersionViewStands(request, event, i)

LEMMA OutcomeIs == \A i : Truth!Stands(i) = Outcome(log[i].request, log[i].event, i)
BY SameCount DEF Truth!Stands, Outcome, Truth!PinEvents, PinEvents

LEMMA OutcomeWillBe ==
  \A i, request, event : log'[i].request = request /\ log'[i].event = event =>
    Truth!Stands(i)' = Outcome(request, event, i)'
BY SameCount DEF Truth!Stands, Outcome, Truth!PinEvents, PinEvents

LEMMA StandsStays ==
  ASSUME NEW i, log[i].event.type \in Writes \cup ReadEvents, Keeps(i), Truth!Stands(i), ~EditedSince(i)'
  PROVE  Truth!Stands(i)'
<1>1. PICK request, event : request = log[i].request /\ event = log[i].event
  OBVIOUS
<1>2. log'[i].request = request /\ log'[i].event = event
  BY <1>1 DEF Keeps
<1>3. Outcome(request, event, i)
  BY <1>1, OutcomeIs
<1>4. event.type = "SkillHistoryViewed" =>
        ~(event.active.id \in BuiltIns /\ HistoryOf(StreamSkills', event.active.id) # {})
  BY <1>2 DEF EditedSince, HistoryOf, StreamSkills
<1>5. Outcome(request, event, i)'
  <2>1. event.type \in Writes \cup ReadEvents
    BY <1>1
  <2> QED
    BY <1>3, <1>4, <2>1, SkillCreationStays, SkillActivationStays, SkillViewStays,
       SkillVersionViewStays, SkillHistoryStays, ProfileOutcomesStay
    DEF Outcome, Writes, SkillEvents, ProfileEvents, PinEvents, ReadEvents
<1> QED
  BY <1>2, <1>5, OutcomeWillBe

LEMMA ViewStays ==
  ASSUME NEW i, Keeps(i)
  PROVE  View(i)' = View(i)
<1> DEFINE Shown(event, known) ==
             CASE event.type = "AgentProfilesListed" -> FirstNamed(Active(known))
               [] event.type \in {"AgentProfileViewed", "AgentProfileVersionViewed"} ->
                    {v \in HistoryOf(known, event.id) : v.version = event.version}
               [] event.type = "AgentProfileHistoryViewed" ->
                    Newest(HistoryOf(known, event.id))
               [] event.type \in SkillEvents \cup ProfileEvents -> {event.made}
               [] event.type = "SkillsListed" -> event.skills
               [] event.type = "SkillHistoryViewed" -> event.versions
               [] OTHER -> {event.skill}
<1>1. PICK event : event = log[i].event /\ event = log'[i].event
  BY DEF Keeps
<1>2. PICK known : known = ProjectedProfiles(i) /\ known = ProjectedProfiles(i)'
  BY DEF Keeps
<1>3. View(i) = Shown(event, known)
  BY <1>1, <1>2 DEF View, ProjectedFor
<1>4. View(i)' = Shown(event, known)
  BY <1>1, <1>2 DEF View, ProjectedFor
<1> QED
  BY <1>3, <1>4

LEMMA EditedStays ==
  ASSUME NEW i, Keeps(i), EditedSince(i)
  PROVE  EditedSince(i)'
BY DEF Keeps, EditedSince, HistoryOf, StreamSkills

(* Tables that say what the stream says answer as the stream does. *)
LEMMA ServingAnswers ==
  ASSUME skillRows = KnownSkills, activeSkills = Active(KnownSkills)
  PROVE  \A i : Stands(i) = Truth!Stands(i)
<1> SUFFICES ASSUME NEW i
             PROVE  Stands(i) = Truth!Stands(i)
  OBVIOUS
<1>1. PICK request, event : request = log[i].request /\ event = log[i].event
  OBVIOUS
<1>2. /\ Truth!ProjectedSkills(i) = ProjectedSkills(i)
      /\ Truth!ProjectedProfiles(i) = ProjectedProfiles(i)
      /\ Truth!ProjectedFor(i) = i /\ ProjectedFor(i) = i
  BY SameReading
<1>3. /\ SkillCreationStands(request, event, i) = Truth!SkillCreationStands(request, event, i)
      /\ SkillActivationStands(request, event, i) =
           Truth!SkillActivationStands(request, event, i)
  BY <1>2, SameReading DEF SkillCreationStands, Truth!SkillCreationStands, NewSkill,
     Truth!NewSkill, SkillActivationStands, Truth!SkillActivationStands, NextSkill,
     Truth!NextSkill
<1>4. /\ SkillViewStands(request, event, i) = Truth!SkillViewStands(request, event, i)
      /\ SkillVersionViewStands(request, event, i) =
           Truth!SkillVersionViewStands(request, event, i)
  BY <1>2, SameReading DEF SkillViewStands, Truth!SkillViewStands, SkillVersionViewStands,
     Truth!SkillVersionViewStands, ProjectedSkill, Truth!ProjectedSkill, SeededMatches,
     Truth!SeededMatches
<1>5. SkillHistoryStands(request, event, i) = Truth!SkillHistoryStands(request, event, i)
  BY <1>2, SameReading, SameCount DEF SkillHistoryStands, Truth!SkillHistoryStands,
     ProjectedSkill, Truth!ProjectedSkill, SeededMatches, Truth!SeededMatches
<1>6. /\ ProfileCreationStands(request, event, i) =
           Truth!ProfileCreationStands(request, event, i)
      /\ ProfileActivationStands(request, event, i) =
           Truth!ProfileActivationStands(request, event, i)
      /\ PinChangeStands(request, event, i) = Truth!PinChangeStands(request, event, i)
  BY <1>2, SameReading DEF ProfileCreationStands, Truth!ProfileCreationStands, NewProfile,
     Truth!NewProfile, ProfileActivationStands, Truth!ProfileActivationStands, NextProfile,
     Truth!NextProfile, PinChangeStands, Truth!PinChangeStands
<1>7. /\ ProfileListStands(event, i) = Truth!ProfileListStands(event, i)
      /\ ProfileViewStands(request, event, i) = Truth!ProfileViewStands(request, event, i)
      /\ ProfileHistoryStands(request, event, i) = Truth!ProfileHistoryStands(request, event, i)
      /\ ProfileVersionViewStands(request, event, i) =
           Truth!ProfileVersionViewStands(request, event, i)
  BY <1>2, SameReading, SameCount DEF ProfileListStands, Truth!ProfileListStands,
     ProfileViewStands, Truth!ProfileViewStands, ProfileHistoryStands,
     Truth!ProfileHistoryStands, ProfileVersionViewStands, Truth!ProfileVersionViewStands,
     ProjectedProfile, Truth!ProjectedProfile
<1> QED
  BY <1>1, <1>3, <1>4, <1>5, <1>6, <1>7, OutcomeIs DEF Stands, Outcome

LEMMA AppendKeeps ==
  ASSUME LogIsKept, NEW request, NEW event, Commit(request, event), NEW i \in 1..Len(log)
  PROVE  Keeps(i)
<1> DEFINE entry == [request |-> request, event |-> event]
<1>1. log' = Append(log, entry)
  BY DEF Commit
<1> HIDE DEF entry
<1>2. PICK skills : skills = SkillEvents
  OBVIOUS
<1>3. PICK profiles : profiles = ProfileEvents
  OBVIOUS
<1>4. i \in 0..Len(log) /\ log'[i] = log[i]
  BY <1>1, Appends
<1>5. ProjectedSkills(i)' = ProjectedSkills(i)
  BY <1>1, <1>2, <1>4, PrefixStays DEF ProjectedSkills
<1>6. ProjectedProfiles(i)' = ProjectedProfiles(i)
  BY <1>1, <1>3, <1>4, PrefixStays DEF ProjectedProfiles
<1>7. StreamSkills \subseteq StreamSkills'
  BY <1>1, <1>2, RecordGrows DEF StreamSkills, ProjectedSkills, RecordedBy
<1> QED
  BY <1>4, <1>5, <1>6, <1>7 DEF Keeps

(* A command that commits has made its answer from its own event. *)
LEMMA ReceiptMeans ==
  ASSUME Receipt, NEW n, n = Len(log')
  PROVE  Stands(n)' /\ answers' = Append(answers, View(n)')
BY DEF Receipt

LEMMA CommitRepeats ==
  ASSUME IInv, NEW request, NEW event, Commit(request, event), Receipt,
         event.type \in Writes \cup ReadEvents, service = "serving", RowsTellTheStream'
  PROVE  LogIsKept' /\ Repeatable'
<1> DEFINE entry == [request |-> request, event |-> event]
<1>1. log' = Append(log, entry) /\ entry.event = event /\ service' = "serving"
  BY DEF Commit
<1> HIDE DEF entry
<1>2. LogIsKept
  BY DEF IInv
<1>3. /\ \E S : log' \in Seq(S)
      /\ Len(log) \in Nat /\ New \in Nat /\ Len(log') = New
      /\ 1..Len(log') = (1..Len(log)) \cup {New} /\ New \notin 1..Len(log)
      /\ \A i \in 1..Len(log) : log'[i] = log[i]
      /\ log'[New] = entry
  BY <1>1, <1>2, Appends
<1>4. PICK n : n = New
  OBVIOUS
<1>5. Stands(n)' /\ answers' = Append(answers, View(n)')
  BY <1>3, <1>4, ReceiptMeans
<1>6. /\ \E S : answers' \in Seq(S)
      /\ Len(answers') = Len(log')
      /\ \A i \in 1..Len(log) : answers'[i] = answers[i]
      /\ answers'[n] = View(n)'
  <2>1. PICK S : answers \in Seq(S)
    BY <1>2 DEF LogIsKept
  <2>2. PICK view : view = View(n)'
    OBVIOUS
  <2>3. answers \in Seq(S \cup {view}) /\ view \in S \cup {view} /\ Len(answers) = Len(log)
    BY <1>2, <2>1 DEF LogIsKept
  <2> QED
    BY <1>3, <1>4, <1>5, <2>2, <2>3 DEF New
<1>7. LogIsKept'
  BY <1>1, <1>2, <1>3, <1>6 DEF LogIsKept
<1>8. Truth!Stands(n)'
  <2>1. skillRows' = KnownSkills' /\ activeSkills' = Active(KnownSkills)'
    BY <1>1 DEF RowsTellTheStream, KnownSkills, Active, HistoryOf
  <2>2. (skillRows = KnownSkills /\ activeSkills = Active(KnownSkills) =>
           \A i : Stands(i) = Truth!Stands(i))'
    BY ServingAnswers, PTL
  <2> QED
    BY <1>5, <2>1, <2>2
<1>9. ASSUME NEW i \in 1..Len(log)
      PROVE  EditedSince(i)' \/ (Truth!Stands(i)' /\ View(i)' = answers'[i])
  <2>1. Keeps(i)
    BY <1>2, AppendKeeps
  <2>2. View(i)' = View(i) /\ answers'[i] = answers[i]
    BY <1>6, <2>1, ViewStays
  <2>3. log[i].event.type \in Writes \cup ReadEvents
    BY <1>2 DEF LogIsKept
  <2>4. EditedSince(i) \/ (Truth!Stands(i) /\ View(i) = answers[i])
    BY DEF IInv, Repeatable
  <2> QED
    BY <2>1, <2>2, <2>3, <2>4, StandsStays, EditedStays
<1> QED
  BY <1>3, <1>4, <1>6, <1>7, <1>8, <1>9 DEF Repeatable

LEMMA OtherRepeats ==
  ASSUME IInv, UNCHANGED <<log, answers>>
  PROVE  LogIsKept' /\ Repeatable'
<1>1. LogIsKept'
  BY DEF IInv, LogIsKept
<1>2. ASSUME NEW i \in 1..Len(log)
      PROVE  EditedSince(i)' \/ (Truth!Stands(i)' /\ View(i)' = answers'[i])
  <2>1. Keeps(i)
    BY DEF Keeps, ProjectedSkills, ProjectedProfiles, RecordedBy, StreamSkills
  <2> QED
    BY <2>1, StandsStays, EditedStays, ViewStays DEF IInv, LogIsKept, Repeatable
<1> QED
  BY <1>1, <1>2 DEF Repeatable

-----------------------------------------------------------------------------
(* The inductive invariant *)

LEMMA StepInv == IInv /\ [Next]_vars => IInv'
<1> SUFFICES ASSUME IInv, [Next]_vars
             PROVE  IInv'
  OBVIOUS
<1>1. SkillEvents \cup ProfileEvents = Writes
  BY DEF Writes
<1>2. CASE WriteSkill
  <2>1. PICK skill, base : \E type \in SkillEvents :
          RecordSkill(type, skill, base) /\ SkillFollows(skill) /\ Loaded
    BY <1>2, SkillsAreRecorded
  <2>2. PICK type \in SkillEvents :
          RecordSkill(type, skill, base) /\ SkillFollows(skill) /\ Loaded
    BY <2>1
  <2>3. Tables'
    BY <2>2, SkillKeepsTables
  <2>4. \E request, event : /\ Commit(request, event) /\ Receipt
                            /\ event.type \in Writes \cup ReadEvents
    BY <1>1, <2>2 DEF RecordSkill
  <2>5. LogIsKept' /\ Repeatable'
    BY <2>2, <2>3, <2>4, CommitRepeats DEF Tables, Loaded
  <2> QED
    BY <2>3, <2>5 DEF Tables, IInv
<1>3. CASE WriteProfile
  <2>1. PICK profile, base : \E type \in ProfileEvents :
          /\ RecordProfile(type, profile, base) /\ Loaded
          /\ NameFree(Active(KnownProfiles), profile.id, profile.name)
    BY <1>3, ProfilesAreRecorded
  <2>2. PICK type \in ProfileEvents :
          /\ RecordProfile(type, profile, base) /\ Loaded
          /\ NameFree(Active(KnownProfiles), profile.id, profile.name)
    BY <2>1
  <2>3. Tables'
    BY <2>2, ProfileKeepsTables
  <2>4. \E request, event : /\ Commit(request, event) /\ Receipt
                            /\ event.type \in Writes \cup ReadEvents
    BY <1>1, <2>2 DEF RecordProfile
  <2>5. LogIsKept' /\ Repeatable'
    BY <2>2, <2>3, <2>4, CommitRepeats DEF Tables, Loaded
  <2> QED
    BY <2>3, <2>5 DEF Tables, IInv
<1>4. CASE ReadSomething
  <2>1. PICK request, event : Read(request, event) /\ event.type \in ReadEvents /\ Loaded
    BY <1>4, ReadsAreRecorded
  <2>2. Tables'
    BY <2>1, ReadKeepsTables
  <2>3. Commit(request, event) /\ Receipt
    BY <2>1 DEF Read
  <2>4. LogIsKept' /\ Repeatable'
    BY <2>1, <2>2, <2>3, CommitRepeats DEF Tables, Loaded
  <2> QED
    BY <2>2, <2>4 DEF Tables, IInv
<1>5. CASE Startup \/ Stop \/ DamageSkills \/ DamageProfiles \/ UNCHANGED vars
  BY <1>5, OtherKeepsTables, OtherRepeats DEF Tables, IInv
<1> QED
  BY <1>2, <1>3, <1>4, <1>5 DEF Next

LEMMA InitInv == Init => IInv
<1> SUFFICES ASSUME Init
             PROVE  IInv
  OBVIOUS
<1>1. /\ log = << >> /\ answers = << >> /\ skillRows = {} /\ profileRows = {}
      /\ service = "down" /\ damages = 0
  BY DEF Init
<1>2. KnownSkills = Manifests /\ KnownProfiles = {}
  BY <1>1 DEF KnownSkills, KnownProfiles, ProjectedSkills, ProjectedProfiles, RecordedBy
<1>3. LogIsKept
  BY <1>1 DEF LogIsKept
<1>4. SkillsAreChained
  <2>1. \A m \in Manifests : IsSkill(m)
    BY DEF Manifests, IsSkill
  <2> QED
    BY <1>2, <2>1, ManifestsAre DEF SkillsAreChained, ValidHistories
<1>5. NamesAreOwned
  <2>1. Active(KnownProfiles) = {}
    BY <1>2 DEF Active
  <2> QED
    BY <1>2, <2>1, ManifestsAre DEF NamesAreOwned, NotShared
<1>6. PinsAreKnown /\ Untouched /\ RowsTellTheStream /\ UndamagedStartupIsAccepted
  BY <1>1, <1>2 DEF PinsAreKnown, Untouched, RowsTellTheStream, UndamagedStartupIsAccepted
<1>7. Repeatable
  BY <1>1 DEF Repeatable
<1> QED
  BY <1>3, <1>4, <1>5, <1>6, <1>7 DEF IInv

THEOREM Invariance == Spec => []IInv
BY InitInv, StepInv, PTL DEF Spec

(* A serving process has in its tables what the stream says and what is     *)
(* compiled in, after any number of changes, restarts and repairs.          *)
THEOREM RowsAlwaysTellTheStream == Spec => []RowsTellTheStream
<1>1. IInv => RowsTellTheStream
  BY DEF IInv
<1> QED
  BY <1>1, Invariance, PTL

(* Nothing but damage keeps a process from starting: what commands left in  *)
(* the tables always passes the checks of the startup.                      *)
THEOREM UndamagedStartupIsAlwaysAccepted == Spec => []UndamagedStartupIsAccepted
<1>1. IInv => UndamagedStartupIsAccepted
  BY DEF IInv
<1> QED
  BY <1>1, Invariance, PTL

(* Names: the compiled-in ones are distinct, and every change asks the      *)
(* active versions, which are those of the stream.                          *)
THEOREM NamesAreNeverShared == Spec => []NamesAreNotShared
<1>1. IInv => NamesAreNotShared
  <2> SUFFICES ASSUME IInv, service = "serving"
               PROVE  \A active \in {activeSkills, activeProfiles} :
                        \A v, w \in active : v.name = w.name => v.id = w.id
    BY DEF NamesAreNotShared
  <2>1. activeSkills = Active(KnownSkills) /\ activeProfiles = Active(KnownProfiles)
    BY DEF IInv, RowsTellTheStream, KnownSkills, KnownProfiles
  <2> QED
    BY <2>1 DEF IInv, NamesAreOwned, NotShared
<1> QED
  BY <1>1, Invariance, PTL

(* Pins: a profile version is recorded only with versions the tables hold,  *)
(* and those are never changed.                                             *)
THEOREM PinsAlwaysResolve == Spec => []PinsResolve
<1>1. IInv => PinsResolve
  BY DEF IInv, PinsAreKnown, PinsResolve, WellPinned, RowsTellTheStream, KnownSkills,
     KnownProfiles
<1> QED
  BY <1>1, Invariance, PTL

(* Retries: what an outcome is made from again is the stream up to its      *)
(* event, and rows that only grow.                                          *)
THEOREM RetriesAlwaysAnswerTheSame == Spec => []RetriesAnswerTheSame
<1>1. IInv => RetriesAnswerTheSame
  <2> SUFFICES ASSUME IInv, service = "serving"
               PROVE  \A i \in 1..Len(log) :
                        EditedSince(i) \/ (Stands(i) /\ View(i) = answers[i])
    BY DEF RetriesAnswerTheSame
  <2>1. skillRows = KnownSkills /\ activeSkills = Active(KnownSkills)
    BY DEF IInv, RowsTellTheStream, KnownSkills
  <2> QED
    BY <2>1, ServingAnswers DEF IInv, Repeatable
<1> QED
  BY <1>1, Invariance, PTL

=============================================================================
