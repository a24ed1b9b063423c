------------------------------ MODULE Library -------------------------------
(***************************************************************************)
(* Agent profiles and skills: immutable versions recorded in the event     *)
(* stream, mirrored in two tables of versions and two tables of active     *)
(* pointers, and read back either from the tables or from the projection   *)
(* of the stream up to some event.                                         *)
(*                                                                         *)
(* A command is one transaction (Journal): it commits with its event, its  *)
(* rows and its receipt, or changes nothing.  A command that fails is no   *)
(* step here.  The review a change needs is Reviews' matter.  Of the       *)
(* stream only the events of these commands are kept.  A retry of the      *)
(* i-th recorded command is answered from its receipt, after the answer    *)
(* was made again from the event and compared: Stands(i) and View(i).      *)
(*                                                                         *)
(* A version is a record of its owner (id), number, name and the rest of   *)
(* its content.  Version ids are fresh and a reference carries a digest of *)
(* the content, so the record also stands for the reference to it.         *)
(***************************************************************************)
EXTENDS Naturals, Sequences, FiniteSets, Functions

CONSTANTS
    Profiles,       \* AgentProfileId
    Skills,         \* SkillId
    BuiltIns,       \* the skills whose first version is compiled in
    Names,          \* normalized names, in their order
    Texts,          \* the rest of a skill's content
    MaxPins,        \* MAX_SKILL_REFS
    MaxShown,       \* MAX_SKILL_LIST_RESULTS and the other limits of lists
    MaxDrafted,     \* bound: how many skills a draft brings along
    MaxWrites,      \* bound: how many changes are recorded
    MaxReads,       \* bound: how many reads are recorded
    MaxDamage       \* bound: how often the tables are damaged from outside

ASSUME LibraryAssumption ==
    /\ IsFiniteSet(Profiles) /\ IsFiniteSet(Skills) /\ BuiltIns \subseteq Skills
    /\ IsFiniteSet(Names) /\ Names \subseteq Nat /\ IsFiniteSet(Texts) /\ Texts # {}
    /\ Cardinality(BuiltIns) <= Cardinality(Names)
    /\ Profiles \cap Names = {} /\ Skills \cap Names = {}
    /\ {MaxPins, MaxShown, MaxDrafted, MaxWrites, MaxReads, MaxDamage} \subseteq Nat

VARIABLES
    log,            \* event_stream: the requests, and the event of each
    answers,        \* command_receipts: the view each request was answered with
    skillRows,      \* skill_versions: an id, a version, a name and the text
    profileRows,    \* agent_profile_versions: an id, a version, a name and pinned skill versions
    activeSkills,   \* active_skills
    activeProfiles, \* active_agent_profiles
    service,        \* "down", "serving" or "refused"
    damages         \* how often damage was done

skillTables   == <<skillRows, activeSkills>>
profileTables == <<profileRows, activeProfiles>>
vars == <<log, answers, skillTables, profileTables, service, damages>>

(* builtin_manifests: distinct names, version 1 *)
BuiltInName == CHOOSE f \in [BuiltIns -> Names] : IsInjective(f)

Manifests ==
    {[id |-> b, version |-> 1, name |-> BuiltInName[b], text |-> CHOOSE t \in Texts : TRUE] :
        b \in BuiltIns}

-----------------------------------------------------------------------------
(* Versions and what is read from them *)

HistoryOf(versions, id) == {v \in versions : v.id = id}

(* active_by_skill and active_by_profile *)
Active(versions) ==
    {v \in versions : \A w \in HistoryOf(versions, v.id) : w.version <= v.version}

(* A selector is an id or a name. *)
Select(active, selector) == {v \in active : selector \in {v.id, v.name}}

(* The newest of a history, and the first of a list, in the order of names  *)
Newest(versions) ==
    {v \in versions : Cardinality({w \in versions : w.version > v.version}) < MaxShown}

FirstNamed(active) ==
    {v \in active : Cardinality({w \in active : w.name < v.name}) < MaxShown}

(* A name is taken by an active version of somebody else.  *)
FaultyNameFree(active, id, name) == \A v \in active : v.name = name => v.version > 1

NameFree(active, id, name) == \A v \in active : v.name = name => v.id = id

(* SkillVersion::create and next_version *)
NewSkill(id, name, text) == [id |-> id, version |-> 1, name |-> name, text |-> text]

NextSkill(current, name, text) ==
    [current EXCEPT !.version = @ + 1, !.name = name, !.text = text]

SkillUnchanged(current, name, text) == current.name = name /\ current.text = text

(* AgentProfileVersion::create and next_version *)
NewProfile(id, name, pins) == [id |-> id, version |-> 1, name |-> name, pins |-> pins]

NextProfile(current, name, pins) ==
    [current EXCEPT !.version = @ + 1, !.name = name, !.pins = pins]

ProfileUnchanged(current, name, pins) == current.name = name /\ current.pins = pins

(* AgentProfileDraft: no skill twice, and not too many *)
WellPinned(pins) ==
    /\ Cardinality(pins) <= MaxPins
    /\ \A v, w \in pins : v.id = w.id => v = w

-----------------------------------------------------------------------------
(* The projection of the first n events *)

SkillEvents   == {"SkillCreated", "SkillVersionActivated"}
PinEvents     == {"AgentSkillAssigned", "AgentSkillUpgraded", "AgentSkillUnassigned"}
ProfileEvents == {"AgentProfileCreated", "AgentProfileVersionActivated"} \cup PinEvents

RecordedBy(types, n) ==
    {log[i].event.made : i \in {j \in 1..n : log[j].event.type \in types}}

(* SkillsProjection: the built-in versions have no event. *)
ProjectedSkills(n) == RecordedBy(SkillEvents, n)

(* AgentProfilesProjection *)
ProjectedProfiles(n) == RecordedBy(ProfileEvents, n)

(* resolve_projected_active_skill and resolve_active_profile *)
ProjectedSkill(n, selector)   == Select(Active(ProjectedSkills(n)), selector)
ProjectedProfile(n, selector) == Select(Active(ProjectedProfiles(n)), selector)

(* SkillsProjection::create and activate: the first edit of a built-in skill *)
(* follows the version that is compiled in.                                 *)
CreatesSkill(projected, skill) ==
    skill.version = 1 /\ skill.id \notin BuiltIns /\ HistoryOf(projected, skill.id) = {}

IsBuiltInSuccessor(skill) ==
    \E m \in Manifests : m.id = skill.id /\ skill.version = m.version + 1

ActivatesSkill(projected, skill) ==
    IF HistoryOf(projected, skill.id) = {}
      THEN IsBuiltInSuccessor(skill)
      ELSE \E v \in Active(projected) : v.id = skill.id /\ skill.version = v.version + 1

(* AgentProfilesProjection::create and activate *)
CreatesProfile(projected, profile) ==
    /\ profile.version = 1 /\ HistoryOf(projected, profile.id) = {}
    /\ NameFree(Active(projected), profile.id, profile.name)

ActivatesProfile(projected, profile) ==
    /\ \E v \in Active(projected) : v.id = profile.id /\ profile.version = v.version + 1
    /\ NameFree(Active(projected), profile.id, profile.name)

(* validated_active_skills: a recorded version replaces the built-in one.   *)
FaultyExpectedActive(n) ==           \* the built-in one replaces the recorded
    Manifests \cup {v \in Active(ProjectedSkills(n)) : v.id \notin BuiltIns}

ExpectedActive(n) == Active(Manifests \cup ProjectedSkills(n))

-----------------------------------------------------------------------------
(* materialize_success: whether the i-th outcome can be made again ...      *)

FaultyProjectedFor(i) == Len(log)    \* the answer is made from today's projection

(* load_at: the projection the outcome was made from *)
ProjectedFor(i) == i

SkillCreationStands(request, event, i) ==
    /\ event.made \in skillRows
    /\ event.made = NewSkill(request.id, request.name, request.text)
    /\ event.made \in Active(ProjectedSkills(ProjectedFor(i)))

SkillActivationStands(request, event, i) ==
    /\ event.made \in skillRows
    /\ \E previous \in HistoryOf(skillRows, request.id) :
         /\ previous.version = request.base
         /\ event.made = NextSkill(previous, request.name, request.text)
    /\ event.made \in Active(ProjectedSkills(ProjectedFor(i)))

(* A skill nobody edited is not in the projection: a built-in one is then   *)
(* known by its own name.                                                   *)
SeededMatches(selector, skill) == skill.id \in BuiltIns /\ selector \in {skill.id, skill.name}

SkillViewStands(request, event, i) ==
    LET projected == ProjectedSkill(ProjectedFor(i), request.selector) IN
    /\ event.skill \in skillRows
    /\ IF projected = {} THEN SeededMatches(request.selector, event.skill)
                         ELSE projected = {event.skill}

SkillVersionViewStands(request, event, i) ==
    LET projected == ProjectedSkill(ProjectedFor(i), request.selector) IN
    /\ event.skill \in skillRows /\ event.skill.version = request.version
    /\ IF projected = {} THEN SeededMatches(request.selector, event.skill)
                         ELSE \A v \in projected : v.id = event.skill.id

(* ... the history of a skill in the projection is the projection's, and    *)
(* that of another one is today's table.                                    *)
SkillHistoryStands(request, event, i) ==
    LET projected == ProjectedSkill(ProjectedFor(i), request.selector)
        id        == event.active.id
        versions  == IF projected = {} THEN HistoryOf(skillRows, id)
                                       ELSE HistoryOf(ProjectedSkills(ProjectedFor(i)), id) IN
    /\ IF projected = {}
         THEN event.active \in activeSkills /\ SeededMatches(request.selector, event.active)
         ELSE projected = {event.active}
    /\ event.total = Cardinality(versions)
    /\ event.versions = Newest(versions)

ProfileCreationStands(request, event, i) ==
    /\ event.made = NewProfile(request.id, request.name, request.pins)
    /\ event.made \in Active(ProjectedProfiles(ProjectedFor(i)))

ProfileActivationStands(request, event, i) ==
    /\ \E previous \in HistoryOf(ProjectedProfiles(ProjectedFor(i)), request.id) :
         /\ previous.version = request.base
         /\ event.made = NextProfile(previous, request.name, request.pins)
    /\ event.made \in Active(ProjectedProfiles(ProjectedFor(i)))

(* materialize_agent_skill_mutation *)
PinChangeStands(request, event, i) ==
    /\ event.made.id = request.id /\ event.made.version = request.base + 1
    /\ event.made \in Active(ProjectedProfiles(ProjectedFor(i)))

ProfileListStands(event, i) ==
    event.total = Cardinality(Active(ProjectedProfiles(ProjectedFor(i))))

ProfileViewStands(request, event, i) ==
    \E v \in ProjectedProfile(ProjectedFor(i), request.selector) :
        v.id = event.id /\ v.version = event.version

ProfileHistoryStands(request, event, i) ==
    /\ ProfileViewStands(request, event, i)
    /\ event.total = Cardinality(HistoryOf(ProjectedProfiles(ProjectedFor(i)), event.id))

ProfileVersionViewStands(request, event, i) ==
    \E v \in ProjectedProfile(ProjectedFor(i), request.selector) :
        /\ v.id = event.id
        /\ \E w \in HistoryOf(ProjectedProfiles(ProjectedFor(i)), v.id) :
             w.version = request.version /\ w.version = event.version

Stands(i) ==
    LET request == log[i].request  event == log[i].event IN
    CASE event.type = "SkillCreated" -> SkillCreationStands(request, event, i)
      [] event.type = "SkillVersionActivated" -> SkillActivationStands(request, event, i)
      [] event.type = "SkillsListed" -> event.total >= Cardinality(event.skills)
      [] event.type = "SkillViewed" -> SkillViewStands(request, event, i)
      [] event.type = "SkillVersionViewed" -> SkillVersionViewStands(request, event, i)
      [] event.type = "SkillHistoryViewed" -> SkillHistoryStands(request, event, i)
      [] event.type = "AgentProfileCreated" -> ProfileCreationStands(request, event, i)
      [] event.type = "AgentProfileVersionActivated" -> ProfileActivationStands(request, event, i)
      [] event.type \in PinEvents -> PinChangeStands(request, event, i)
      [] event.type = "AgentProfilesListed" -> ProfileListStands(event, i)
      [] event.type = "AgentProfileViewed" -> ProfileViewStands(request, event, i)
      [] event.type = "AgentProfileHistoryViewed" -> ProfileHistoryStands(request, event, i)
      [] event.type = "AgentProfileVersionViewed" -> ProfileVersionViewStands(request, event, i)

(* ... and what it shows *)
View(i) ==
    LET event == log[i].event
        known == ProjectedProfiles(ProjectedFor(i)) IN
    CASE event.type = "AgentProfilesListed" -> FirstNamed(Active(known))
      [] event.type \in {"AgentProfileViewed", "AgentProfileVersionViewed"} ->
           {v \in HistoryOf(known, event.id) : v.version = event.version}
      [] event.type = "AgentProfileHistoryViewed" -> Newest(HistoryOf(known, event.id))
      [] event.type \in SkillEvents \cup ProfileEvents -> {event.made}
      [] event.type = "SkillsListed" -> event.skills
      [] event.type = "SkillHistoryViewed" -> event.versions
      [] OTHER -> {event.skill}

-----------------------------------------------------------------------------
(* Startup *)

(* validated_active_skills over what load_all_skill_versions returned       *)
StoredIsExpected(stored) == stored = Manifests \cup ProjectedSkills(Len(log))

(* load_validated_history: numbered from 1, no version repeats the one before *)
ValidHistories(rows) ==
    \A v \in rows :
        v.version > 1 => \E w \in HistoryOf(rows, v.id) :
            /\ w.version = v.version - 1
            /\ <<w.name, w.text>> # <<v.name, v.text>>

(* insert_skill_version for each built-in: the place is empty or the same   *)
FaultyBuiltInsFit(rows) ==           \* the built-in skills must be the active ones
    \A m \in Manifests : \A v \in Active(rows) : v.id = m.id => v = m

BuiltInsFit(rows) ==
    \A m \in Manifests : \A v \in HistoryOf(rows, m.id) : v.version = 1 => v = m

(* validate_skill_version_ref *)
FaultyPinsKnown(profile, rows) ==    \* only the skill is looked for
    \A pin \in profile.pins : HistoryOf(rows, pin.id) # {}

PinsKnown(profile, rows) == profile.pins \subseteq rows

(* load_all_versions of the profiles *)
PinsAllKnown(rows) == \A profile \in ProjectedProfiles(Len(log)) : PinsKnown(profile, rows)

(* reconcile_expected_versions: what is there must be the stream's, and     *)
(* what is missing is put back.                                             *)
ProfileRowsFit == profileRows \subseteq ProjectedProfiles(Len(log))

(* reconcile_startup; replace_active_skills and replace_active_profiles     *)
Startup ==
    /\ service = "down"
    /\ LET stored == skillRows \cup Manifests IN
       IF /\ BuiltInsFit(skillRows) /\ ValidHistories(stored) /\ StoredIsExpected(stored)
          /\ ProfileRowsFit /\ PinsAllKnown(stored)
         THEN /\ skillRows' = stored
              /\ activeSkills' = ExpectedActive(Len(log))
              /\ profileRows' = ProjectedProfiles(Len(log))
              /\ activeProfiles' = Active(ProjectedProfiles(Len(log)))
              /\ service' = "serving"
         ELSE service' = "refused" /\ UNCHANGED <<skillTables, profileTables>>
    /\ UNCHANGED <<log, answers, damages>>

(* The process ends, or dies between two transactions. *)
Stop ==
    /\ service = "serving"
    /\ service' = "down"
    /\ UNCHANGED <<log, answers, skillTables, profileTables, damages>>

-----------------------------------------------------------------------------
(* Commands that change something *)

Recorded(types) == Cardinality({i \in 1..Len(log) : log[i].event.type \in types})

Writes == SkillEvents \cup ProfileEvents

(* load_in: the pointers must be those of the stream *)
Loaded == service = "serving" /\ activeProfiles = Active(ProjectedProfiles(Len(log)))

(* load_active_skill and load_active_skill_by_name *)
ActiveSkill(selector) == Select(activeSkills, selector) \cap skillRows

(* The event is appended ... *)
Commit(request, event) ==
    /\ log' = Append(log, [request |-> request, event |-> event])
    /\ UNCHANGED <<service, damages>>

Receipt ==
    /\ Stands(Len(log))'
    /\ answers' = Append(answers, View(Len(log))')

(* insert_skill_version, set_active_skill, reduce and store *)
RecordSkill(type, skill, base) ==
    /\ \A v \in HistoryOf(skillRows, skill.id) : v.version # skill.version
    /\ NameFree(activeSkills, skill.id, skill.name)
    /\ Commit([id |-> skill.id, base |-> base, name |-> skill.name, text |-> skill.text],
              [type |-> type, made |-> skill])
    /\ skillRows' = skillRows \cup {skill}
    /\ StoredIsExpected(skillRows)'
    /\ activeSkills' = ExpectedActive(Len(log))'
    /\ UNCHANGED profileTables
    /\ Receipt

CreateSkill(id, name, text) ==
    /\ HistoryOf(skillRows, id) = {}
    /\ CreatesSkill(ProjectedSkills(Len(log)), NewSkill(id, name, text))
    /\ RecordSkill("SkillCreated", NewSkill(id, name, text), 0)

ActivateSkillVersion(id, name, text) ==
    \E current \in ActiveSkill(id) :
        /\ ~SkillUnchanged(current, name, text)
        /\ ActivatesSkill(ProjectedSkills(Len(log)), NextSkill(current, name, text))
        /\ RecordSkill("SkillVersionActivated", NextSkill(current, name, text), current.version)

(* insert_expected_version, reduce and store *)
RecordProfile(type, profile, base) ==
    /\ WellPinned(profile.pins) /\ PinsKnown(profile, skillRows)
    /\ \A v \in HistoryOf(profileRows, profile.id) : v.version # profile.version
    /\ Commit([id |-> profile.id, base |-> base, name |-> profile.name, pins |-> profile.pins],
              [type |-> type, made |-> profile])
    /\ profileRows' = profileRows \cup {profile}
    /\ activeProfiles' = Active(ProjectedProfiles(Len(log)))'
    /\ UNCHANGED skillTables
    /\ Receipt

CreateAgentProfile(id, name, pins) ==
    /\ CreatesProfile(ProjectedProfiles(Len(log)), NewProfile(id, name, pins))
    /\ RecordProfile("AgentProfileCreated", NewProfile(id, name, pins), 0)

(* A candidate that changes nothing is refused. *)
ActivateProfileAs(type, id, name, pins) ==
    \E current \in ProjectedProfile(Len(log), id) :
        /\ ~ProfileUnchanged(current, name, pins)
        /\ ActivatesProfile(ProjectedProfiles(Len(log)), NextProfile(current, name, pins))
        /\ RecordProfile(type, NextProfile(current, name, pins), current.version)

ActivateAgentProfileVersion(id, name, pins) ==
    ActivateProfileAs("AgentProfileVersionActivated", id, name, pins)

(* validate_assignment_operation, and the draft it makes *)
MayAssign(current, skill) ==
    /\ skill \in skillRows
    /\ HistoryOf(current.pins, skill.id) = {}
    /\ Cardinality(current.pins) < MaxPins

MayUpgrade(current, expected, replacement) ==
    /\ {expected, replacement} \subseteq skillRows
    /\ expected \in current.pins
    /\ expected.id = replacement.id /\ expected # replacement

MayUnassign(current, expected) == expected \in skillRows /\ expected \in current.pins

AssignAgentSkill(current, skill) ==
    /\ MayAssign(current, skill)
    /\ ActivateProfileAs("AgentSkillAssigned", current.id, current.name,
                         current.pins \cup {skill})

UpgradeAgentSkill(current, expected, replacement) ==
    /\ MayUpgrade(current, expected, replacement)
    /\ ActivateProfileAs("AgentSkillUpgraded", current.id, current.name,
                         (current.pins \ {expected}) \cup {replacement})

UnassignAgentSkill(current, expected) ==
    /\ MayUnassign(current, expected)
    /\ ActivateProfileAs("AgentSkillUnassigned", current.id, current.name,
                         current.pins \ {expected})

-----------------------------------------------------------------------------
(* Commands that read.  A read is recorded as well; it fails, and leaves    *)
(* nothing, when its outcome does not stand.                                *)

Read(request, event) ==
    /\ Commit(request, event)
    /\ UNCHANGED <<skillTables, profileTables>>
    /\ Receipt

ListSkills ==
    Read([selector |-> 0], [type |-> "SkillsListed", skills |-> FirstNamed(activeSkills),
                            total |-> Cardinality(activeSkills)])

ShowSkill(selector) ==
    \E skill \in ActiveSkill(selector) :
        Read([selector |-> selector], [type |-> "SkillViewed", skill |-> skill])

(* What ShowSkillHistory records *)
HistoryEvent(active) ==
    [type |-> "SkillHistoryViewed", active |-> active,
     versions |-> Newest(HistoryOf(skillRows, active.id)),
     total |-> Cardinality(HistoryOf(skillRows, active.id))]

ShowSkillHistory(selector) ==
    \E active \in ActiveSkill(selector) :
        Read([selector |-> selector], HistoryEvent(active))

ShowSkillVersion(selector, version) ==
    \E active \in ActiveSkill(selector) :
        \E skill \in HistoryOf(skillRows, active.id) :
            /\ skill.version = version
            /\ Read([selector |-> selector, version |-> version],
                    [type |-> "SkillVersionViewed", skill |-> skill])

ListAgentProfiles ==
    Read([selector |-> 0], [type |-> "AgentProfilesListed",
                            total |-> Cardinality(Active(ProjectedProfiles(Len(log))))])

ShowAgentProfile(selector) ==
    \E active \in ProjectedProfile(Len(log), selector) :
        Read([selector |-> selector],
             [type |-> "AgentProfileViewed", id |-> active.id, version |-> active.version])

ShowAgentProfileHistory(selector) ==
    \E active \in ProjectedProfile(Len(log), selector) :
        Read([selector |-> selector],
             [type |-> "AgentProfileHistoryViewed", id |-> active.id,
              version |-> active.version,
              total |-> Cardinality(HistoryOf(ProjectedProfiles(Len(log)), active.id))])

ShowAgentProfileVersion(selector, version) ==
    \E active \in ProjectedProfile(Len(log), selector) :
        \E profile \in HistoryOf(ProjectedProfiles(Len(log)), active.id) :
            /\ profile.version = version
            /\ Read([selector |-> selector, version |-> version],
                    [type |-> "AgentProfileVersionViewed", id |-> profile.id,
                     version |-> version])

-----------------------------------------------------------------------------
(* The tables are changed from outside while no process is there.           *)

Damage ==
    /\ service = "down" /\ damages < MaxDamage
    /\ damages' = damages + 1
    /\ UNCHANGED <<log, answers, service>>

(* A row is lost, with all pointers or none, or says something else.        *)
DamageSkills ==
    /\ Damage
    /\ \/ \E lost \in skillRows, left \in {activeSkills, {}} :
            skillRows' = skillRows \ {lost} /\ activeSkills' = left
       \/ \E row \in skillRows, name \in Names :
            /\ skillRows' = (skillRows \ {row}) \cup {[row EXCEPT !.name = name]}
            /\ UNCHANGED activeSkills
    /\ UNCHANGED profileTables

DamageProfiles ==
    /\ Damage
    /\ \/ \E lost \in profileRows, left \in {activeProfiles, {}} :
            profileRows' = profileRows \ {lost} /\ activeProfiles' = left
       \/ \E row \in profileRows, name \in Names :
            /\ profileRows' = (profileRows \ {row}) \cup {[row EXCEPT !.name = name]}
            /\ UNCHANGED activeProfiles
    /\ UNCHANGED skillTables

-----------------------------------------------------------------------------
Init ==
    /\ log = <<>> /\ answers = <<>>
    /\ skillRows = {} /\ activeSkills = {} /\ profileRows = {} /\ activeProfiles = {}
    /\ service = "down" /\ damages = 0

(* What a draft may pin: any version there is, and one there is not         *)
Pinnable == skillRows \cup {[id |-> id, version |-> MaxWrites + 2, name |-> name, text |-> text] :
                              id \in BuiltIns, name \in Names, text \in Texts}

Drafts == {pins \in SUBSET Pinnable : Cardinality(pins) <= MaxDrafted}

Selectors == Skills \cup Profiles \cup Names

(* Every command begins by loading the projection. *)
MayWrite == Loaded /\ Recorded(Writes) < MaxWrites
MayRead  == Loaded /\ Len(log) - Recorded(Writes) < MaxReads

WriteSkill ==
    /\ MayWrite
    /\ \E id \in Skills, name \in Names, text \in Texts :
         CreateSkill(id, name, text) \/ ActivateSkillVersion(id, name, text)

WriteProfile ==
    /\ MayWrite
    /\ \/ \E name \in Names, pins \in Drafts :
            \E id \in Profiles :
              CreateAgentProfile(id, name, pins) \/ ActivateAgentProfileVersion(id, name, pins)
       \/ \E current \in activeProfiles, skill \in skillRows :
            \/ AssignAgentSkill(current, skill)
            \/ UnassignAgentSkill(current, skill)
            \/ \E replacement \in skillRows : UpgradeAgentSkill(current, skill, replacement)

ReadSomething ==
    /\ MayRead
    /\ \/ ListSkills \/ ListAgentProfiles
       \/ \E selector \in Selectors :
            \/ ShowSkill(selector) \/ ShowSkillHistory(selector)
            \/ ShowAgentProfile(selector) \/ ShowAgentProfileHistory(selector)
            \/ \E version \in 1..MaxWrites + 1 :
                 ShowSkillVersion(selector, version) \/ ShowAgentProfileVersion(selector, version)

Next ==
    \/ Startup \/ Stop
    \/ WriteSkill \/ WriteProfile \/ ReadSomething
    \/ DamageSkills \/ DamageProfiles

Spec == Init /\ [][Next]_vars

-----------------------------------------------------------------------------
(* Properties *)

(* A serving process has every version of the stream in its tables, the     *)
(* compiled-in ones as well, and nothing else; the newest version of each   *)
(* owner is the active one.  Damage is repaired or the start is refused.    *)
RowsTellTheStream ==
    service = "serving" =>
        /\ skillRows = Manifests \cup ProjectedSkills(Len(log))
        /\ profileRows = ProjectedProfiles(Len(log))
        /\ activeSkills = Active(skillRows) /\ activeProfiles = Active(profileRows)

(* No two active skills and no two active profiles share a name, through    *)
(* creation, renaming, restarts and the repair of the tables.               *)
NamesAreNotShared ==
    service = "serving" =>
        \A active \in {activeSkills, activeProfiles} :
            \A v, w \in active : v.name = w.name => v.id = w.id

(* Every profile version ever recorded pins versions that exist exactly as  *)
(* they were pinned, one of each skill: an edit of a skill changes nobody's *)
(* profile.                                                                 *)
PinsResolve ==
    service = "serving" =>
        \A profile \in profileRows :
            /\ profile.pins \subseteq skillRows
            /\ Cardinality(profile.pins) <= MaxPins
            /\ \A a, b \in profile.pins : a.id = b.id => a = b

(* A retry of a recorded command is answered, with the view of the first    *)
(* answer, whatever was edited, renamed or repaired since.  The history of  *)
(* a built-in skill that was read before the skill was first edited is left *)
(* out: see HistoryIsShown.                                                 *)
EditedSince(i) ==
    /\ log[i].event.type = "SkillHistoryViewed"
    /\ log[i].event.active.id \in BuiltIns
    /\ HistoryOf(ProjectedSkills(Len(log)), log[i].event.active.id) # {}

RetriesAnswerTheSame ==
    service = "serving" =>
        \A i \in 1..Len(log) :
            EditedSince(i) \/ (Stands(i) /\ View(i) = answers[i])

(* Only tables that were damaged keep a process from starting. *)
UndamagedStartupIsAccepted == service = "refused" => damages > 0

(* "History lists every immutable version newest first": the history of     *)
(* every active skill can be shown.                                         *)
HistoryIsShown ==
    service = "serving" =>
        \A active \in activeSkills :
            SkillHistoryStands([selector |-> active.id], HistoryEvent(active), Len(log))
=============================================================================
