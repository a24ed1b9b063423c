SPECIFICATION Spec
CONSTANTS
  None = None
  a = a
  b = b
  n1 = n1
  s1 = s1
  e1 = e1
  k1 = k1
  k2 = k2
  Profiles = {a, b}
  FirstAgent = a
  Notes = {n1}
  Suggestions = {s1}
  Summaries = {e1}
  MaxVersion = 2
  EditedFields = {"display name"}
  MaxAgentVersion = 2
  Skills = {k1, k2}
  EditedSkillFields = {"display name"}
  MaxSkillVersion = 2
  Tours <- DeskTours
INVARIANT NothingHeldIsForgotten
INVARIANT OfferedIsRegistered
INVARIANT ShownIsSelected
INVARIANT AssignmentIsWhatItSays
PROPERTY DeferredIsDone
