SPECIFICATION Spec
CONSTANTS
  None = None
  k1 = k1
  k2 = k2
  Keys = {k1, k2}
  EditedFields = {"display name"}
  MaxVersion = 2
  MaxWaiting = 2
  Sessions <- MCSessions
  Suggested = TRUE
INVARIANT ReviewsAgree
INVARIANT PhraseNamesTheForm
PROPERTY HostReturns
