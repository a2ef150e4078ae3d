\* Evaluations of two checks; labels for condition D may be malformed.
SPECIFICATION FairSpec
CONSTANTS
  s0 = s0
  s1 = s1
  s2 = s2
  Sheets <- MCSheets
  initial = s0
  harness <- MCHarness
  Unrenderable = {s2}
  Conditions <- MCConditions
  settings <- MCSettings
  Orders <- MCOrders
  Malformed = {"D"}
  Checks = {k1, k2}
  None = None
INVARIANT RowsAreComparable
PROPERTY EveryConditionIsRecorded
