CONSTANTS
  Levels = {"Middle", "Senior"}
  Drafts = {"d1", "d2"}
  Phases = {"p1", "p2"}
  MaxMessages = 5
  MaxWaiting = 2
  None = None
SPECIFICATION FairSpec
INVARIANTS
  DraftIsLatest
  AssessmentIsCurrent
  NeverStuck
  OutcomeStays
PROPERTIES ImplementsAgreement Answered
