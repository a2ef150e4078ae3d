\* Two repairs, three answers for each call of the model.
CONSTANTS
  Selections <- MCSelections
  TooFew <- MCTooFew
  Rubrics <- MCRubrics
  checks <- MCChecks
  Renderable <- MCRenderable
  mismatches <- MCMismatches
  JudgeReports <- MCReports
  MaxRepairs = 2
  Attempts = 3
  None = None
  Known = {"d"}
  CriteriaMin = 1
  CriteriaMax = 2
  WeightTotal = 2
  Scores = {0, 1}
  Ids = {"a", "b", "c", "d", "e", "x"}
  Texts = {"no", "yes", "a <br> of its own"}
  Blank = "blank"
SPECIFICATION FairSpec
INVARIANTS
  PublishedIsVerified
  FindingsAreCurrent
  RunExplainsItself
  DeliveredSheetIsWhole
  GivesUpOnTheHopeless
PROPERTIES ImplementsDelivery Termination
