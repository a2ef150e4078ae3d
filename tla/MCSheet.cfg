CONSTANTS
  Selections <- MCSelections
  Rubrics <- MCRubrics
  Known = {"d"}
  CriteriaMin = 1
  CriteriaMax = 2
  WeightTotal = 2
  Scores = {0, 1}
  Ids = {"a", "b", "c", "d", "e", "t", "x"}
  Texts = {"no", "yes", "well"}
  Blank = "blank"
  MaxLength = 5
SPECIFICATION SheetSpec
INVARIANTS
  PassedSheetIsSound
  RepairHasAWayOut
  TextComesBack
PROPERTIES SelectionErrorsStand
