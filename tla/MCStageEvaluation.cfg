\* Two stages, three commands at a time or one after the other, two edits.
SPECIFICATION Spec
CONSTANTS
  research = research
  keep = keep
  Processes = {p1, p2}
  Stages <- TwoStages
  Order <- TwoOrder
  Texts = {t1, t2}
  MaxEdits = 2
  MaxStarts = 3
  NoText = NoText
  NoFile = NoFile
  Partial = Partial
SYMMETRY Symmetry
INVARIANTS ResultStands ExitCodeIsHonest
PROPERTY OutcomeIsFinal
