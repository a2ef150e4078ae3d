\* Two keys, up to three asked for and up to three rows in a reply, three attempts.
SPECIFICATION Spec
CONSTANTS
  Keys = {k1, k2}
  MaxRows = 3
  MaxAttempts = 3
  NoAnswer = NoAnswer
  NoFile = NoFile
INVARIANTS ResultIsSound EndIsHonest
PROPERTY KeepsPromise
