CONSTANTS
  good = good
  open = open
  bad = bad
  k1 = k1
  r1 = r1
  r2 = r2
  None = None
  Contents = {good, bad}
  Valid = {good}
  Resolved = {good}
  Forms = {}
  Keys = {k1}
  MaxVersion = 3
  MaxConfig = 1
  Requests = {r1, r2}
SPECIFICATION Spec
INVARIANTS KeyAnswersOnce
SYMMETRY RequestSymmetry
