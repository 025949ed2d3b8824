CONSTANTS
  good = good
  open = open
  bad = bad
  k1 = k1
  r1 = r1
  r2 = r2
  None = None
  Contents = {good, bad}
  Valid = {good}
  Resolved = {good}
  Forms = {bad}
  Keys = {k1}
  MaxVersion = 2
  MaxConfig = 3
  Requests = {r1, r2}
SPECIFICATION Spec
INVARIANTS TypeOK OneApproved KeyAnswersOnce
PROPERTIES ApprovalFrozen ConfigurationsNumbered
SYMMETRY RequestSymmetry
