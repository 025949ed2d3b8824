CONSTANTS
  a1 = a1
  a2 = a2
  r1 = r1
  r2 = r2
  w1 = w1
  w2 = w2
  Artifacts = {a1}
  MaxJobs = 1
  Requests = {r1, r2}
  Workers = {w1, w2}
  MaxFiles = 1
  MaxRetries = 1
  MaxCrashes = 1
SPECIFICATION Spec
INVARIANTS TypeOK FileStatesTrue JobsTracked OneProcessor ApprovalCoversFiles
SYMMETRY ProcessSymmetry
CHECK_DEADLOCK FALSE
