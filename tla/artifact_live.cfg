CONSTANTS
  a1 = a1
  a2 = a2
  r1 = r1
  r2 = r2
  w1 = w1
  w2 = w2
  Artifacts = {a1}
  MaxJobs = 2
  Requests = {r1}
  Workers = {w1}
  MaxFiles = 1
  MaxRetries = 0
  MaxCrashes = 1
SPECIFICATION FairSpec
PROPERTIES JobsSettle
CHECK_DEADLOCK FALSE
