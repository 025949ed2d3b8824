CONSTANTS
  good = good
  open = open
  bad = bad
  k1 = k1
  r1 = r1
  r2 = r2
  None = None
  Contents = {good, open, bad}
  Valid = {good, open}
  Resolved = {good, bad}
  Forms = {open}
  Keys = {}
  MaxVersion = 2
  MaxConfig = 3
  Requests = {r1, r2}
SPECIFICATION Spec
PROPERTY ImmutableByVersion
