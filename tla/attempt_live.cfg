CONSTANTS
  a1 = a1
  a2 = a2
  q1 = q1
  q2 = q2
  r1 = r1
  r2 = r2
  blank = blank
  right = right
  None = None
  Open = {q2}
  Points <- MCPoints
  LocalScore <- MCLocalScore
  Blank = blank
  Questions = {q2}
  Attempts = {a1}
  Answers = {blank, right}
  Flags = {FALSE}
  Requests = {r1, r2}
  Vertex = TRUE
  MaxRetries = 1
  VersionBound = 2
SPECIFICATION FairSpec
PROPERTY RequestsEnd
