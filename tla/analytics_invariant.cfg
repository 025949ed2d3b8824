CONSTANTS
  ann = ann
  bob = bob
  a1 = a1
  a2 = a2
  b1 = b1
  algebra = algebra
  proof = proof
  r1 = r1
  r2 = r2
  None = None
  Users = {ann, bob}
  Attempts = {a1, a2, b1}
  OwnerOf <- MCOwnerOf
  Old = {a1}
  Skills = {algebra, proof}
  Versions = {1, 2}
  SkillsOf <- MCSkillsOf
  Requests = {r1, r2}
SPECIFICATION Spec
INVARIANTS AnalyticsInv
SYMMETRY AnalyticsSymmetry
CHECK_DEADLOCK FALSE
