CONSTANTS
  teacher = teacher
  math = math
  art = art
  e1 = e1
  e2 = e2
  a1 = a1
  c1 = c1
  None = None
  Owner <- MCOwner
  SubjectOf <- MCSubjectOf
  Classes = {c1}
  Users = {teacher, ann}
  Subjects = {math, art}
  Exams = {e1, a1}
  Skills = {}
  Learners = {}
  Editors = {u1, u2}
  Readers = {}
SPECIFICATION Spec
INVARIANTS TypeOK ScopeConsistent ReachableIsListed
SYMMETRY AccessSymmetry
CHECK_DEADLOCK FALSE
