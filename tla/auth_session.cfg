CONSTANTS
  e1 = e1
  t1 = t1
  t2 = t2
  t3 = t3
  r1 = r1
  r2 = r2
  None = None
  Emails = {e1}
  Tokens = {t1, t2, t3}
  Requests = {r1, r2}
SPECIFICATION Spec
INVARIANTS TypeOK HandlerRunsOnce
PROPERTIES SignedOutForCause LogoutEndsSession ImplementsContract
SYMMETRY AuthSymmetry
CHECK_DEADLOCK FALSE
