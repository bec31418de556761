\* Three calls, with any token, on one session.
CONSTANTS
  s1 = s1  t1 = t1  t2 = t2  t3 = t3  t4 = t4  c1 = c1  c2 = c2  c3 = c3
  None = None
  Session = {s1}
  Token = {t1, t2, t3, t4}
  Call = {c1, c2, c3}
CHECK_DEADLOCK FALSE
SPECIFICATION Spec
INVARIANTS TypeOK OneLiveToken SecondUseEndsSession
PROPERTIES RevocationIsFinal
