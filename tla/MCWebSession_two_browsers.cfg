\* Two browsers of one web process.
CONSTANTS
  b1 = b1  b2 = b2  r1 = r1  r2 = r2  r3 = r3  r4 = r4
  t1 = t1  t2 = t2  t3 = t3  t4 = t4  c1 = c1  c2 = c2  c3 = c3
  None = None
  Browser = {b1, b2}
  Request = {r1, r2, r3}
  BrowserOf <- MCTwoBrowsers
  Token = {t1, t2, t3, t4}
  Call = {c1, c2, c3}
SYMMETRY MCTokenSymmetry
CHECK_DEADLOCK FALSE
SPECIFICATION Spec
INVARIANTS NoHonestReplay
