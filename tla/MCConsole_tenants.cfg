\* One user with two tabs and two organizations, two calls under way at a time.
CONSTANTS
  t1 = t1  t2 = t2  o1 = o1  o2 = o2  p1 = p1  c1 = c1  c2 = c2
  None = None
  MaxTrouble = 1
  Tab = {t1, t2}
  Org = {o1, o2}
  Product = {p1}
  Call = {c1, c2}
SYMMETRY MCSymmetry
SPECIFICATION Spec
INVARIANTS TypeOK QuietPageNamesTheTenant LatestListIsTheTenants FiledWhereNamed
