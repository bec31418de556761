\* Three calls at once, of three users and two organizations.
SPECIFICATION Spec
CONSTANTS
  ann = ann
  bob = bob
  cat = cat
  acme = acme
  rival = rival
  p1 = p1
  User <- MCUser
  Org <- MCOrg
  Call = {k1, k2, k3}
  Ask <- MCAsk
  Tables <- MCTables
  None = None
  Product = {p1}
  Price = {0, 1}
  Stock = {0, 1}
  Catalogs <- MCCatalogs
  NoProduct = NoProduct
SYMMETRY Calls
INVARIANTS TypeOK KeepsAnOwner AnswersAccountForMembers
PROPERTIES GiveawaysAreRaces WithinTheTenant
CHECK_DEADLOCK FALSE
