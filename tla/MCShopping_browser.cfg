\* A tab, another device, two requests at a time, a seller who raises a price once.
CONSTANTS
  me = me  s1 = s1  usd = usd  t1 = t1  c1 = c1  c2 = c2
  k1 = k1  k2 = k2  id1 = id1  id2 = id2
  None = None
  Buyer = {me}
  Me = me
  Seller = {s1}
  Currency = {usd}
  Key = {k1, k2}
  Product = {1}
  SellerOf <- MCSellerOf
  CurrencyOf <- MCCurrencyOf
  Price = {1, 2}
  Change <- MCRise
  MaxQty = 1
  Basket <- MCBaskets
  CheckoutId = {id1, id2}
  Tab = {t1}
  Call = {c1, c2}
  Stock = {1}
SYMMETRY MCSymmetry
SPECIFICATION Spec
INVARIANTS TypeOK OneAttemptOneCheckout QuietPageIsFresh
PROPERTIES PaidAsShown
CHECK_DEADLOCK FALSE
