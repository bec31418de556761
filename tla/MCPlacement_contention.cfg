\* Two buyers order from overlapping carts while two worker runs restock and the sellers edit their catalogs.
CONSTANTS
  b1 = b1  b2 = b2  k1 = k1  k2 = k2  s1 = s1  s2 = s2  usd = usd  egp = egp
  r1 = r1  r2 = r2  w1 = w1  w2 = w2  id1 = id1  id2 = id2
  None = None
  Buyer = {b1, b2}
  Seller = {s1, s2}
  Currency = {usd}
  Key = {k1}
  Product = {1, 2}
  SellerOf <- MCSellerOf
  CurrencyOf <- MCOneCurrency
  Price = {1}
  MaxQty = 1
  Basket <- MCOneOfEach
  CheckoutId = {id1, id2}
  Request = {r1, r2}
  BuyerOf <- MCTwoBuyers
  KeyOf <- MCSameKey
  Worker = {w1, w2}
  BatchSize = 1
  Retries = 0
  Stock = {1}
  Visibility = {TRUE, FALSE}
SYMMETRY MCIdSymmetry
SPECIFICATION Spec
INVARIANTS TypeOK NoCircularWait
PROPERTIES UnitsConserved ImplementsAtomicCheckout
