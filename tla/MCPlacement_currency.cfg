\* A draft is published between the read before the locks and the read under them.
CONSTANTS
  b1 = b1  b2 = b2  k1 = k1  k2 = k2  s1 = s1  s2 = s2  usd = usd  egp = egp
  r1 = r1  r2 = r2  w1 = w1  w2 = w2  id1 = id1  id2 = id2
  None = None
  Buyer = {b1}
  Seller = {s1, s2}
  Currency = {usd, egp}
  Key = {k1}
  Product = {1, 2}
  SellerOf <- MCSellerOf
  CurrencyOf <- MCTwoCurrencies
  Price = {1}
  MaxQty = 1
  Basket <- MCBaskets
  CheckoutId = {id1, id2}
  Request = {r1}
  BuyerOf <- MCSameBuyer
  KeyOf <- MCSameKey
  Worker = {}
  BatchSize = 2
  Retries = 0
  Stock = {1}
  Visibility = {TRUE, FALSE}
SPECIFICATION Spec
INVARIANTS OneCurrency
