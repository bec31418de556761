\* Two calls with one key, perhaps with different bodies, against the client and a worker, under fairness.
CONSTANTS
  b1 = b1  b2 = b2  k1 = k1  k2 = k2  s1 = s1  s2 = s2  usd = usd  egp = egp
  r1 = r1  r2 = r2  w1 = w1  w2 = w2  id1 = id1  id2 = id2
  None = None
  Buyer = {b1}
  Seller = {s1, s2}
  Currency = {usd, egp}
  Key = {k1}
  Product = {1, 2}
  SellerOf <- MCSellerOf
  CurrencyOf <- MCTwoCurrencies
  Price = {1}
  MaxQty = 1
  Basket <- MCEitherOrBoth
  CheckoutId = {id1, id2}
  Request = {r1, r2}
  BuyerOf <- MCSameBuyer
  KeyOf <- MCSameKey
  Worker = {w1}
  BatchSize = 1
  Retries = 1
  Stock = {1}
  Visibility = {TRUE}
SPECIFICATION FairSpec
INVARIANTS KeysNameTheirCheckouts AnswersAgreeWithKeys
PROPERTIES EveryCallIsAnswered
