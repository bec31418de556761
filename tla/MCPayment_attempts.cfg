\* Three attempts, any of which may die, on a checkout and on another buyer's.
CONSTANTS
  b1 = b1  b2 = b2  a1 = a1  a2 = a2  a3 = a3  c1 = c1  c2 = c2
  None = None
  Buyer = {b1, b2}
  CheckoutId = {c1, c2}
  OwnerOf <- MCOwnerOf
  Attempt = {a1, a2, a3}
  BuyerOf <- MCBuyerOf
  Mortal = {a1, a2, a3}
CHECK_DEADLOCK FALSE
SPECIFICATION FairSpec
INVARIANTS TypeOK ChargedOnce MoneyFollowsCheckout NoChargeUnrecorded AnswersAreTrue
PROPERTIES ImplementsOnePayment RetryResolves
