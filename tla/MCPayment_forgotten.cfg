\* One attempt that does not die, on a checkout the worker cancels meanwhile.
CONSTANTS
  b1 = b1  b2 = b2  a1 = a1  a2 = a2  a3 = a3  c1 = c1  c2 = c2
  None = None
  Buyer = {b1, b2}
  CheckoutId = {c1}
  OwnerOf <- MCOwnerOfOne
  Attempt = {a1}
  BuyerOf <- MCBuyerOf
  Mortal = {}
CHECK_DEADLOCK FALSE
SPECIFICATION FairSpec
PROPERTIES CaptureAfterCancelIsRefunded
