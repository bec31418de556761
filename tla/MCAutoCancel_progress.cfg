\* Two processes, three checkouts in batches of two, one failure.
SPECIFICATION FairSpec
CONSTANTS
  Process = {w1, w2}
  Checkout = {c1, c2, c3}
  Product = {p1}
  ItemsOf <- OneUnitEach
  MaxInt = 3
  BatchSize = 2
  MaxFaults = 1
INVARIANTS TypeOK OneRunAtATime NoRunAfterDisconnect
PROPERTIES LateButNeverLost StopEnds
