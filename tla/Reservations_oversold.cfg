SPECIFICATION Spec
CONSTANTS
  o1 = o1
  o2 = o2
  fruit = fruit
  shirt = shirt
  r1 = r1
  r2 = r2
  Orders = {o1, o2}
  Products = {fruit, shirt}
  Requests = {r1, r2}
  Batches = {1, 2, 3, 4}
  LegacyBatches = {3, 4}
  Perishable = {fruit}
  ProductOf <- RaceProductOf
  Received <- RaceReceived
  Moved <- RaceMoved
  Cart <- SameCart
  MaxInFlight = 2
  MaxAllocs = 3
  Targets = {}
  MaxAge = 0
  MaxCalls = 2
  MaxOverlaps = 1
  MaxFaults = 0
INVARIANT NotOversold
SYMMETRY Slots
