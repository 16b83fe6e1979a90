SPECIFICATION Spec
CONSTANTS
  o1 = o1
  o2 = o2
  fruit = fruit
  shirt = shirt
  r1 = r1
  r2 = r2
  Orders = {o1}
  Products = {fruit, shirt}
  Requests = {r1, r2}
  Batches = {1, 2, 3, 4, 5}
  LegacyBatches = {5}
  Perishable = {}
  ProductOf <- LineProductOf
  Received <- LineReceived
  Moved <- LineMoved
  Cart <- SameCart
  MaxInFlight = 2
  MaxAllocs = 4
  Targets = {"PAID"}
  MaxAge = 1
  MaxCalls = 3
  MaxOverlaps = 0
  MaxFaults = 0
INVARIANT ConsumedOnce
SYMMETRY Slots
