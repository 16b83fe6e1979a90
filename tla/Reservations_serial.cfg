SPECIFICATION Spec
CONSTANTS
  o1 = o1
  o2 = o2
  fruit = fruit
  shirt = shirt
  r1 = r1
  r2 = r2
  Orders = {o1, o2}
  Products = {fruit, shirt}
  Requests = {r1}
  Batches = {1, 2, 3, 4, 5}
  LegacyBatches = {5}
  Perishable = {fruit}
  ProductOf <- LineProductOf
  Received <- LineReceived
  Moved <- LineMoved
  Cart <- LineCart
  MaxInFlight = 1
  MaxAllocs = 4
  Targets = {"PENDING", "PAID", "PREPARING", "SHIPPED", "DELIVERED", "CANCELLED"}
  MaxAge = 2
  MaxCalls = 4
  MaxOverlaps = 0
  MaxFaults = 0
INVARIANTS
  StatusMatchesQuantity
  OldestFirst
PROPERTY KeepsPromise
