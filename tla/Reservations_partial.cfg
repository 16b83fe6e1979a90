SPECIFICATION Spec
CONSTANTS
  o1 = o1
  o2 = o2
  fruit = fruit
  shirt = shirt
  r1 = r1
  r2 = r2
  Orders = {o1, o2}
  Products = {fruit, shirt}
  Requests = {r1}
  Batches = {1, 2, 3, 4, 5}
  LegacyBatches = {4, 5}
  Perishable = {}
  ProductOf <- CrashProductOf
  Received <- CrashReceived
  Moved <- CrashMoved
  Cart <- LineCart
  MaxInFlight = 1
  MaxAllocs = 8
  Targets = {"PAID"}
  MaxAge = 1
  MaxCalls = 4
  MaxOverlaps = 0
  MaxFaults = 0
PROPERTY LeavesPendingHoldingStock
