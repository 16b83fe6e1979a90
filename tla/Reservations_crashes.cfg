SPECIFICATION FairSpec
CONSTANTS
  o1 = o1
  o2 = o2
  fruit = fruit
  shirt = shirt
  r1 = r1
  r2 = r2
  Orders = {o1, o2}
  Products = {fruit, shirt}
  Requests = {r1}
  Batches = {1, 2, 3, 4, 5}
  LegacyBatches = {4, 5}
  Perishable = {}
  ProductOf <- CrashProductOf
  Received <- CrashReceived
  Moved <- CrashMoved
  Cart <- CrashCart
  MaxInFlight = 1
  MaxAllocs = 4
  Targets = {"PAID", "CANCELLED"}
  MaxAge = 2
  MaxCalls = 2
  MaxOverlaps = 0
  MaxFaults = 2
INVARIANT CrashCostsOneLine
PROPERTIES
  ReservationReleased
  UnpaidCancelled
