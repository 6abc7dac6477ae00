SPECIFICATION LiveSpec
CONSTANTS
  Bookings = {b1}
  OrderReqs = {c1}
  Hooks = {k1}
  NoBooking = NoBooking
  MaxOrders = 1
  MaxFaults = 0
  Calls = {c1, c2, c3}
  Threshold = 3
  Window = 1
  Cooldown = 2
CHECK_DEADLOCK FALSE
INVARIANTS TurnedAwayForCooldown OpenAfterFailures
PROPERTIES InProgressResolves CircuitRecovers ImplementsPromise
