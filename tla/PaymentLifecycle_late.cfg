SPECIFICATION FairSpec
CONSTANTS
  Bookings = {b1}
  OrderReqs = {c1}
  Hooks = {k1}
  NoBooking = NoBooking
  MaxOrders = 1
  MaxFaults = 0
CHECK_DEADLOCK FALSE
PROPERTY LatePaymentRefunded
