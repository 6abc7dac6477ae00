SPECIFICATION Spec
CONSTANTS
  Bookings = {b1}
  OrderReqs = {c1}
  Hooks = {k1, k2}
  NoBooking = NoBooking
  MaxOrders = 1
  MaxFaults = 1
CHECK_DEADLOCK FALSE
SYMMETRY Symmetry
INVARIANTS TypeOK ConfirmedIsPaid RefundIsBooked
PROPERTY ConfirmedKeepsSeats
