SPECIFICATION Spec
CONSTANTS
  Users = {u1}
  NoUser = NoUser
  Seats = {s1}
  NoSeat = NoSeat
  LockReqs = {l1}
  Reqs = {r1}
  Hooks = {k1}
  Events = {e1}
  NoEvent = NoEvent
  NoOrder = NoOrder
  Kinds = {"payment.captured", "payment.failed"}
  LockTTL = 1
  BookingTTL = 1
  MaxTime = 3
  MaxStart = 2
  MaxTokens = 1
  MaxCrashes = 0
CHECK_DEADLOCK FALSE
INVARIANT TicketOnSuccess
