SPECIFICATION FairSpec
CONSTANTS
  Users = {u1}
  NoUser = NoUser
  Seats = {s1}
  NoSeat = NoSeat
  LockReqs = {l1}
  Reqs = {r1}
  Hooks = {k1}
  Events = {e1}
  NoEvent = NoEvent
  NoOrder = NoOrder
  Kinds = {"payment.captured"}
  LockTTL = 1
  BookingTTL = 9
  MaxTime = 2
  MaxStart = 2
  MaxTokens = 1
  MaxCrashes = 1
CHECK_DEADLOCK FALSE
PROPERTY PaidIsConfirmed
