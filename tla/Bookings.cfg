SPECIFICATION Spec
CONSTANTS
  Users = {u1, u2}
  NoUser = NoUser
  Seats = {s1}
  NoSeat = NoSeat
  LockReqs = {l1}
  Reqs = {r1, r2}
  Hooks = {k1}
  Events = {e1}
  NoEvent = NoEvent
  NoOrder = NoOrder
  Kinds = {"payment.captured"}
  LockTTL = 1
  BookingTTL = 1
  MaxTime = 3
  MaxStart = 2
  MaxTokens = 2
  MaxCrashes = 0
CHECK_DEADLOCK FALSE
VIEW View
SYMMETRY Symmetry
INVARIANTS TypeOK SharedSeatCause
PROPERTY OnTimeConfirmationIsFinal
