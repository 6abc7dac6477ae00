SPECIFICATION FairSpec
CONSTANTS
  Users = {u1}
  NoUser = NoUser
  Seats = {s1}
  NoSeat = NoSeat
  LockReqs = {l1}
  Reqs = {r1}
  Hooks = {k1, k2}
  Events = {e1}
  NoEvent = NoEvent
  NoOrder = NoOrder
  Kinds = {"payment.captured"}
  LockTTL = 1
  BookingTTL = 1
  MaxTime = 2
  MaxStart = 1
  MaxTokens = 1
  MaxCrashes = 2
CHECK_DEADLOCK FALSE
INVARIANTS EventAdmittedOnce PendingIsWatched
PROPERTIES PendingResolvesIfWatched ImplementsLifecycle
