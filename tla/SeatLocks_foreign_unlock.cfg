SPECIFICATION LockSpec
CONSTANTS
  Users = {u1, u2}
  NoUser = NoUser
  Seats = {s1}
  NoSeat = NoSeat
  LockReqs = {h1, h2}
  LockTTL = 2
  MaxTime = 5
  MaxTokens = 3
  MaxCrashes = 0
CHECK_DEADLOCK FALSE
PROPERTY UserUnlocksOwnLock
