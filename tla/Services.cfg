SPECIFICATION ServicesSpec
CONSTANTS
  x1 = x1
  x2 = x2
  y1 = y1
  y2 = y2
  Tickets = {t1}
  Junk = Junk
  Devices = {d1}
  NoDevice = NoDevice
  Scans = {x1, x2}
  Syncs = {y1, y2}
  Recs = {r1}
  NoRec = NoRec
  MaxBatch = 2
  MaxRequests = 3
  MaxFaults = 1
  Pages = {x1, x2}
  Settlers = {y1, y2}
  NoOrderYet = NoOrderYet
  SeatPrice = 100
  SeatCount = 1
  FixedFee = 20
  ServicePercent = 2
  CouponPercent = 10
  MaxDiscount = 10
  GiftBalance = 200
  Inexact = {112}
  MaxOrders = 2
  MaxAsked = 4
  CheckoutFaults = 1
  Apps = {x1, x2}
  NoApp = NoApp
  Emails = {e1, e2}
  Slugs = {g1, g2}
  Reviewers = {y1, y2}
  NoReviewer = NoReviewer
  Users = {x1, x2}
  NoUser = NoUser
  Seats = {s1}
  NoSeat = NoSeat
  LockReqs = {l1}
  Reqs = {q1}
  Hooks = {k1}
  Events = {v1}
  NoEvent = NoEvent
  NoOrder = NoOrder
  Kinds = {"payment.captured"}
  LockTTL = 1
  BookingTTL = 1
  MaxTime = 1
  MaxStart = 0
  MaxTokens = 1
  MaxCrashes = 0
  Tabs = {x1, x2}
  Tokens = {y1, y2}
  NoToken = NoToken
  NoCall = NoCall
  TokenKinds = {"USER", "TENANT_ADMIN", "ADMIN_NO_TENANT"}
  Visited = {"/admin"}
  MaxHops = 4
  MaxChanges = 3
  MaxLeaves = 2
  Updates = {x1, x2, u3}
  NoUpdate = NoUpdate
  Values = {10, 30}
  Missing = Missing
  MaxPercent = 20
  Issues = {x1, x2, i3}
  BookedSeats = {y1, y2}
SYMMETRY ServicesSymmetry
VIEW ServicesView
CHECK_DEADLOCK FALSE
INVARIANTS
  ServicesTypeOK
  OneEntryAtTheGate SecondEntryOnlyByOverlap ReplayWritesNothing NoEntryAfterRevocation
  ShownIsCharged AmountsAddUp PaidFailedCause RevenueIsReceived PaidTwiceOnlyByTwins
  ApprovedIsMade MadeStaysApproved
  HopsEnd LoggedOutStaysOut CallsAreItsOwn
  ShownIsTrue ChosenIsShownFree ShownFreeWasFree FeeAccounted TicketsIssued
PROPERTY ConfirmedStays
