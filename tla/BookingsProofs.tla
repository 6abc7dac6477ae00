--------------------------- MODULE BookingsProofs ---------------------------
(***************************************************************************)
(* Proofs about Bookings for every number of users, seats, requests,       *)
(* handlers and events, every TTL and every bound.                         *)
(***************************************************************************)
EXTENDS Bookings, SeatLocksProofs, TLAPS

----------------------------------------------------------------------------
(* The inductive invariant *)

\* Tokens on a key only grow ...
TokenOrder ==
  /\ \A s \in Seats : lock[s].token < nextToken
  /\ \A r \in Reqs, s \in Seats :
       /\ req[r].tok[s] < nextToken
       /\ lock[s].token # 0 => req[r].tok[s] <= lock[s].token

\* ... and a token has one owner.
TokenOwner ==
  /\ \A r \in Reqs, s \in Seats :
       req[r].tok[s] # 0 /\ lock[s].token = req[r].tok[s]
         => lock[s].user = req[r].user
  /\ \A r, q \in Reqs, s \in Seats :
       req[r].tok[s] # 0 /\ req[r].tok[s] = req[q].tok[s]
         => req[r].user = req[q].user

\* What a request has learnt by the time it is at a step
Progress(r) ==
  /\ req[r].pc = "idle" => \A s \in Seats : req[r].tok[s] = 0
  /\ req[r].pc = "validate" =>
       \A s \in req[r].seats \ req[r].gets : req[r].tok[s] # 0
  /\ req[r].pc \in {"clock", "check", "order", "create"}
     \/ booking[r].status # "none" =>
       \A s \in req[r].seats : req[r].tok[s] # 0
  /\ req[r].pc \in {"idle", "validate", "clock", "check", "order", "create",
                    "rejected"} => booking[r].status = "none"
  /\ req[r].pc \in {"enqueue", "release", "done"} => booking[r].status # "none"
  /\ req[r].now <= clock

RequestProgress == \A r \in Reqs : Progress(r)

\* A booking that gives its seats up for good, unless it is confirmed late
Dead(b) ==
  /\ booking[b].status # "none"
  /\ booking[b].status = "CONFIRMED" => b \in late
  /\ booking[b].status = "PENDING" => booking[b].expiresAt <= clock

\* Nothing expires early, and what a webhook or a worker is about to update
\* is what it read, or worse.
WriterTargets ==
  /\ \A b \in Reqs :
       /\ booking[b].status = "EXPIRED" => booking[b].expiresAt <= clock
       /\ job[b].pc = "update" => Dead(b) /\ booking[b].expiresAt <= clock
  /\ \A h \in Hooks : hook[h].pc = "confirm" =>
       booking[sent[hook[h].event].order].status # "none"

\* A request that was let through although an older lock on one of its seats
\* led to a booking was let through because that booking was dead.
Passed(r) == req[r].pc \in {"order", "create"} \/ booking[r].status # "none"

OlderLockLost ==
  \A b, r \in Reqs : \A s \in req[b].seats \cap req[r].seats :
    /\ booking[b].status # "none" /\ b \in held
    /\ req[b].tok[s] < req[r].tok[s]
    /\ Passed(r)
    => Dead(b)

\* The history of the lock speaks of bookings that exist.
HeldExists == \A b \in held : booking[b].status # "none"

SaleInv ==
  /\ TypeOK /\ TokenOrder /\ TokenOwner /\ RequestProgress
  /\ WriterTargets /\ HeldExists /\ OlderLockLost
----------------------------------------------------------------------------
(* Types *)

\* The lock variables keep their types when they do not change.
LEMMA LockTypeFrame ==
  ASSUME LockTypeOK, UNCHANGED lockVars
  PROVE  LockTypeOK'
BY DEF LockTypeOK, lockVars

\* A broadcast keeps shown in its type.
LEMMA BroadcastType ==
  ASSUME LockTypeOK, NEW b, NEW t \in Broadcasts, Broadcast(b, t)
  PROVE  shown' \in [Seats -> Broadcasts]
BY DEF LockTypeOK, Broadcast

\* A new program counter, or a new value of what goes with it, leaves a
\* request record in its type.
LEMMA ReqUpdate ==
  ASSUME NEW x \in ReqType
  PROVE  /\ \A pc \in ReqPCs : [x EXCEPT !.pc = pc] \in ReqType
         /\ \A pc \in ReqPCs, n \in Nat :
              [x EXCEPT !.pc = pc, !.now = n] \in ReqType
         /\ \A pc \in ReqPCs, u \in Users, S \in SUBSET Seats :
              [x EXCEPT !.pc = pc, !.user = u, !.seats = S, !.gets = S] \in ReqType
         /\ \A pc \in ReqPCs, G \in SUBSET Seats :
              [x EXCEPT !.pc = pc, !.gets = G] \in ReqType
         /\ \A pc \in ReqPCs, G \in SUBSET Seats, t \in [Seats -> Nat] :
              [x EXCEPT !.pc = pc, !.gets = G, !.tok = t] \in ReqType
         /\ \A G, D \in SUBSET Seats : [x EXCEPT !.gets = G, !.dels = D] \in ReqType
         /\ \A D \in SUBSET Seats : [x EXCEPT !.dels = D] \in ReqType
BY DEF ReqType

\* A step of initiateBooking keeps the types.
LEMMA InitiateType ==
  ASSUME TypeOK, NEW r \in Reqs, InitiateStep(r) \/ AbortInitiate(r)
  PROVE  TypeOK'
<1>1. CASE ReadClock(r)
  <2>1. req' \in [Reqs -> ReqType]
    BY <1>1, ReqUpdate DEF ReadClock, TypeOK, LockTypeOK, ReqPCs
  <2> QED
    BY <1>1, <2>1, LockTypeFrame DEF ReadClock, TypeOK
<1>2. CASE CheckExisting(r)
  <2>1. req' \in [Reqs -> ReqType]
    BY <1>2, ReqUpdate DEF CheckExisting, TypeOK, ReqPCs
  <2> QED
    BY <1>2, <2>1, LockTypeFrame DEF CheckExisting, TypeOK
<1>3. CASE CreateOrder(r)
  <2>1. req' \in [Reqs -> ReqType]
    BY <1>3, ReqUpdate DEF CreateOrder, TypeOK, ReqPCs
  <2> QED
    BY <1>3, <2>1, LockTypeFrame DEF CreateOrder, TypeOK
<1>4. CASE CreateBooking(r)
  <2>1. req' \in [Reqs -> ReqType]
    BY <1>4, ReqUpdate DEF CreateBooking, TypeOK, ReqPCs
  <2>2. req[r].now + BookingTTL \in Nat
    BY BookingTTLAssumption DEF TypeOK, ReqType
  <2>3. booking' \in [Reqs -> BookingType]
    BY <1>4, <2>2 DEF CreateBooking, TypeOK, BookingType, Statuses
  <2> QED
    BY <1>4, <2>1, <2>3, LockTypeFrame DEF CreateBooking, TypeOK
<1>5. CASE EnqueueExpiry(r)
  <2>1. req[r].seats \in SUBSET Seats
    BY DEF TypeOK, ReqType
  <2>2. req' \in [Reqs -> ReqType]
    BY <1>5, <2>1, ReqUpdate DEF EnqueueExpiry, TypeOK, ReqPCs
  <2>3. job' \in [Reqs -> JobType]
    BY <1>5 DEF EnqueueExpiry, TypeOK, LockTypeOK, JobType, BookingType
  <2> QED
    BY <1>5, <2>2, <2>3, LockTypeFrame DEF EnqueueExpiry, TypeOK
<1>6. CASE FinishInitiate(r)
  <2>1. shown' \in [Seats -> Broadcasts]
    BY <1>6, BroadcastType DEF FinishInitiate, Broadcasts, TypeOK
  <2>2. req' \in [Reqs -> ReqType]
    BY <1>6, ReqUpdate DEF FinishInitiate, TypeOK, ReqPCs
  <2> QED
    BY <1>6, <2>1, <2>2 DEF FinishInitiate, TypeOK, LockTypeOK
<1>7. ASSUME NEW s \in Seats, ValidateLock(r, s)
      PROVE  TypeOK'
  <2>1. /\ req[r].gets \ {s} \in SUBSET Seats
        /\ [req[r].tok EXCEPT ![s] = lock[s].token] \in [Seats -> Nat]
    BY DEF TypeOK, LockTypeOK, ReqType
  <2>2. (IF req[r].gets = {s} THEN "clock" ELSE "validate") \in ReqPCs
    BY DEF TypeOK, ReqType, ReqPCs
  <2>3. "rejected" \in ReqPCs
    BY DEF ReqPCs
  <2>4. CASE OwnedBy(s, req[r].user)
    <3>1. req' = [req EXCEPT ![r] =
                    [req[r] EXCEPT !.pc = IF req[r].gets = {s} THEN "clock"
                                          ELSE "validate",
                                   !.gets = req[r].gets \ {s},
                                   !.tok = [req[r].tok EXCEPT ![s] = lock[s].token]]]
      BY <1>7, <2>4 DEF ValidateLock, TypeOK
    <3>2. req[r] \in ReqType /\ req \in [Reqs -> ReqType]
      BY DEF TypeOK
    <3> DEFINE x == [req[r] EXCEPT !.pc = IF req[r].gets = {s} THEN "clock"
                                          ELSE "validate",
                                   !.gets = req[r].gets \ {s},
                                   !.tok = [req[r].tok EXCEPT ![s] = lock[s].token]]
    <3>3. x \in ReqType
      BY <3>2, <2>1, <2>2, ReqUpdate
    <3>4. req' \in [Reqs -> ReqType]
      BY <3>1, <3>2, <3>3
    <3> QED
      BY <1>7, <3>4, LockTypeFrame DEF ValidateLock, TypeOK
  <2>5. CASE ~OwnedBy(s, req[r].user)
    <3>1. req' \in [Reqs -> ReqType]
      BY <1>7, <2>3, <2>5, ReqUpdate DEF ValidateLock, TypeOK
    <3> QED
      BY <1>7, <3>1, LockTypeFrame DEF ValidateLock, TypeOK
  <2> QED
    BY <2>4, <2>5
<1>8. ASSUME NEW s \in Seats, ReleaseRead(r, s)
      PROVE  TypeOK'
  <2>1. /\ req[r].gets \ {s} \in SUBSET Seats
        /\ req[r].dels \in SUBSET Seats
        /\ req[r].dels \cup {s} \in SUBSET Seats
    BY DEF TypeOK, ReqType
  <2> DEFINE D == IF MayUnlock(s, req[r].user, TRUE)
                  THEN req[r].dels \cup {s} ELSE req[r].dels
  <2>3. req' = [req EXCEPT ![r] = [req[r] EXCEPT !.gets = req[r].gets \ {s},
                                                 !.dels = D]]
    BY <1>8 DEF ReleaseRead, TypeOK
  <2>4. D \in SUBSET Seats
    BY <2>1
  <2> HIDE DEF D
  <2>2. req' \in [Reqs -> ReqType]
    <3>1. req[r] \in ReqType /\ req \in [Reqs -> ReqType]
      BY DEF TypeOK
    <3>2. [req[r] EXCEPT !.gets = req[r].gets \ {s}, !.dels = D] \in ReqType
      BY <3>1, <2>1, <2>4, ReqUpdate
    <3> QED
      BY <3>1, <3>2, <2>3
  <2> QED
    BY <1>8, <2>2, LockTypeFrame DEF ReleaseRead, TypeOK
<1>9. ASSUME NEW s \in Seats, ReleaseDelete(r, s)
      PROVE  TypeOK'
  <2>1. shown' \in [Seats -> Broadcasts]
    BY <1>9 DEF ReleaseDelete, TypeOK, LockTypeOK, Broadcasts
  <2>2. req[r].dels \ {s} \in SUBSET Seats
    BY DEF TypeOK, ReqType
  <2>3. req' \in [Reqs -> ReqType]
    BY <1>9, <2>2, ReqUpdate DEF ReleaseDelete, TypeOK
  <2> QED
    BY <1>9, <2>1, <2>3 DEF ReleaseDelete, Del, NoLock, TypeOK, LockTypeOK
<1>10. CASE AbortInitiate(r)
  <2>1. req' \in [Reqs -> ReqType]
    BY <1>10, ReqUpdate DEF AbortInitiate, TypeOK, ReqPCs
  <2> QED
    BY <1>10, <2>1 DEF AbortInitiate, TypeOK, LockTypeOK
<1> QED
  BY <1>1, <1>2, <1>3, <1>4, <1>5, <1>6, <1>7, <1>8, <1>9, <1>10 DEF InitiateStep

\* A step of the webhook keeps the types.
LEMMA WebhookType ==
  ASSUME TypeOK, NEW h \in Hooks, HookStep(h) \/ AbortWebhook(h)
  PROVE  TypeOK'
<1> USE DEF IdleHook
<1>1. CASE RecordEvent(h)
  BY <1>1, LockTypeFrame DEF RecordEvent, TypeOK, HookType, EventType
<1>2. CASE ReadBooking(h)
  BY <1>2, LockTypeFrame DEF ReadBooking, TypeOK, HookType
<1>3. CASE ConfirmBooking(h)
  <2>1. shown' \in [Seats -> Broadcasts]
    BY <1>3, BroadcastType DEF ConfirmBooking, Broadcasts, TypeOK
  <2>2. hook[h].event \in Events /\ sent[hook[h].event].order \in Reqs
    BY <1>3 DEF ConfirmBooking, TypeOK
  <2>3. late' \subseteq Reqs
    BY <1>3, <2>2 DEF ConfirmBooking, TypeOK
  <2>4. booking' \in [Reqs -> BookingType]
    BY <1>3, <2>2 DEF ConfirmBooking, TypeOK, BookingType, Statuses
  <2>5. hook' \in [Hooks -> HookType]
    BY <1>3 DEF ConfirmBooking, TypeOK, HookType
  <2> QED
    BY <1>3, <2>1, <2>3, <2>4, <2>5 DEF ConfirmBooking, TypeOK, LockTypeOK
<1>4. CASE AbortWebhook(h)
  <2>1. hook' \in [Hooks -> HookType]
    BY <1>4 DEF AbortWebhook, TypeOK, HookType
  <2> QED
    BY <1>4, <2>1 DEF AbortWebhook, TypeOK, LockTypeOK
<1> QED
  BY <1>1, <1>2, <1>3, <1>4 DEF HookStep

\* A step of the expiry worker keeps the types.
LEMMA ExpiryType ==
  ASSUME TypeOK, NEW b \in Reqs, ExpiryStep(b) \/ AbortExpiry(b)
  PROVE  TypeOK'
<1>1. CASE ExpiryRead(b)
  <2>1. job' \in [Reqs -> JobType]
    BY <1>1 DEF ExpiryRead, TypeOK, JobType
  <2> QED
    BY <1>1, <2>1, LockTypeFrame DEF ExpiryRead, TypeOK
<1>2. CASE ExpiryUpdate(b)
  <2>1. shown' \in [Seats -> Broadcasts]
    BY <1>2, BroadcastType DEF ExpiryUpdate, Broadcasts, TypeOK
  <2>2. job' \in [Reqs -> JobType] /\ booking' \in [Reqs -> BookingType]
    BY <1>2 DEF ExpiryUpdate, TypeOK, JobType, BookingType, Statuses
  <2> QED
    BY <1>2, <2>1, <2>2 DEF ExpiryUpdate, TypeOK, LockTypeOK
<1>3. CASE AbortExpiry(b)
  <2>1. job' \in [Reqs -> JobType]
    BY <1>3 DEF AbortExpiry, TypeOK, JobType
  <2> QED
    BY <1>3, <2>1 DEF AbortExpiry, TypeOK, LockTypeOK
<1> QED
  BY <1>1, <1>2, <1>3 DEF ExpiryStep

\* Every step of the system keeps the types.
LEMMA TypeStep ==
  ASSUME TypeOK, [Next]_vars
  PROVE  TypeOK'
<1>1. CASE LockNext /\ UNCHANGED bookingVars
  <2>1. LockTypeOK'
    BY <1>1, LockTypeStep DEF TypeOK
  <2> QED
    BY <1>1, <2>1 DEF TypeOK, bookingVars
<1>2. ASSUME NEW r \in Reqs, NEW u \in Users, NEW S \in (SUBSET Seats) \ {{}},
             StartInitiate(r, u, S)
      PROVE  TypeOK'
  <2>1. req' \in [Reqs -> ReqType]
    BY <1>2, ReqUpdate DEF StartInitiate, TypeOK, ReqPCs
  <2> QED
    BY <1>2, <2>1, LockTypeFrame DEF StartInitiate, TypeOK
<1>3. ASSUME NEW e \in Events, GatewayEvent(e)
      PROVE  TypeOK'
  <2>1. sent' \in [Events -> EventType]
    BY <1>3 DEF TypeOK, GatewayEvent, Foreign, EventType
  <2>2. \A h \in Hooks : hook[h].pc \in {"read", "confirm"} => hook[h].event # e
    BY <1>3, NoOrderAssumption DEF TypeOK, GatewayEvent, NotSent
  <2>3. \A f \in Events \ {e} : sent'[f] = sent[f]
    BY <1>3 DEF TypeOK, GatewayEvent
  <2> QED
    BY <1>3, <2>1, <2>2, <2>3, LockTypeFrame DEF TypeOK, GatewayEvent
<1>4. ASSUME NEW h \in Hooks, NEW e \in Events, DeliverWebhook(h, e)
      PROVE  TypeOK'
  BY <1>4, LockTypeFrame DEF TypeOK, DeliverWebhook, HookType
<1>5. CASE UNCHANGED vars
  BY <1>5, LockTypeFrame DEF TypeOK, vars, bookingVars
<1> QED
  BY <1>1, <1>2, <1>3, <1>4, <1>5, InitiateType, WebhookType, ExpiryType DEF Next

\* The types hold at the start.
LEMMA InitType == Init => TypeOK
<1>1. LockInit => LockTypeOK
  BY DEF LockInit, LockTypeOK, NoLock, IdleLockReq, Broadcasts
<1>2. IdleReq \in ReqType /\ NoBooking \in BookingType /\ NoJob \in JobType
      /\ NotSent \in EventType /\ IdleHook \in HookType /\ IdleHook.pc = "idle"
  BY DEF IdleReq, ReqType, ReqPCs, NoBooking, BookingType, Statuses, NoJob,
         JobType, NotSent, EventType, IdleHook, HookType
<1> QED
  BY <1>1, <1>2 DEF Init, BookingInit, TypeOK

\* All variables keep their types, for every instance of the constants.
THEOREM TypeCorrect == Spec => []TypeOK
  BY InitType, TypeStep, PTL DEF Spec
----------------------------------------------------------------------------
(* What steps do to the keys and to the tokens requests have validated *)

KeysDropped ==
  /\ nextToken' = nextToken
  /\ \A s \in Seats : lock'[s] = lock[s] \/ lock'[s] = NoLock

TokensKept ==
  \A q \in Reqs : /\ req'[q].tok = req[q].tok
                  /\ req'[q].user = req[q].user
                  /\ req'[q].seats = req[q].seats

\* Past validation, no step of initiateBooking touches tokens, user or seats.
LEMMA InitiateKeepsTokens ==
  ASSUME TypeOK, NEW r \in Reqs, InitiateStep(r) \/ AbortInitiate(r),
         \A s \in Seats : ~ValidateLock(r, s)
  PROVE  KeysDropped /\ TokensKept
<1> USE DEF TypeOK, ReqType, TokensKept, KeysDropped, lockVars
<1>1. CASE ReadClock(r)
  BY <1>1 DEF ReadClock
<1>2. CASE CheckExisting(r)
  BY <1>2 DEF CheckExisting
<1>3. CASE CreateOrder(r)
  BY <1>3 DEF CreateOrder
<1>4. CASE CreateBooking(r)
  BY <1>4 DEF CreateBooking
<1>5. CASE EnqueueExpiry(r)
  BY <1>5 DEF EnqueueExpiry
<1>6. CASE FinishInitiate(r)
  BY <1>6 DEF FinishInitiate
<1>7. ASSUME NEW s \in Seats, ReleaseRead(r, s)
      PROVE  KeysDropped /\ TokensKept
  BY <1>7 DEF ReleaseRead
<1>8. ASSUME NEW s \in Seats, ReleaseDelete(r, s)
      PROVE  KeysDropped /\ TokensKept
  BY <1>8 DEF ReleaseDelete, Del, LockTypeOK
<1>9. CASE AbortInitiate(r)
  BY <1>9 DEF AbortInitiate
<1> QED
  BY <1>1, <1>2, <1>3, <1>4, <1>5, <1>6, <1>7, <1>8, <1>9 DEF InitiateStep

\* A lock step grants a new token on a free key or drops keys.
LEMMA LockStepKeys ==
  ASSUME LockTypeOK, LockNext
  PROVE  \/ KeysDropped
         \/ \E h \in LockReqs, u \in Users, s \in Seats : LockSeat(h, u, s)
<1> USE DEF KeysDropped
<1>1. ASSUME NEW h \in LockReqs, UnlockDelete(h)
      PROVE  KeysDropped
  BY <1>1 DEF UnlockDelete, Del, LockTypeOK
<1>2. CASE Tick
  BY <1>2 DEF Tick
<1> QED
  BY <1>1, <1>2 DEF LockNext, UnlockRead, EnqueueLockExpiry, AbortLockReq,
                    RunLockExpiryJob

\* Four kinds of steps, as far as tokens are concerned.
LEMMA StepKinds ==
  ASSUME TypeOK, [Next]_vars
  PROVE  \/ KeysDropped /\ TokensKept
         \/ /\ UNCHANGED bookingVars
            /\ \E h \in LockReqs, u \in Users, s \in Seats : LockSeat(h, u, s)
         \/ \E r \in Reqs, u \in Users, S \in (SUBSET Seats) \ {{}} :
              StartInitiate(r, u, S)
         \/ \E r \in Reqs, s \in Seats : ValidateLock(r, s)
<1>1. ASSUME UNCHANGED <<lock, nextToken, req>>
      PROVE  KeysDropped /\ TokensKept
  BY <1>1 DEF KeysDropped, TokensKept
<1>2. ASSUME LockNext, UNCHANGED bookingVars
      PROVE  \/ KeysDropped /\ TokensKept
             \/ \E h \in LockReqs, u \in Users, s \in Seats : LockSeat(h, u, s)
  BY <1>2, LockStepKeys DEF bookingVars, TokensKept, TypeOK
<1>3. ASSUME NEW e \in Events, GatewayEvent(e)
      PROVE  KeysDropped /\ TokensKept
  BY <1>1, <1>3 DEF GatewayEvent, lockVars
<1>4. ASSUME NEW h \in Hooks, NEW e \in Events, DeliverWebhook(h, e)
      PROVE  KeysDropped /\ TokensKept
  BY <1>1, <1>4 DEF DeliverWebhook, lockVars
<1>5. ASSUME NEW h \in Hooks, HookStep(h) \/ AbortWebhook(h)
      PROVE  KeysDropped /\ TokensKept
  BY <1>1, <1>5 DEF HookStep, RecordEvent, ReadBooking, ConfirmBooking,
                    AbortWebhook, lockVars
<1>6. ASSUME NEW b \in Reqs, ExpiryStep(b) \/ AbortExpiry(b)
      PROVE  KeysDropped /\ TokensKept
  BY <1>1, <1>6 DEF ExpiryStep, ExpiryRead, ExpiryUpdate, AbortExpiry, lockVars
<1>7. CASE UNCHANGED vars
  BY <1>1, <1>7 DEF vars, lockVars, bookingVars
<1> QED
  BY <1>2, <1>3, <1>4, <1>5, <1>6, <1>7, InitiateKeepsTokens DEF Next

\* Tokens stay in order, and with their owners.
LEMMA TokenStep ==
  ASSUME TypeOK, TokenOrder, TokenOwner, RequestProgress, [Next]_vars
  PROVE  TokenOrder' /\ TokenOwner'
<1>1. CASE KeysDropped /\ TokensKept
  <2>1. /\ \A s \in Seats : lock'[s].token # 0 => lock'[s] = lock[s]
        /\ \A s \in Seats : lock'[s].token = 0 \/ lock'[s].token = lock[s].token
    BY <1>1 DEF KeysDropped, NoLock
  <2>2. nextToken \in Nat \ {0} /\ nextToken' = nextToken
    BY <1>1 DEF KeysDropped, TypeOK, LockTypeOK
  <2>3. TokenOrder'
    BY <1>1, <2>1, <2>2 DEF TokensKept, TokenOrder
  <2>4. TokenOwner'
    BY <1>1, <2>1 DEF TokensKept, TokenOwner
  <2> QED
    BY <2>3, <2>4
<1>2. ASSUME UNCHANGED bookingVars, NEW h \in LockReqs, NEW u \in Users,
             NEW s \in Seats, LockSeat(h, u, s)
      PROVE  TokenOrder' /\ TokenOwner'
  BY <1>2 DEF LockSeat, SetNX, bookingVars, TokenOrder, TokenOwner, TypeOK,
              LockTypeOK, ReqType
<1>3. ASSUME NEW r \in Reqs, NEW u \in Users, NEW S \in (SUBSET Seats) \ {{}},
             StartInitiate(r, u, S)
      PROVE  TokenOrder' /\ TokenOwner'
  <2>1. \A s \in Seats : req[r].tok[s] = 0
    BY <1>3 DEF RequestProgress, Progress, StartInitiate
  <2>2. \A q \in Reqs : req'[q].tok = req[q].tok /\ (q # r => req'[q] = req[q])
    BY <1>3 DEF StartInitiate, TypeOK, ReqType
  <2> QED
    BY <1>3, <2>1, <2>2 DEF StartInitiate, lockVars, TokenOrder, TokenOwner
<1>4. ASSUME NEW r \in Reqs, NEW s \in Seats, ValidateLock(r, s)
      PROVE  TokenOrder' /\ TokenOwner'
  <2>1. CASE OwnedBy(s, req[r].user)
    <3>1. /\ req'[r].tok = [req[r].tok EXCEPT ![s] = lock[s].token]
          /\ \A q \in Reqs : req'[q].user = req[q].user /\ (q # r => req'[q] = req[q])
      BY <1>4, <2>1 DEF ValidateLock, TypeOK, ReqType
    <3>2. /\ req'[r].tok[s] = lock[s].token
          /\ \A q \in Reqs, t \in Seats : q # r \/ t # s =>
               req'[q].tok[t] = req[q].tok[t]
      BY <3>1 DEF TypeOK, ReqType
    <3>3. \A q \in Reqs : req'[q].user = req[q].user
      BY <3>1
    <3>4. /\ lock' = lock /\ nextToken' = nextToken
          /\ lock[s].user = req[r].user /\ lock[s].token # 0
      BY <1>4, <2>1 DEF ValidateLock, lockVars, OwnedBy, Present
    <3>5. \A t \in Seats : lock[t].token \in Nat
      BY DEF TypeOK, LockTypeOK
    <3>6. TokenOrder'
      BY <3>2, <3>4, <3>5 DEF TokenOrder
    <3>7. ASSUME NEW q \in Reqs, NEW t \in Seats,
                 req'[q].tok[t] # 0, lock'[t].token = req'[q].tok[t]
          PROVE  lock'[t].user = req'[q].user
      <4>1. CASE q = r /\ t = s
        BY <4>1, <3>3, <3>4
      <4>2. CASE q # r \/ t # s
        <5>1. req[q].tok[t] # 0 /\ lock[t].token = req[q].tok[t]
          BY <4>2, <3>2, <3>4, <3>7
        <5> QED
          BY <5>1, <3>3, <3>4 DEF TokenOwner
      <4> QED
        BY <4>1, <4>2
    <3>8. ASSUME NEW p \in Reqs, NEW q \in Reqs, NEW t \in Seats,
                 req'[p].tok[t] # 0, req'[p].tok[t] = req'[q].tok[t]
          PROVE  req'[p].user = req'[q].user
      <4>1. CASE t = s /\ (p = r \/ q = r)
        <5>1. req'[p].tok[t] = lock'[t].token /\ req'[q].tok[t] = lock'[t].token
          BY <4>1, <3>2, <3>4, <3>8
        <5>2. lock'[t].user = req'[p].user /\ lock'[t].user = req'[q].user
          BY <5>1, <3>7, <3>8
        <5> QED
          BY <5>2
      <4>2. CASE t # s \/ (p # r /\ q # r)
        <5>1. req[p].tok[t] # 0 /\ req[p].tok[t] = req[q].tok[t]
          BY <4>2, <3>2, <3>8
        <5> QED
          BY <5>1, <3>3 DEF TokenOwner
      <4> QED
        BY <4>1, <4>2
    <3>9. TokenOwner'
      BY <3>7, <3>8 DEF TokenOwner
    <3> QED
      BY <3>6, <3>9
  <2>2. CASE ~OwnedBy(s, req[r].user)
    <3>1. \A q \in Reqs : req'[q].tok = req[q].tok /\ req'[q].user = req[q].user
      BY <1>4, <2>2 DEF ValidateLock, TypeOK, ReqType
    <3> QED
      BY <1>4, <3>1 DEF ValidateLock, lockVars, TokenOrder, TokenOwner
  <2> QED
    BY <2>1, <2>2
<1> QED
  BY <1>1, <1>2, <1>3, <1>4, StepKinds
----------------------------------------------------------------------------
(* What steps do to bookings *)

\* Webhooks and workers leave requests and the clock alone and create nothing.
LEMMA WritersCreateNothing ==
  ASSUME TypeOK, WriterTargets,
         \/ \E h \in Hooks : HookStep(h) \/ AbortWebhook(h)
         \/ \E b \in Reqs : ExpiryStep(b) \/ AbortExpiry(b)
  PROVE  /\ req' = req /\ clock' = clock
         /\ \A b \in Reqs : booking'[b].status = "none" <=> booking[b].status = "none"
<1>1. ASSUME NEW h \in Hooks, ConfirmBooking(h)
      PROVE  /\ req' = req /\ clock' = clock
             /\ \A b \in Reqs : booking'[b].status = "none"
                                  <=> booking[b].status = "none"
  <2>1. sent[hook[h].event].order \in Reqs
    BY <1>1 DEF ConfirmBooking, TypeOK
  <2>2. booking[sent[hook[h].event].order].status # "none"
    BY <1>1 DEF ConfirmBooking, WriterTargets
  <2> QED
    BY <1>1, <2>1, <2>2 DEF ConfirmBooking, TypeOK, BookingType
<1>2. ASSUME NEW b \in Reqs, ExpiryUpdate(b)
      PROVE  /\ req' = req /\ clock' = clock
             /\ \A c \in Reqs : booking'[c].status = "none"
                                  <=> booking[c].status = "none"
  <2>1. booking[b].status # "none"
    BY <1>2 DEF ExpiryUpdate, WriterTargets, Dead
  <2> QED
    BY <1>2, <2>1 DEF ExpiryUpdate, TypeOK, BookingType
<1> QED
  BY <1>1, <1>2 DEF HookStep, RecordEvent, ReadBooking, AbortWebhook, ExpiryStep,
                    ExpiryRead, AbortExpiry, lockVars

\* The clock stands still or ticks.
LEMMA LockClock ==
  ASSUME LockNext
  PROVE  clock' = clock \/ clock' = clock + 1
<1>1. CASE Tick
  BY <1>1 DEF Tick
<1>2. CASE ~Tick
  BY <1>2 DEF LockNext, LockSeat, UnlockRead, EnqueueLockExpiry, UnlockDelete,
              AbortLockReq, RunLockExpiryJob
<1> QED
  BY <1>1, <1>2

\* A request learns what its next step relies on.
LEMMA ProgressStep ==
  ASSUME TypeOK, RequestProgress, WriterTargets, [Next]_vars
  PROVE  RequestProgress'
<1> SUFFICES ASSUME NEW q \in Reqs
             PROVE  Progress(q)'
  BY DEF RequestProgress
<1>0. Progress(q) /\ clock \in Nat /\ req[q].now \in Nat
  BY DEF RequestProgress, TypeOK, LockTypeOK, ReqType
<1>1. ASSUME req'[q] = req[q], booking'[q].status = "none" <=> booking[q].status = "none",
             clock' \in Nat, clock <= clock'
      PROVE  Progress(q)'
  BY <1>0, <1>1 DEF Progress
<1>2. CASE LockNext /\ UNCHANGED bookingVars
  BY <1>0, <1>1, <1>2, LockClock DEF bookingVars
<1>3. ASSUME NEW r \in Reqs, NEW u \in Users, NEW S \in (SUBSET Seats) \ {{}},
             StartInitiate(r, u, S)
      PROVE  Progress(q)'
  <2>1. CASE q # r
    BY <1>0, <1>1, <1>3, <2>1 DEF StartInitiate, lockVars, TypeOK
  <2>2. CASE q = r
    BY <1>0, <1>3, <2>2 DEF StartInitiate, lockVars, TypeOK, ReqType, Progress
  <2> QED
    BY <2>1, <2>2
<1>4. ASSUME NEW r \in Reqs, InitiateStep(r) \/ AbortInitiate(r)
      PROVE  Progress(q)'
  <2>1. CASE q # r
    <3>1. req'[q] = req[q] /\ booking'[q] = booking[q] /\ clock' = clock
      BY <1>4, <2>1 DEF InitiateStep, ReadClock, CheckExisting, CreateOrder,
         CreateBooking, EnqueueExpiry, FinishInitiate, ValidateLock, ReleaseRead,
         ReleaseDelete, AbortInitiate, lockVars, TypeOK
    <3> QED
      BY <1>0, <1>1, <3>1
  <2>2. CASE q = r
    <3> USE <1>0, <2>2 DEF TypeOK, ReqType, Progress
    <3>1. CASE ReadClock(r)
      BY <3>1 DEF ReadClock, lockVars
    <3>2. CASE CheckExisting(r)
      BY <3>2 DEF CheckExisting, lockVars
    <3>3. CASE CreateOrder(r)
      BY <3>3 DEF CreateOrder, lockVars
    <3>4. CASE CreateBooking(r)
      BY <3>4 DEF CreateBooking, lockVars, BookingType
    <3>5. CASE EnqueueExpiry(r)
      BY <3>5 DEF EnqueueExpiry, lockVars
    <3>6. CASE FinishInitiate(r)
      BY <3>6 DEF FinishInitiate
    <3>7. ASSUME NEW s \in Seats, ValidateLock(r, s)
          PROVE  Progress(q)'
      BY <3>7 DEF ValidateLock, OwnedBy, Present, lockVars
    <3>8. ASSUME NEW s \in Seats, ReleaseRead(r, s)
          PROVE  Progress(q)'
      BY <3>8 DEF ReleaseRead, lockVars
    <3>9. ASSUME NEW s \in Seats, ReleaseDelete(r, s)
          PROVE  Progress(q)'
      BY <3>9 DEF ReleaseDelete
    <3>10. CASE AbortInitiate(r)
      BY <3>10 DEF AbortInitiate
    <3> QED
      BY <1>4, <3>1, <3>2, <3>3, <3>4, <3>5, <3>6, <3>7, <3>8, <3>9, <3>10
      DEF InitiateStep
  <2> QED
    BY <2>1, <2>2
<1>5. ASSUME NEW e \in Events, GatewayEvent(e)
      PROVE  Progress(q)'
  BY <1>0, <1>1, <1>5 DEF GatewayEvent, lockVars
<1>6. ASSUME NEW h \in Hooks, NEW e \in Events, DeliverWebhook(h, e)
      PROVE  Progress(q)'
  BY <1>0, <1>1, <1>6 DEF DeliverWebhook, lockVars
<1>7. ASSUME \/ \E h \in Hooks : HookStep(h) \/ AbortWebhook(h)
             \/ \E b \in Reqs : ExpiryStep(b) \/ AbortExpiry(b)
      PROVE  Progress(q)'
  BY <1>0, <1>1, <1>7, WritersCreateNothing
<1>8. CASE UNCHANGED vars
  BY <1>0, <1>1, <1>8 DEF vars, lockVars, bookingVars
<1> QED
  BY <1>2, <1>3, <1>4, <1>5, <1>6, <1>7, <1>8 DEF Next

\* Four kinds of steps, as far as bookings are concerned.
LEMMA BookingSteps ==
  ASSUME TypeOK, [Next]_vars
  PROVE  \/ /\ UNCHANGED <<booking, held, late>>
            /\ clock' \in Nat /\ clock <= clock'
         \/ \E r \in Reqs : CreateBooking(r)
         \/ \E h \in Hooks : ConfirmBooking(h)
         \/ \E b \in Reqs : ExpiryUpdate(b)
<1>0. clock \in Nat
  BY DEF TypeOK, LockTypeOK
<1>1. ASSUME LockNext, UNCHANGED bookingVars
      PROVE  /\ UNCHANGED <<booking, held, late>>
             /\ clock' \in Nat /\ clock <= clock'
  BY <1>0, <1>1, LockClock DEF bookingVars
<1>2. ASSUME UNCHANGED <<booking, held, late, clock>>
      PROVE  /\ UNCHANGED <<booking, held, late>>
             /\ clock' \in Nat /\ clock <= clock'
  BY <1>0, <1>2
<1>3. ASSUME NEW r \in Reqs, InitiateStep(r) \/ AbortInitiate(r), ~CreateBooking(r)
      PROVE  UNCHANGED <<booking, held, late, clock>>
  BY <1>3 DEF InitiateStep, ReadClock, CheckExisting, CreateOrder, EnqueueExpiry,
     FinishInitiate, ValidateLock, ReleaseRead, ReleaseDelete, AbortInitiate, lockVars
<1>4. ASSUME NEW h \in Hooks, HookStep(h) \/ AbortWebhook(h), ~ConfirmBooking(h)
      PROVE  UNCHANGED <<booking, held, late, clock>>
  BY <1>4 DEF HookStep, RecordEvent, ReadBooking, AbortWebhook, lockVars
<1>5. ASSUME NEW b \in Reqs, ExpiryStep(b) \/ AbortExpiry(b), ~ExpiryUpdate(b)
      PROVE  UNCHANGED <<booking, held, late, clock>>
  BY <1>5 DEF ExpiryStep, ExpiryRead, AbortExpiry, lockVars
<1>6. ASSUME NEW r \in Reqs, NEW u \in Users, NEW S \in (SUBSET Seats) \ {{}},
             StartInitiate(r, u, S)
      PROVE  UNCHANGED <<booking, held, late, clock>>
  BY <1>6 DEF StartInitiate, lockVars
<1>7. ASSUME NEW e \in Events,
             GatewayEvent(e) \/ \E h \in Hooks : DeliverWebhook(h, e)
      PROVE  UNCHANGED <<booking, held, late, clock>>
  BY <1>7 DEF GatewayEvent, DeliverWebhook, lockVars
<1>8. CASE UNCHANGED vars
  BY <1>2, <1>8 DEF vars, lockVars, bookingVars
<1> QED
  BY <1>1, <1>2, <1>3, <1>4, <1>5, <1>6, <1>7, <1>8 DEF Next

\* A dead booking stays dead: a later confirmation is a late one.
LEMMA DeadStep ==
  ASSUME TypeOK, RequestProgress, WriterTargets, [Next]_vars,
         NEW b \in Reqs, Dead(b)
  PROVE  Dead(b)'
<1> USE DEF Dead
<1>0. clock \in Nat /\ booking[b].expiresAt \in Nat
  BY DEF TypeOK, LockTypeOK, BookingType
<1>1. CASE /\ UNCHANGED <<booking, held, late>>
           /\ clock' \in Nat /\ clock <= clock'
  BY <1>0, <1>1
<1>2. ASSUME NEW r \in Reqs, CreateBooking(r)
      PROVE  Dead(b)'
  <2>1. booking[r].status = "none"
    BY <1>2 DEF CreateBooking, RequestProgress, Progress
  <2>2. booking'[b] = booking[b] /\ late' = late /\ clock' = clock
    BY <1>2, <2>1 DEF CreateBooking, lockVars, TypeOK
  <2> QED
    BY <2>2
<1>3. ASSUME NEW h \in Hooks, ConfirmBooking(h)
      PROVE  Dead(b)'
  <2> DEFINE c == sent[hook[h].event].order
  <2>1. c \in Reqs /\ clock' = clock
    BY <1>3 DEF ConfirmBooking, TypeOK
  <2>2. CASE b = c
    <3>1. booking'[b].status = "CONFIRMED"
      BY <1>3, <2>1, <2>2 DEF ConfirmBooking, TypeOK, BookingType
    <3>2. booking[b].status # "CONFIRMED" => booking[b].expiresAt <= clock
      BY DEF WriterTargets, TypeOK, BookingType, Statuses
    <3>3. booking[b].status = "CONFIRMED" => b \in late
      OBVIOUS
    <3>4. b \in late'
      BY <1>0, <1>3, <2>2, <3>2, <3>3 DEF ConfirmBooking
    <3> QED
      BY <3>1, <3>4
  <2>3. CASE b # c
    BY <1>3, <2>1, <2>3 DEF ConfirmBooking, TypeOK
  <2> QED
    BY <2>2, <2>3
<1>4. ASSUME NEW c \in Reqs, ExpiryUpdate(c)
      PROVE  Dead(b)'
  BY <1>4 DEF ExpiryUpdate, TypeOK, BookingType
<1> QED
  BY <1>1, <1>2, <1>3, <1>4, BookingSteps

\* A booking that exists goes on existing, and keeps its deadline.
LEMMA BookingStays ==
  ASSUME TypeOK, RequestProgress, WriterTargets, [Next]_vars,
         NEW b \in Reqs, booking[b].status # "none"
  PROVE  /\ booking'[b].status # "none"
         /\ booking'[b].expiresAt = booking[b].expiresAt
         /\ clock' \in Nat /\ clock <= clock'
<1>0. clock \in Nat
  BY DEF TypeOK, LockTypeOK
<1>1. CASE /\ UNCHANGED <<booking, held, late>>
           /\ clock' \in Nat /\ clock <= clock'
  BY <1>1
<1>2. ASSUME NEW r \in Reqs, CreateBooking(r)
      PROVE  booking'[b] = booking[b] /\ clock' = clock
  <2>1. booking[r].status = "none"
    BY <1>2 DEF CreateBooking, RequestProgress, Progress
  <2> QED
    BY <1>2, <2>1 DEF CreateBooking, lockVars, TypeOK
<1>3. ASSUME NEW h \in Hooks, ConfirmBooking(h)
      PROVE  /\ booking'[b].status # "none" /\ clock' = clock
             /\ booking'[b].expiresAt = booking[b].expiresAt
  <2>1. sent[hook[h].event].order \in Reqs
    BY <1>3 DEF ConfirmBooking, TypeOK
  <2> QED
    BY <1>3, <2>1 DEF ConfirmBooking, TypeOK, BookingType
<1>4. ASSUME NEW c \in Reqs, ExpiryUpdate(c)
      PROVE  /\ booking'[b].status # "none" /\ clock' = clock
             /\ booking'[b].expiresAt = booking[b].expiresAt
  BY <1>4 DEF ExpiryUpdate, TypeOK, BookingType
<1> QED
  BY <1>0, <1>1, <1>2, <1>3, <1>4, BookingSteps

\* A worker is about to expire a booking only if it was before, or has just
\* read a row that is PENDING and past its deadline.
LEMMA ExpiryTargets ==
  ASSUME TypeOK, [Next]_vars, NEW b \in Reqs, job'[b].pc = "update"
  PROVE  job[b].pc = "update" \/ (ExpiryRead(b) /\ Expirable(b, clock))
<1>1. ASSUME NEW r \in Reqs, InitiateStep(r) \/ AbortInitiate(r)
      PROVE  job[b].pc = "update"
  <2>1. CASE EnqueueExpiry(r)
    BY <2>1 DEF EnqueueExpiry, TypeOK, JobType
  <2>2. CASE ~EnqueueExpiry(r)
    BY <1>1, <2>2 DEF InitiateStep, ReadClock, CheckExisting, CreateOrder,
       CreateBooking, FinishInitiate, ValidateLock, ReleaseRead, ReleaseDelete,
       AbortInitiate
  <2> QED
    BY <2>1, <2>2
<1>2. ASSUME NEW c \in Reqs, ExpiryStep(c) \/ AbortExpiry(c)
      PROVE  job[b].pc = "update" \/ (ExpiryRead(b) /\ Expirable(b, clock))
  <2>1. CASE ExpiryRead(c)
    BY <2>1 DEF ExpiryRead, TypeOK, JobType
  <2>2. CASE ExpiryUpdate(c)
    BY <2>2 DEF ExpiryUpdate, TypeOK, JobType
  <2>3. CASE AbortExpiry(c)
    BY <2>3 DEF AbortExpiry, TypeOK, JobType
  <2> QED
    BY <1>2, <2>1, <2>2, <2>3 DEF ExpiryStep
<1>3. ASSUME \/ UNCHANGED vars
             \/ LockNext /\ UNCHANGED bookingVars
             \/ \E r \in Reqs, u \in Users, S \in (SUBSET Seats) \ {{}} :
                  StartInitiate(r, u, S)
             \/ \E e \in Events : GatewayEvent(e)
             \/ \E h \in Hooks, e \in Events : DeliverWebhook(h, e)
             \/ \E h \in Hooks : HookStep(h) \/ AbortWebhook(h)
      PROVE  job[b].pc = "update"
  BY <1>3 DEF vars, bookingVars, StartInitiate, GatewayEvent, DeliverWebhook,
     HookStep, RecordEvent, ReadBooking, ConfirmBooking, AbortWebhook
<1> QED
  BY <1>1, <1>2, <1>3 DEF Next

\* A webhook is about to confirm a booking only if it was before, or has just
\* read it PENDING.
LEMMA ConfirmTargets ==
  ASSUME TypeOK, [Next]_vars, NEW h \in Hooks, hook'[h].pc = "confirm"
  PROVE  /\ sent'[hook'[h].event].order = sent[hook[h].event].order
         /\ sent[hook[h].event].order \in Reqs
         /\ \/ hook[h].pc = "confirm"
            \/ ReadBooking(h) /\ Confirmable(sent[hook[h].event].order)
<1>1. ASSUME UNCHANGED <<hook, sent>>
      PROVE  /\ sent'[hook'[h].event].order = sent[hook[h].event].order
             /\ sent[hook[h].event].order \in Reqs
             /\ hook[h].pc = "confirm"
  BY <1>1 DEF TypeOK
<1>2. ASSUME NEW e \in Events, GatewayEvent(e)
      PROVE  /\ sent'[hook'[h].event].order = sent[hook[h].event].order
             /\ sent[hook[h].event].order \in Reqs
             /\ hook[h].pc = "confirm"
  <2>1. hook' = hook /\ \A f \in Events \ {e} : sent'[f] = sent[f]
    BY <1>2 DEF GatewayEvent, TypeOK
  <2>2. hook[h].event \in Events /\ hook[h].event # e
    BY <1>2, <2>1, NoOrderAssumption DEF GatewayEvent, NotSent, TypeOK
  <2> QED
    BY <2>1, <2>2 DEF TypeOK
<1>3. ASSUME NEW g \in Hooks, NEW e \in Events, DeliverWebhook(g, e)
      PROVE  /\ sent'[hook'[h].event].order = sent[hook[h].event].order
             /\ sent[hook[h].event].order \in Reqs
             /\ hook[h].pc = "confirm"
  BY <1>3 DEF DeliverWebhook, TypeOK, HookType
<1>4. ASSUME NEW g \in Hooks, HookStep(g) \/ AbortWebhook(g)
      PROVE  /\ sent'[hook'[h].event].order = sent[hook[h].event].order
             /\ sent[hook[h].event].order \in Reqs
             /\ \/ hook[h].pc = "confirm"
                \/ ReadBooking(h) /\ Confirmable(sent[hook[h].event].order)
  <2> USE DEF IdleHook, TypeOK, HookType
  <2>1. CASE RecordEvent(g)
    BY <2>1 DEF RecordEvent
  <2>2. CASE ReadBooking(g)
    BY <2>2 DEF ReadBooking
  <2>3. CASE ConfirmBooking(g)
    BY <2>3 DEF ConfirmBooking
  <2>4. CASE AbortWebhook(g)
    BY <2>4 DEF AbortWebhook
  <2> QED
    BY <1>4, <2>1, <2>2, <2>3, <2>4 DEF HookStep
<1>5. ASSUME \/ UNCHANGED vars
             \/ LockNext /\ UNCHANGED bookingVars
             \/ \E r \in Reqs, u \in Users, S \in (SUBSET Seats) \ {{}} :
                  StartInitiate(r, u, S)
             \/ \E r \in Reqs : InitiateStep(r) \/ AbortInitiate(r)
             \/ \E b \in Reqs : ExpiryStep(b) \/ AbortExpiry(b)
      PROVE  UNCHANGED <<hook, sent>>
  BY <1>5 DEF vars, bookingVars, StartInitiate, InitiateStep, ReadClock,
     CheckExisting, CreateOrder, CreateBooking, EnqueueExpiry, FinishInitiate,
     ValidateLock, ReleaseRead, ReleaseDelete, AbortInitiate, ExpiryStep, ExpiryRead,
     ExpiryUpdate, AbortExpiry
<1> QED
  BY <1>1, <1>2, <1>3, <1>4, <1>5 DEF Next

\* The writers go on writing what they may.
LEMMA WriterTargetsStep ==
  ASSUME TypeOK, RequestProgress, WriterTargets, [Next]_vars
  PROVE  WriterTargets'
<1>0. /\ \A b \in Reqs : booking[b].expiresAt \in Nat
      /\ clock \in Nat
  BY DEF TypeOK, LockTypeOK, BookingType
<1>1. ASSUME NEW b \in Reqs, booking'[b].status = "EXPIRED"
      PROVE  booking'[b].expiresAt <= clock'
  <2>1. CASE booking[b].status = "none"
    <3>1. booking'[b].status \in {"none", "PENDING"}
      <4>1. ASSUME NEW r \in Reqs, CreateBooking(r)
            PROVE  booking'[b].status \in {"none", "PENDING"}
        BY <2>1, <4>1 DEF CreateBooking, TypeOK, BookingType
      <4>2. ASSUME \E h \in Hooks : ConfirmBooking(h)
            PROVE  booking'[b].status \in {"none", "PENDING"}
        BY <2>1, <4>2, WritersCreateNothing DEF HookStep
      <4>3. ASSUME \E c \in Reqs : ExpiryUpdate(c)
            PROVE  booking'[b].status \in {"none", "PENDING"}
        BY <2>1, <4>3, WritersCreateNothing DEF ExpiryStep
      <4> QED
        BY <2>1, <4>1, <4>2, <4>3, BookingSteps
    <3> QED
      BY <1>1, <3>1
  <2>2. CASE booking[b].status # "none"
    <3>1. booking[b].expiresAt <= clock
      <4>1. CASE booking[b].status = "EXPIRED"
        BY <4>1 DEF WriterTargets
      <4>2. CASE booking[b].status # "EXPIRED"
        <5>1. ~\E r \in Reqs : CreateBooking(r)
          BY <1>1, <4>2 DEF CreateBooking, TypeOK, BookingType
        <5>2. ~\E h \in Hooks : ConfirmBooking(h)
          <6>1. ASSUME NEW h \in Hooks, ConfirmBooking(h)
                PROVE  FALSE
            <7>1. sent[hook[h].event].order \in Reqs
              BY <6>1 DEF ConfirmBooking, TypeOK
            <7> QED
              BY <1>1, <4>2, <6>1, <7>1 DEF ConfirmBooking, TypeOK, BookingType
          <6> QED
            BY <6>1
        <5>3. PICK c \in Reqs : ExpiryUpdate(c)
          BY <1>1, <4>2, <5>1, <5>2, BookingSteps
        <5>4. c = b
          BY <1>1, <4>2, <5>3 DEF ExpiryUpdate, TypeOK, BookingType
        <5> QED
          BY <5>3, <5>4 DEF ExpiryUpdate, WriterTargets
      <4> QED
        BY <4>1, <4>2
    <3> QED
      BY <1>0, <2>2, <3>1, BookingStays
  <2> QED
    BY <2>1, <2>2
<1>2. ASSUME NEW b \in Reqs, job'[b].pc = "update"
      PROVE  Dead(b)' /\ booking'[b].expiresAt <= clock'
  <2>1. Dead(b) /\ booking[b].expiresAt <= clock
    BY <1>2, ExpiryTargets DEF WriterTargets, Expirable, Dead
  <2>2. booking[b].status # "none"
    BY <2>1 DEF Dead
  <2> QED
    BY <1>0, <2>1, <2>2, DeadStep, BookingStays
<1>3. ASSUME NEW h \in Hooks, hook'[h].pc = "confirm"
      PROVE  booking'[sent'[hook'[h].event].order].status # "none"
  BY <1>3, ConfirmTargets, BookingStays DEF WriterTargets, Confirmable
<1> QED
  BY <1>1, <1>2, <1>3 DEF WriterTargets

\* The history of the lock goes on speaking of bookings that exist.
LEMMA HeldStep ==
  ASSUME TypeOK, RequestProgress, WriterTargets, HeldExists, [Next]_vars
  PROVE  HeldExists'
<1> SUFFICES ASSUME NEW b \in held'
             PROVE  booking'[b].status # "none"
  BY DEF HeldExists
<1>1. CASE b \in held
  BY <1>1, BookingStays DEF HeldExists, TypeOK
<1>2. CASE b \notin held
  <2>1. \E r \in Reqs : CreateBooking(r)
    BY <1>2, BookingSteps DEF ConfirmBooking, ExpiryUpdate
  <2>2. PICK r \in Reqs : CreateBooking(r)
    BY <2>1
  <2>3. b = r
    BY <1>2, <2>2 DEF CreateBooking
  <2> QED
    BY <2>2, <2>3 DEF CreateBooking, TypeOK, BookingType
<1> QED
  BY <1>1, <1>2

\* A request is let through by the query for existing bookings only, and its
\* tokens, user and seats are settled by then.
LEMMA PassedStep ==
  ASSUME TypeOK, RequestProgress, WriterTargets, [Next]_vars, NEW r \in Reqs, Passed(r)'
  PROVE  \/ Passed(r)
         \/ /\ CheckExisting(r)
            /\ \A b \in Reqs \ {r} : Busy(b, req[r].now) =>
                                       req[b].seats \cap req[r].seats = {}
<1> USE DEF Passed
<1>1. ASSUME req'[r] = req[r], booking'[r].status = "none" <=> booking[r].status = "none"
      PROVE  Passed(r)
  BY <1>1
<1>2. ASSUME NEW q \in Reqs, InitiateStep(q) \/ AbortInitiate(q)
      PROVE  \/ Passed(r)
             \/ /\ CheckExisting(r)
                /\ \A b \in Reqs \ {r} : Busy(b, req[r].now) =>
                                           req[b].seats \cap req[r].seats = {}
  <2>1. CASE q # r
    <3>1. req'[r] = req[r] /\ booking'[r] = booking[r]
      BY <1>2, <2>1 DEF InitiateStep, ReadClock, CheckExisting, CreateOrder,
         CreateBooking, EnqueueExpiry, FinishInitiate, ValidateLock, ReleaseRead,
         ReleaseDelete, AbortInitiate, TypeOK
    <3> QED
      BY <1>1, <3>1
  <2>2. CASE q = r
    <3> USE <2>2 DEF TypeOK, ReqType
    <3>1. CASE ReadClock(r)
      BY <3>1 DEF ReadClock
    <3>2. CASE CheckExisting(r)
      BY <3>2 DEF CheckExisting
    <3>3. CASE CreateOrder(r) \/ CreateBooking(r)
      BY <3>3 DEF CreateOrder, CreateBooking
    <3>4. CASE EnqueueExpiry(r)
      BY <3>4 DEF EnqueueExpiry
    <3>5. CASE FinishInitiate(r) \/ AbortInitiate(r)
      BY <3>5 DEF FinishInitiate, AbortInitiate
    <3>6. ASSUME NEW s \in Seats, ValidateLock(r, s)
          PROVE  Passed(r)
      BY <3>6 DEF ValidateLock
    <3>7. ASSUME NEW s \in Seats, ReleaseRead(r, s) \/ ReleaseDelete(r, s)
          PROVE  Passed(r)
      <4>1. req'[r].pc = req[r].pc
        <5>1. CASE ReleaseRead(r, s)
          BY <5>1 DEF ReleaseRead
        <5>2. CASE ReleaseDelete(r, s)
          BY <5>2 DEF ReleaseDelete
        <5> QED
          BY <3>7, <5>1, <5>2
      <4>2. booking' = booking
        BY <3>7 DEF ReleaseRead, ReleaseDelete
      <4> QED
        BY <4>1, <4>2
    <3> QED
      BY <1>2, <3>1, <3>2, <3>3, <3>4, <3>5, <3>6, <3>7 DEF InitiateStep
  <2> QED
    BY <2>1, <2>2
<1>3. ASSUME NEW q \in Reqs, NEW u \in Users, NEW S \in (SUBSET Seats) \ {{}},
             StartInitiate(q, u, S)
      PROVE  Passed(r)
  BY <1>3 DEF StartInitiate, TypeOK, ReqType
<1>4. ASSUME \/ \E h \in Hooks : HookStep(h) \/ AbortWebhook(h)
             \/ \E b \in Reqs : ExpiryStep(b) \/ AbortExpiry(b)
      PROVE  Passed(r)
  BY <1>1, <1>4, WritersCreateNothing
<1>5. ASSUME \/ UNCHANGED vars
             \/ LockNext /\ UNCHANGED bookingVars
             \/ \E e \in Events : GatewayEvent(e)
             \/ \E h \in Hooks, e \in Events : DeliverWebhook(h, e)
      PROVE  Passed(r)
  BY <1>5 DEF vars, bookingVars, GatewayEvent, DeliverWebhook
<1> QED
  BY <1>2, <1>3, <1>4, <1>5 DEF Next

\* A request that exists or was let through has its tokens already.
LEMMA SettledTokens ==
  ASSUME TypeOK, RequestProgress, [Next]_vars, NEW r \in Reqs,
         Passed(r) \/ req[r].pc = "check"
  PROVE  /\ req'[r].tok = req[r].tok /\ req'[r].user = req[r].user
         /\ req'[r].seats = req[r].seats
<1>1. req[r].pc \notin {"idle", "validate"}
  BY DEF Passed, RequestProgress, Progress
<1>2. ASSUME NEW q \in Reqs, NEW u \in Users, NEW S \in (SUBSET Seats) \ {{}},
             StartInitiate(q, u, S)
      PROVE  req'[r] = req[r]
  BY <1>1, <1>2 DEF StartInitiate, TypeOK
<1>3. ASSUME NEW q \in Reqs, NEW s \in Seats, ValidateLock(q, s)
      PROVE  req'[r] = req[r]
  BY <1>1, <1>3 DEF ValidateLock, TypeOK
<1> QED
  BY <1>2, <1>3, StepKinds DEF TokensKept, bookingVars

\* An older lock's booking is dead before a newer lock's request gets through.
LEMMA OlderLockLostStep ==
  ASSUME SaleInv, [Next]_vars
  PROVE  OlderLockLost'
<1> USE DEF SaleInv
<1> SUFFICES ASSUME NEW b \in Reqs, NEW r \in Reqs,
                    NEW s \in (req[b].seats \cap req[r].seats)',
                    booking'[b].status # "none", b \in held',
                    req'[b].tok[s] < req'[r].tok[s], Passed(r)'
             PROVE  Dead(b)'
  BY DEF OlderLockLost
<1>1. Passed(r) \/ req[r].pc = "check"
  BY PassedStep DEF CheckExisting
<1>2. Passed(b) \/ req[b].pc = "check"
  BY PassedStep DEF CheckExisting, Passed
<1>3. /\ s \in req[b].seats \cap req[r].seats
      /\ req[b].tok[s] < req[r].tok[s]
  BY <1>1, <1>2, SettledTokens
<1>4. CASE booking[b].status = "none"
  <2>1. PICK q \in Reqs : CreateBooking(q)
    BY <1>4, BookingSteps, WritersCreateNothing DEF HookStep, ExpiryStep
  <2>2. q = b
    BY <1>4, <2>1 DEF CreateBooking, TypeOK
  <2>3. StillHeld(b)
    BY <1>4, <2>1, <2>2 DEF CreateBooking, HeldExists
  <2>4. lock[s].token = req[b].tok[s] /\ req[b].tok[s] # 0
    BY <1>3, <2>1, <2>2, <2>3 DEF StillHeld, CreateBooking, RequestProgress, Progress
  <2>5. s \in Seats
    BY <1>3 DEF TypeOK, ReqType
  <2>6. req[r].tok[s] <= lock[s].token
    BY <2>4, <2>5 DEF TokenOrder
  <2>7. req[r].tok[s] \in Nat /\ req[b].tok[s] \in Nat
    BY <2>5 DEF TypeOK, ReqType
  <2> QED
    BY <1>3, <2>4, <2>6, <2>7
<1>5. CASE booking[b].status # "none"
  <2>1. b \in held
    <3>1. ASSUME NEW q \in Reqs, CreateBooking(q)
          PROVE  q # b
      BY <1>5, <3>1 DEF CreateBooking, RequestProgress, Progress
    <3>2. ASSUME NEW q \in Reqs, CreateBooking(q)
          PROVE  b \in held
      BY <3>1, <3>2 DEF CreateBooking
    <3>3. ASSUME \/ \E h \in Hooks : ConfirmBooking(h)
                 \/ \E c \in Reqs : ExpiryUpdate(c)
          PROVE  held' = held
      BY <3>3 DEF ConfirmBooking, ExpiryUpdate
    <3> QED
      BY <3>2, <3>3, BookingSteps
  <2>2. CASE Passed(r)
    BY <1>3, <1>5, <2>1, <2>2, DeadStep DEF OlderLockLost
  <2>3. CASE ~Passed(r)
    <3>1. /\ CheckExisting(r)
          /\ \A c \in Reqs \ {r} : Busy(c, req[r].now) =>
                                     req[c].seats \cap req[r].seats = {}
      BY <2>3, PassedStep
    <3>2. b # r
      BY <1>5, <2>3 DEF Passed
    <3>3. ~Busy(b, req[r].now)
      BY <1>3, <3>1, <3>2
    <3>4. req[r].now <= clock
      BY DEF RequestProgress, Progress
    <3>5. /\ req[r].now \in Nat /\ clock \in Nat /\ booking[b].expiresAt \in Nat
      BY DEF TypeOK, LockTypeOK, ReqType, BookingType
    <3>6. Dead(b)
      BY <1>5, <3>3, <3>4, <3>5 DEF Busy, Dead
    <3> QED
      BY <3>6, DeadStep
  <2> QED
    BY <2>2, <2>3
<1> QED
  BY <1>4, <1>5

LEMMA SaleBegins == Init => SaleInv
<1>1. Init => TypeOK
  BY InitType
<1>2. Init => /\ TokenOrder /\ TokenOwner /\ RequestProgress
              /\ WriterTargets /\ HeldExists /\ OlderLockLost
  BY DEF Init, LockInit, BookingInit, NoLock, IdleReq, NoBooking, NoJob, IdleHook,
         TokenOrder, TokenOwner, RequestProgress, Progress, WriterTargets,
         HeldExists, OlderLockLost
<1> QED
  BY <1>1, <1>2 DEF SaleInv

LEMMA SaleStep == SaleInv /\ [Next]_vars => SaleInv'
BY TypeStep, TokenStep, ProgressStep, WriterTargetsStep, HeldStep, OlderLockLostStep
   DEF SaleInv

\* The inductive invariant holds in every state.
THEOREM SaleInvariant == Spec => []SaleInv
<1> QED
  BY SaleBegins, SaleStep, PTL DEF Spec

\* Two bookings that occupy one seat are the same user's, or one was created
\* after its lock was gone, or one was confirmed after its deadline.
THEOREM SharedSeat == Spec => []SharedSeatCause
<1>1. SaleInv => SharedSeatCause
  <2> SUFFICES ASSUME SaleInv, NEW a \in Reqs, NEW b \in Reqs, a # b,
                      req[a].seats \cap req[b].seats # {},
                      Occupies(a), Occupies(b), req[a].user # req[b].user,
                      a \in held, b \in held
               PROVE  a \in late \/ b \in late
    BY DEF SharedSeatCause
  <2> USE DEF SaleInv
  <2>1. PICK s \in Seats : s \in req[a].seats \cap req[b].seats
    BY DEF TypeOK, ReqType
  <2>2. booking[a].status # "none" /\ booking[b].status # "none"
    BY DEF Occupies
  <2>3. req[a].tok[s] # 0 /\ req[b].tok[s] # 0
        /\ req[a].tok[s] \in Nat /\ req[b].tok[s] \in Nat
    BY <2>1, <2>2 DEF RequestProgress, Progress, TypeOK, ReqType
  <2>4. req[a].tok[s] # req[b].tok[s]
    BY <2>1, <2>3 DEF TokenOwner
  <2>5. Dead(a) \/ Dead(b)
    <3>1. CASE req[a].tok[s] < req[b].tok[s]
      BY <2>1, <2>2, <3>1 DEF OlderLockLost, Passed
    <3>2. CASE req[b].tok[s] < req[a].tok[s]
      BY <2>1, <2>2, <3>2 DEF OlderLockLost, Passed
    <3> QED
      BY <2>3, <2>4, <3>1, <3>2
  <2>6. \A c \in Reqs : booking[c].expiresAt \in Nat /\ clock \in Nat
    BY DEF TypeOK, LockTypeOK, BookingType
  <2> QED
    BY <2>5, <2>6 DEF Dead, Occupies
<1> QED
  BY <1>1, SaleInvariant, PTL

\* A booking confirmed before its deadline stays confirmed for ever.
THEOREM ConfirmationFinal == Spec => OnTimeConfirmationIsFinal
<1>1. ASSUME SaleInv, [Next]_vars, NEW b \in Reqs,
             booking[b].status = "CONFIRMED", b \notin late
      PROVE  booking'[b].status = "CONFIRMED"
  <2> USE DEF SaleInv
  <2>1. CASE UNCHANGED <<booking, held, late>>
    BY <1>1, <2>1
  <2>2. ASSUME NEW r \in Reqs, CreateBooking(r)
        PROVE  booking'[b] = booking[b]
    <3>1. booking[r].status = "none"
      BY <1>1, <2>2 DEF CreateBooking, RequestProgress, Progress
    <3> QED
      BY <1>1, <2>2, <3>1 DEF CreateBooking, TypeOK
  <2>3. ASSUME NEW h \in Hooks, ConfirmBooking(h)
        PROVE  booking'[b].status = "CONFIRMED"
    <3>1. sent[hook[h].event].order \in Reqs
      BY <1>1, <2>3 DEF ConfirmBooking, TypeOK
    <3> QED
      BY <1>1, <2>3, <3>1 DEF ConfirmBooking, TypeOK, BookingType
  <2>4. ASSUME NEW c \in Reqs, ExpiryUpdate(c)
        PROVE  booking'[b] = booking[b]
    <3>1. Dead(c)
      BY <1>1, <2>4 DEF ExpiryUpdate, WriterTargets
    <3>2. c # b
      BY <1>1, <3>1 DEF Dead
    <3> QED
      BY <1>1, <2>4, <3>2 DEF ExpiryUpdate, TypeOK
  <2>5. \/ UNCHANGED <<booking, held, late>>
        \/ \E r \in Reqs : CreateBooking(r)
        \/ \E h \in Hooks : ConfirmBooking(h)
        \/ \E c \in Reqs : ExpiryUpdate(c)
    BY <1>1, BookingSteps
  <2> QED
    BY <1>1, <2>1, <2>2, <2>3, <2>4, <2>5
<1>2. SaleInv /\ [Next]_vars =>
        [\A b \in Reqs : booking[b].status = "CONFIRMED" /\ b \notin late
                           => booking'[b].status = "CONFIRMED"]_vars
  BY <1>1
<1> QED
  BY <1>2, SaleInvariant, PTL DEF Spec, OnTimeConfirmationIsFinal
=============================================================================
