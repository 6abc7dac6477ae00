----------------------- MODULE BookingRefinementProofs -----------------------
(***************************************************************************)
(* Every booking is watched, every event is admitted once, and Bookings    *)
(* implements BookingLifecycle: for every number of users, seats,          *)
(* requests, handlers and events, every TTL and every bound.               *)
(***************************************************************************)
EXTENDS BookingRefinement, BookingsProofs

----------------------------------------------------------------------------
(* An event is admitted once *)

\* A ticket names an event whose insert was made.
TicketRecorded == \A b \in Reqs : booking[b].ticket \in recorded \cup {NoEvent}

DeliveryInv == TicketRecorded /\ EventAdmittedOnce

\* The steps that the deliveries can tell from one another
LEMMA DeliverySteps ==
  ASSUME TypeOK, [Next]_vars
  PROVE  \/ /\ UNCHANGED <<recorded, hook>>
            /\ \A b \in Reqs : booking'[b].ticket = booking[b].ticket
         \/ \E h \in Hooks : \/ HookStep(h) \/ AbortWebhook(h)
                             \/ \E e \in Events : DeliverWebhook(h, e)
<1> DEFINE Still == /\ UNCHANGED <<recorded, hook>>
                    /\ \A b \in Reqs : booking'[b].ticket = booking[b].ticket
<1>1. ASSUME UNCHANGED <<recorded, hook, booking>>
      PROVE  Still
  BY <1>1
<1>2. ASSUME NEW r \in Reqs, CreateBooking(r)
      PROVE  Still
  BY <1>2 DEF CreateBooking, TypeOK, BookingType
<1>3. ASSUME NEW r \in Reqs, InitiateStep(r) \/ AbortInitiate(r)
      PROVE  Still
  BY <1>1, <1>2, <1>3 DEF InitiateStep, ReadClock, CheckExisting, CreateOrder,
     EnqueueExpiry, FinishInitiate, ValidateLock, ReleaseRead, ReleaseDelete,
     AbortInitiate
<1>4. ASSUME NEW b \in Reqs, ExpiryUpdate(b)
      PROVE  Still
  BY <1>4 DEF ExpiryUpdate, TypeOK, BookingType
<1>5. ASSUME NEW b \in Reqs, ExpiryStep(b) \/ AbortExpiry(b)
      PROVE  Still
  BY <1>1, <1>4, <1>5 DEF ExpiryStep, ExpiryRead, AbortExpiry
<1>6. ASSUME NEW r \in Reqs, NEW u \in Users, NEW S \in (SUBSET Seats) \ {{}},
             StartInitiate(r, u, S)
      PROVE  Still
  BY <1>1, <1>6 DEF StartInitiate
<1>7. ASSUME NEW e \in Events, GatewayEvent(e)
      PROVE  Still
  BY <1>1, <1>7 DEF GatewayEvent
<1>8. CASE UNCHANGED bookingVars
  BY <1>1, <1>8 DEF bookingVars
<1> HIDE DEF Still
<1>9. CASE UNCHANGED vars
  BY <1>8, <1>9 DEF vars
<1>10. CASE Next
  <2>1. CASE UNCHANGED bookingVars
    BY <1>8, <2>1 DEF Still
  <2>2. CASE \E h \in Hooks : \/ HookStep(h) \/ AbortWebhook(h)
                              \/ \E e \in Events : DeliverWebhook(h, e)
    BY <2>2
  <2>3. CASE \E r \in Reqs : InitiateStep(r) \/ AbortInitiate(r)
    BY <1>3, <2>3 DEF Still
  <2>4. CASE \E b \in Reqs : ExpiryStep(b) \/ AbortExpiry(b)
    BY <1>5, <2>4 DEF Still
  <2>5. CASE \E r \in Reqs, u \in Users, S \in (SUBSET Seats) \ {{}} :
               StartInitiate(r, u, S)
    BY <1>6, <2>5 DEF Still
  <2>6. CASE \E e \in Events : GatewayEvent(e)
    BY <1>7, <2>6 DEF Still
  <2> QED
    BY <1>10, <2>1, <2>2, <2>3, <2>4, <2>5, <2>6 DEF Next
<1> QED
  BY <1>9, <1>10 DEF Still

\* A handler's step, or its end, admits no event a second time.
LEMMA DeliveryStep ==
  ASSUME TypeOK, DeliveryInv, [Next]_vars
  PROVE  DeliveryInv'
<1> USE DEF DeliveryInv
<1>1. ASSUME UNCHANGED <<recorded, hook>>,
             \A b \in Reqs : booking'[b].ticket = booking[b].ticket
      PROVE  DeliveryInv'
  BY <1>1 DEF TicketRecorded, EventAdmittedOnce
<1>2. ASSUME NEW h \in Hooks, NEW e \in Events, DeliverWebhook(h, e)
      PROVE  DeliveryInv'
  BY <1>2 DEF DeliverWebhook, TicketRecorded, EventAdmittedOnce, TypeOK
<1>3. ASSUME NEW h \in Hooks, RecordEvent(h)
      PROVE  DeliveryInv'
  <2>1. hook[h].event \in Events /\ recorded \subseteq recorded'
    BY <1>3 DEF RecordEvent, TypeOK, HookType
  <2>2. TicketRecorded'
    BY <1>3, <2>1 DEF RecordEvent, TicketRecorded
  <2>3. CASE hook'[h].pc = "idle"
    BY <1>3, <2>1, <2>2, <2>3 DEF RecordEvent, EventAdmittedOnce, TypeOK
  <2>4. CASE hook'[h].pc # "idle"
    <3>1. /\ hook[h].event \notin recorded
          /\ hook' = [hook EXCEPT ![h].pc = "read"]
      BY <1>3, <2>4 DEF RecordEvent, IdleHook, TypeOK
    <3>2. \A b \in Reqs : booking[b].ticket # hook[h].event
      BY <2>1, <3>1, NoEventAssumption DEF TicketRecorded
    <3> QED
      BY <1>3, <2>1, <2>2, <3>1, <3>2 DEF RecordEvent, EventAdmittedOnce, TypeOK, HookType
  <2> QED
    BY <2>3, <2>4
<1>4. ASSUME NEW h \in Hooks, ReadBooking(h)
      PROVE  DeliveryInv'
  BY <1>4 DEF ReadBooking, IdleHook, TicketRecorded, EventAdmittedOnce, TypeOK, HookType
<1>5. ASSUME NEW h \in Hooks, ConfirmBooking(h)
      PROVE  DeliveryInv'
  <2> DEFINE e == hook[h].event
  <2>1. e \in recorded /\ sent[e].order \in Reqs
    BY <1>5 DEF ConfirmBooking, EventAdmittedOnce, TypeOK
  <2>2. /\ hook' = [hook EXCEPT ![h] = IdleHook]
        /\ UNCHANGED recorded
        /\ \A b \in Reqs : booking'[b].ticket \in {booking[b].ticket, e}
    BY <1>5, <2>1 DEF ConfirmBooking, TypeOK, BookingType
  <2>3. \A g \in Hooks \ {h} : hook[g].pc \in {"read", "confirm"} => hook[g].event # e
    BY <1>5 DEF ConfirmBooking, EventAdmittedOnce
  <2> HIDE DEF e
  <2> QED
    BY <2>1, <2>2, <2>3 DEF TicketRecorded, EventAdmittedOnce, TypeOK, IdleHook
<1>6. ASSUME NEW h \in Hooks, AbortWebhook(h)
      PROVE  DeliveryInv'
  BY <1>6 DEF AbortWebhook, IdleHook, TicketRecorded, EventAdmittedOnce, TypeOK, HookType
<1>7. ASSUME NEW h \in Hooks, HookStep(h) \/ AbortWebhook(h)
      PROVE  DeliveryInv'
  BY <1>3, <1>4, <1>5, <1>6, <1>7 DEF HookStep
<1> QED
  BY DeliverySteps, <1>1, <1>2, <1>7

THEOREM DeliveryInvariant == Spec => []DeliveryInv
<1>1. Init => DeliveryInv
  BY DEF Init, BookingInit, NoBooking, IdleHook, DeliveryInv, TicketRecorded,
         EventAdmittedOnce
<1>2. TypeOK /\ DeliveryInv /\ [Next]_vars => DeliveryInv'
  BY DeliveryStep
<1> QED
  BY <1>1, <1>2, TypeCorrect, PTL DEF Spec

\* No two handlers are past the insert with one event, and none is about to
\* confirm with an event that has confirmed before.
THEOREM AdmittedOnce == Spec => []EventAdmittedOnce
BY DeliveryInvariant, PTL DEF DeliveryInv
----------------------------------------------------------------------------
(* Every pending booking is watched *)

\* No job before queue.add, and none due before the booking's deadline
JobFits(b) ==
  /\ req[b].pc \in {"idle", "validate", "clock", "check", "order", "create",
                    "enqueue", "rejected"} => job[b].pc = "none"
  /\ job[b].pc \in {"queued", "update"} => booking[b].expiresAt <= job[b].due

WatchInv == PendingIsWatched /\ \A b \in Reqs : JobFits(b)

\* What the clause of WatchInv about b depends on
Watched(b) ==
  /\ JobFits(b)
  /\ booking[b].status = "PENDING" =>
       req[b].pc = "enqueue" \/ job[b].pc \in {"queued", "update"} \/ Unwatched(b)

LEMMA WatchParts == WatchInv <=> \A b \in Reqs : Watched(b)
BY DEF WatchInv, Watched, PendingIsWatched

LEMMA WatchFrame ==
  ASSUME NEW b \in Reqs, Watched(b),
         req'[b].pc = req[b].pc, booking'[b] = booking[b], job'[b] = job[b]
  PROVE  Watched(b)'
BY DEF Watched, JobFits, Unwatched

\* The handler of another request, or a webhook, or a lock, is no concern of b.
LEMMA WatchInitiate ==
  ASSUME TypeOK, RequestProgress, NEW b \in Reqs, Watched(b), NEW r \in Reqs,
         InitiateStep(r) \/ AbortInitiate(r)
  PROVE  Watched(b)'
<1>0. booking[b] \in BookingType /\ job[b] \in JobType /\ clock \in Nat
  BY DEF TypeOK, LockTypeOK
<1>1. CASE r # b
  <2>1. req'[b] = req[b] /\ booking'[b] = booking[b] /\ job'[b] = job[b]
    BY <1>1 DEF InitiateStep, ReadClock, CheckExisting, CreateOrder, CreateBooking,
       EnqueueExpiry, FinishInitiate, ValidateLock, ReleaseRead, ReleaseDelete,
       AbortInitiate, TypeOK
  <2> QED
    BY <2>1, WatchFrame
<1>2. CASE r = b
  <2> USE DEF TypeOK, ReqType
  <2>1. CASE CreateBooking(b)
    BY <2>1 DEF CreateBooking, Watched, JobFits, RequestProgress, Progress
  <2>2. CASE EnqueueExpiry(b)
    <3>1. /\ req'[b].pc = "release" /\ job'[b].pc = "queued"
          /\ booking'[b] = booking[b] /\ booking[b].expiresAt <= job'[b].due
      BY <1>0, <2>2 DEF EnqueueExpiry, BookingType
    <3> QED
      BY <3>1 DEF Watched, JobFits
  <2>3. CASE AbortInitiate(b)
    <3>1. /\ req'[b].pc = "aborted" /\ booking'[b] = booking[b] /\ job'[b] = job[b]
          /\ req[b].pc \notin {"idle", "done", "rejected", "aborted"}
      BY <2>3 DEF AbortInitiate
    <3>2. req[b].pc \in {"validate", "clock", "check", "order", "create"} =>
            booking[b].status = "none"
      BY DEF RequestProgress, Progress
    <3>3. req[b].pc \in {"validate", "clock", "check", "order", "create", "enqueue",
                        "release"}
      BY <3>1 DEF ReqPCs
    <3>4. job[b].pc # "none" /\ booking[b].status = "PENDING" =>
            job[b].pc \in {"queued", "update", "failed"}
      BY <3>1, <3>2, <3>3 DEF Watched, JobFits, Unwatched
    <3>5. JobFits(b)'
      BY <3>1 DEF Watched, JobFits
    <3> QED
      BY <3>1, <3>4, <3>5 DEF Watched, Unwatched
  <2>4. CASE \E s \in Seats : ValidateLock(b, s)
    BY <2>4 DEF ValidateLock, Watched, JobFits, Unwatched, RequestProgress, Progress
  <2>5. CASE ReadClock(b) \/ CheckExisting(b) \/ CreateOrder(b)
    BY <2>5 DEF ReadClock, CheckExisting, CreateOrder, Watched, JobFits, Unwatched,
       RequestProgress, Progress
  <2>6. CASE FinishInitiate(b) \/ \E s \in Seats : ReleaseRead(b, s) \/ ReleaseDelete(b, s)
    <3> DEFINE Kept == /\ req[b].pc = "release" /\ req'[b].pc \in {"release", "done"}
                       /\ booking'[b] = booking[b] /\ job'[b] = job[b]
    <3>1. Kept
      <4>1. ASSUME NEW s \in Seats, ReleaseRead(b, s)
            PROVE  Kept
        BY <4>1 DEF ReleaseRead
      <4>2. ASSUME NEW s \in Seats, ReleaseDelete(b, s)
            PROVE  Kept
        BY <4>2 DEF ReleaseDelete
      <4>3. CASE FinishInitiate(b)
        BY <4>3 DEF FinishInitiate
      <4> QED
        BY <2>6, <4>1, <4>2, <4>3
    <3> QED
      BY <3>1 DEF Watched, JobFits, Unwatched
  <2> QED
    BY <1>2, <2>1, <2>2, <2>3, <2>4, <2>5, <2>6 DEF InitiateStep
<1> QED
  BY <1>1, <1>2

LEMMA WatchExpiry ==
  ASSUME TypeOK, NEW b \in Reqs, Watched(b), NEW c \in Reqs,
         ExpiryStep(c) \/ AbortExpiry(c)
  PROVE  Watched(b)'
<1>0. booking[b] \in BookingType /\ job[b] \in JobType /\ clock \in Nat
  BY DEF TypeOK, LockTypeOK
<1>1. CASE c # b
  <2>1. req'[b] = req[b] /\ booking'[b] = booking[b] /\ job'[b] = job[b]
    BY <1>1 DEF ExpiryStep, ExpiryRead, ExpiryUpdate, AbortExpiry, TypeOK
  <2> QED
    BY <2>1, WatchFrame
<1>2. CASE c = b /\ ExpiryRead(b)
  <2>1. /\ booking[b].status = "PENDING" => Expirable(b, clock)
        /\ booking' = booking /\ req' = req
        /\ job' = [job EXCEPT ![b].pc = IF Expirable(b, clock) THEN "update" ELSE "done"]
    BY <1>0, <1>2 DEF ExpiryRead, Watched, JobFits, Expirable, BookingType, JobType
  <2> HIDE DEF Expirable
  <2> QED
    BY <1>0, <1>2, <2>1 DEF ExpiryRead, Watched, JobFits, Unwatched, TypeOK, JobType
<1>3. CASE c = b /\ ExpiryUpdate(b)
  BY <1>0, <1>3 DEF ExpiryUpdate, Watched, JobFits, TypeOK, BookingType, JobType
<1>4. CASE c = b /\ AbortExpiry(b)
  <2>1. PICK pc \in {"failed", "queued"} : job' = [job EXCEPT ![b].pc = pc]
    BY <1>4 DEF AbortExpiry
  <2> QED
    BY <1>0, <1>4, <2>1 DEF AbortExpiry, Watched, JobFits, Unwatched, TypeOK, JobType
<1> QED
  BY <1>1, <1>2, <1>3, <1>4 DEF ExpiryStep

THEOREM WatchInvariant == Spec => []WatchInv
<1>1. Init => WatchInv
  BY DEF Init, BookingInit, NoBooking, NoJob, IdleReq, WatchInv, PendingIsWatched, JobFits
<1>2. SaleInv /\ WatchInv /\ [Next]_vars => WatchInv'
  <2> SUFFICES ASSUME SaleInv, WatchInv, [Next]_vars, NEW b \in Reqs
               PROVE  Watched(b)'
    BY DEF WatchInv, Watched, PendingIsWatched
  <2>0. TypeOK /\ RequestProgress /\ Watched(b) /\ booking[b] \in BookingType
    BY WatchParts DEF SaleInv, TypeOK
  <2>1. CASE UNCHANGED <<req, booking, job>>
    BY <2>0, <2>1, WatchFrame
  <2>2. CASE \E h \in Hooks : ConfirmBooking(h)
    BY <2>0, <2>2 DEF ConfirmBooking, Watched, JobFits, Unwatched, TypeOK, BookingType
  <2>3. CASE \E h \in Hooks : HookStep(h) \/ AbortWebhook(h)
    BY <2>1, <2>2, <2>3 DEF HookStep, RecordEvent, ReadBooking, AbortWebhook
  <2>4. CASE \E r \in Reqs : InitiateStep(r) \/ AbortInitiate(r)
    BY <2>0, <2>4, WatchInitiate
  <2>5. CASE \E c \in Reqs : ExpiryStep(c) \/ AbortExpiry(c)
    BY <2>0, <2>5, WatchExpiry
  <2>6. CASE \E r \in Reqs, u \in Users, S \in (SUBSET Seats) \ {{}} :
               StartInitiate(r, u, S)
    <3>1. PICK r \in Reqs, u \in Users, S \in (SUBSET Seats) \ {{}} :
            StartInitiate(r, u, S)
      BY <2>6
    <3>2. CASE r # b
      <4>1. req'[b] = req[b] /\ booking' = booking /\ job' = job
        BY <3>1, <3>2 DEF StartInitiate
      <4> QED
        BY <2>0, <4>1, WatchFrame
    <3>3. CASE r = b
      <4>1. booking[b].status = "none"
        BY <2>0, <3>1, <3>3 DEF StartInitiate, RequestProgress, Progress
      <4> QED
        BY <2>0, <3>1, <3>3, <4>1 DEF StartInitiate, Watched, JobFits, TypeOK, ReqType
    <3> QED
      BY <3>2, <3>3
  <2>7. CASE \E e \in Events : GatewayEvent(e) \/ \E h \in Hooks : DeliverWebhook(h, e)
    BY <2>1, <2>7 DEF GatewayEvent, DeliverWebhook
  <2>8. CASE UNCHANGED bookingVars
    BY <2>1, <2>8 DEF bookingVars
  <2> QED
    BY <2>3, <2>4, <2>5, <2>6, <2>7, <2>8 DEF Next, vars
<1> QED
  BY <1>1, <1>2, SaleInvariant, PTL DEF Spec

\* A booking stays PENDING only while somebody will look at it after its
\* deadline, unless the request or the job that should have done so died.
THEOREM PendingWatched == Spec => []PendingIsWatched
BY WatchInvariant, PTL DEF WatchInv
----------------------------------------------------------------------------
(* Bookings implements BookingLifecycle *)

\* Nothing of the lifecycle changes when these variables do not.
LEMMA LifecycleFrame ==
  ASSUME UNCHANGED <<clock, booking, sent, recorded, hook>>,
         \A b \in Reqs : job'[b].pc = "update" <=> job[b].pc = "update"
  PROVE  UNCHANGED Lifecycle!lifecycleVars
BY DEF Lifecycle!lifecycleVars, HookEvents

\* A lock step is the passing of time, or invisible.
LEMMA LockImplements ==
  ASSUME TypeOK, LockNext, UNCHANGED bookingVars
  PROVE  Lifecycle!Next \/ UNCHANGED Lifecycle!lifecycleVars
<1>1. CASE Tick
  BY <1>1 DEF Tick, bookingVars, HookEvents, Lifecycle!Next, Lifecycle!Time
<1>2. CASE ~Tick
  <2>1. UNCHANGED clock
    BY <1>2 DEF LockNext, LockSeat, UnlockRead, EnqueueLockExpiry, UnlockDelete,
                AbortLockReq, RunLockExpiryJob
  <2> QED
    BY <2>1, LifecycleFrame DEF bookingVars
<1> QED
  BY <1>1, <1>2

\* Of initiateBooking only the insert is visible.
LEMMA InitiateImplements ==
  ASSUME TypeOK, RequestProgress, WatchInv, NEW r \in Reqs,
         InitiateStep(r) \/ AbortInitiate(r)
  PROVE  Lifecycle!Next \/ UNCHANGED Lifecycle!lifecycleVars
<1>1. CASE CreateBooking(r)
  <2>1. booking[r].status = "none"
    BY <1>1 DEF CreateBooking, RequestProgress, Progress
  <2>2. Lifecycle!Create(r)
    BY <1>1, <2>1 DEF CreateBooking, Lifecycle!Create, HookEvents, lockVars, TypeOK,
                      BookingType
  <2> QED
    BY <2>2 DEF Lifecycle!Next
<1>2. CASE EnqueueExpiry(r)
  <2>1. job[r].pc = "none"
    BY <1>2 DEF EnqueueExpiry, WatchInv, JobFits
  <2>2. \A b \in Reqs : job'[b].pc = "update" <=> job[b].pc = "update"
    BY <1>2, <2>1 DEF EnqueueExpiry, TypeOK
  <2> QED
    BY <1>2, <2>2, LifecycleFrame DEF EnqueueExpiry, lockVars
<1>3. CASE ~CreateBooking(r) /\ ~EnqueueExpiry(r)
  <2>1. UNCHANGED <<clock, booking, sent, recorded, hook, job>>
    BY <1>3 DEF InitiateStep, ReadClock, CheckExisting, CreateOrder, FinishInitiate,
       ValidateLock, ReleaseRead, ReleaseDelete, AbortInitiate, lockVars
  <2> QED
    BY <2>1, LifecycleFrame
<1> QED
  BY <1>1, <1>2, <1>3

\* The job's read and write, and its death
LEMMA ExpiryImplements ==
  ASSUME TypeOK, NEW b \in Reqs, ExpiryStep(b) \/ AbortExpiry(b)
  PROVE  Lifecycle!Next \/ UNCHANGED Lifecycle!lifecycleVars
<1> DEFINE Overdue == {c \in Reqs : job[c].pc = "update"}
<1>1. CASE ExpiryRead(b) /\ Expirable(b, clock)
  <2>1. Overdue' = Overdue \cup {b}
    BY <1>1 DEF ExpiryRead, TypeOK, JobType
  <2>2. Lifecycle!Find(b)
    BY <1>1, <2>1 DEF ExpiryRead, Expirable, Lifecycle!Find, HookEvents, lockVars
  <2> QED
    BY <2>2 DEF Lifecycle!Next
<1>2. CASE ExpiryRead(b) /\ ~Expirable(b, clock)
  <2>1. \A c \in Reqs : job'[c].pc = "update" <=> job[c].pc = "update"
    BY <1>2 DEF ExpiryRead, TypeOK, JobType
  <2> QED
    BY <1>2, <2>1, LifecycleFrame DEF ExpiryRead, lockVars
<1>3. CASE ExpiryUpdate(b)
  <2>1. b \in Overdue /\ Overdue' = Overdue \ {b}
    BY <1>3 DEF ExpiryUpdate, TypeOK, JobType
  <2>2. Lifecycle!Expire(b)
    <3>1. /\ [c \in Reqs |-> booking'[c].status]
               = [[c \in Reqs |-> booking[c].status] EXCEPT ![b] = "EXPIRED"]
          /\ [c \in Reqs |-> booking'[c].expiresAt] = [c \in Reqs |-> booking[c].expiresAt]
          /\ [c \in Reqs |-> booking'[c].ticket] = [c \in Reqs |-> booking[c].ticket]
      BY <1>3 DEF ExpiryUpdate, TypeOK, BookingType
    <3>2. UNCHANGED <<clock, sent, recorded, hook>>
      BY <1>3 DEF ExpiryUpdate
    <3> QED
      BY <2>1, <3>1, <3>2 DEF Lifecycle!Expire, HookEvents
  <2> QED
    BY <2>2 DEF Lifecycle!Next
<1>4. CASE AbortExpiry(b)
  <2>1. b \in Overdue /\ Overdue' = Overdue \ {b}
    BY <1>4 DEF AbortExpiry, TypeOK, JobType
  <2>2. Lifecycle!LoseOverdue(b)
    BY <1>4, <2>1 DEF AbortExpiry, Lifecycle!LoseOverdue, HookEvents
  <2> QED
    BY <2>2 DEF Lifecycle!Next
<1> QED
  BY <1>1, <1>2, <1>3, <1>4 DEF ExpiryStep

\* A step of an event is a step of the lifecycle.
LEMMA EventSteps ==
  ASSUME NEW e \in Events,
         \/ Lifecycle!Accept(e) \/ Lifecycle!Waste(e)
         \/ Lifecycle!Confirm(e) \/ Lifecycle!LoseAccepted(e)
  PROVE  Lifecycle!Next
BY DEF Lifecycle!Next

\* An event leaves the read of its booking accepted or wasted, and leaves the
\* write confirmed or lost; no other handler holds the same event.
LEMMA HookImplements ==
  ASSUME TypeOK, DeliveryInv, NEW h \in Hooks, HookStep(h) \/ AbortWebhook(h)
  PROVE  Lifecycle!Next \/ UNCHANGED Lifecycle!lifecycleVars
<1> DEFINE Spent == recorded \ HookEvents("read")
<1> PICK e \in Events : hook[h].event = e
  BY DEF HookStep, RecordEvent, ReadBooking, ConfirmBooking, AbortWebhook, TypeOK
<1>0. /\ \A g \in Hooks \ {h} : hook'[g] = hook[g]
      /\ hook' \in [Hooks -> HookType]
      /\ hook[h].pc # "idle" /\ hook[h].event = e
      /\ UNCHANGED <<clock, job, sent>>
  BY DEF HookStep, RecordEvent, ReadBooking, ConfirmBooking, AbortWebhook, TypeOK,
         HookType, IdleHook, lockVars
<1>1. CASE RecordEvent(h)
  <2>1. Spent' = Spent \/ (e \notin Spent /\ Spent' = Spent \cup {e})
    BY <1>0, <1>1 DEF RecordEvent, HookEvents, IdleHook, TypeOK
  <2>2. HookEvents("confirm")' = HookEvents("confirm")
    BY <1>0, <1>1 DEF RecordEvent, HookEvents, IdleHook, TypeOK
  <2> QED
    BY <1>0, <1>1, <2>1, <2>2 DEF RecordEvent, Lifecycle!Next, Lifecycle!Waste,
                                  Lifecycle!lifecycleVars
<1>2. CASE ReadBooking(h)
  <2>1. /\ e \in recorded /\ recorded' = recorded /\ booking' = booking
        /\ \A g \in Hooks \ {h} : hook[g].pc = "read" => hook[g].event # e
        /\ sent[e].order \in Reqs /\ hook[h].pc = "read"
    BY <1>2 DEF ReadBooking, DeliveryInv, EventAdmittedOnce, TypeOK
  <2>2. hook'[h].pc # "read"
    BY <1>2 DEF ReadBooking, IdleHook, TypeOK, HookType
  <2>3. e \notin Spent /\ Spent' = Spent \cup {e}
    BY <1>0, <2>1, <2>2 DEF HookEvents
  <2>4. CASE Confirmable(sent[e].order)
    <3>1. hook'[h].pc = "confirm" /\ hook'[h].event = e
      BY <1>2, <2>4 DEF ReadBooking, TypeOK, HookType
    <3>2. HookEvents("confirm")' = HookEvents("confirm") \cup {e}
      BY <1>0, <2>1, <3>1 DEF HookEvents
    <3>3. Lifecycle!Accept(e)
      BY <1>0, <2>1, <2>3, <2>4, <3>2 DEF Confirmable, Lifecycle!Accept
    <3> QED
      BY <1>0, <3>3, EventSteps
  <2>5. CASE ~Confirmable(sent[e].order)
    <3>1. hook'[h].pc = "idle"
      BY <1>2, <2>5 DEF ReadBooking, TypeOK, IdleHook
    <3>2. HookEvents("confirm")' = HookEvents("confirm")
      BY <1>0, <2>1, <3>1 DEF HookEvents
    <3>3. Lifecycle!Waste(e)
      BY <1>0, <2>1, <2>3, <3>2 DEF Lifecycle!Waste
    <3> QED
      BY <1>0, <3>3, EventSteps
  <2> QED
    BY <2>4, <2>5
<1>3. CASE ConfirmBooking(h) \/ (AbortWebhook(h) /\ hook[h].pc = "confirm")
  <2>1. /\ hook[h].pc = "confirm" /\ hook'[h].pc = "idle" /\ recorded' = recorded
    BY <1>3 DEF ConfirmBooking, AbortWebhook, IdleHook, TypeOK, lockVars
  <2>2. /\ \A g \in Hooks \ {h} : hook[g].pc = "confirm" => hook[g].event # e
        /\ sent[e].order \in Reqs
    BY <2>1 DEF DeliveryInv, EventAdmittedOnce, TypeOK
  <2>3. e \in HookEvents("confirm") /\ HookEvents("confirm")' = HookEvents("confirm") \ {e}
    BY <1>0, <2>1, <2>2 DEF HookEvents
  <2>4. Spent' = Spent
    BY <1>0, <2>1 DEF HookEvents
  <2>5. CASE ConfirmBooking(h)
    <3> DEFINE b == sent[e].order
    <3>1. /\ [c \in Reqs |-> booking'[c].status]
               = [[c \in Reqs |-> booking[c].status] EXCEPT ![b] = "CONFIRMED"]
          /\ [c \in Reqs |-> booking'[c].expiresAt] = [c \in Reqs |-> booking[c].expiresAt]
          /\ [c \in Reqs |-> booking'[c].ticket]
               = [[c \in Reqs |-> booking[c].ticket] EXCEPT ![b] = e]
      BY <2>2, <2>5 DEF ConfirmBooking, TypeOK, BookingType
    <3>2. Lifecycle!Confirm(e)
      BY <1>0, <2>3, <2>4, <3>1 DEF Lifecycle!Confirm
    <3> QED
      BY <1>0, <3>2, EventSteps
  <2>6. CASE AbortWebhook(h)
    <3>1. Lifecycle!LoseAccepted(e)
      BY <1>0, <2>3, <2>4, <2>6 DEF AbortWebhook, Lifecycle!LoseAccepted
    <3> QED
      BY <1>0, <3>1, EventSteps
  <2> QED
    BY <1>3, <2>5, <2>6
<1>4. CASE AbortWebhook(h) /\ hook[h].pc # "confirm"
  <2>1. /\ hook'[h].pc = "idle" /\ UNCHANGED <<recorded, booking>>
    BY <1>4 DEF AbortWebhook, IdleHook, TypeOK
  <2>2. HookEvents("confirm")' = HookEvents("confirm")
    BY <1>0, <1>4, <2>1 DEF HookEvents
  <2>3. Spent' = Spent \/ (e \notin Spent /\ Spent' = Spent \cup {e})
    BY <1>0, <2>1 DEF HookEvents, DeliveryInv, EventAdmittedOnce
  <2> QED
    BY <1>0, <2>1, <2>2, <2>3 DEF Lifecycle!Next, Lifecycle!Waste, Lifecycle!lifecycleVars
<1>5. CASE AbortWebhook(h)
  BY <1>3, <1>4, <1>5
<1>6. CASE HookStep(h)
  BY <1>1, <1>2, <1>3, <1>6 DEF HookStep
<1> QED
  BY <1>5, <1>6

\* What Razorpay sends is about a booking that exists; arrivals are invisible.
LEMMA GatewayImplements ==
  ASSUME TypeOK, RequestProgress, NEW e \in Events,
         GatewayEvent(e) \/ \E h \in Hooks : DeliverWebhook(h, e)
  PROVE  Lifecycle!Next \/ UNCHANGED Lifecycle!lifecycleVars
<1>1. ASSUME NEW o \in Reqs, NEW k \in Kinds, req[o].pc = "done", GatewayEvent(e),
             sent' = [sent EXCEPT ![e] = [order |-> o, kind |-> k]]
      PROVE  Lifecycle!PayFor(e, o)
  <2>1. booking[o].status # "none"
    BY <1>1 DEF RequestProgress, Progress
  <2>2. sent[e].order = NoOrder
    BY <1>1 DEF GatewayEvent, NotSent
  <2>3. [f \in Events |-> sent'[f].order] = [[f \in Events |-> sent[f].order] EXCEPT ![e] = o]
    BY <1>1 DEF TypeOK
  <2> QED
    BY <1>1, <2>1, <2>2, <2>3 DEF GatewayEvent, Lifecycle!PayFor, HookEvents, lockVars
<1>2. ASSUME GatewayEvent(e), sent' = [sent EXCEPT ![e] = Foreign]
      PROVE  UNCHANGED Lifecycle!lifecycleVars
  <2>1. [f \in Events |-> sent'[f].order] = [f \in Events |-> sent[f].order]
    BY <1>2 DEF GatewayEvent, NotSent, Foreign, TypeOK
  <2> QED
    BY <1>2, <2>1 DEF GatewayEvent, Lifecycle!lifecycleVars, HookEvents, lockVars
<1>3. ASSUME NEW h \in Hooks, DeliverWebhook(h, e)
      PROVE  UNCHANGED Lifecycle!lifecycleVars
  <2>1. /\ \A g \in Hooks \ {h} : hook'[g] = hook[g]
        /\ hook[h].pc = "idle" /\ hook'[h].pc = "record"
        /\ UNCHANGED <<clock, booking, job, sent, recorded>>
    BY <1>3 DEF DeliverWebhook, lockVars, TypeOK
  <2>2. \A pc \in {"read", "confirm"} : HookEvents(pc)' = HookEvents(pc)
    BY <2>1 DEF HookEvents
  <2> QED
    BY <2>1, <2>2 DEF Lifecycle!lifecycleVars
<1>4. CASE GatewayEvent(e)
  BY <1>1, <1>2, <1>4 DEF GatewayEvent, Lifecycle!Next
<1>5. CASE \E h \in Hooks : DeliverWebhook(h, e)
  BY <1>3, <1>5
<1> QED
  BY <1>4, <1>5

\* A new request is invisible.
LEMMA StartImplements ==
  ASSUME NEW r \in Reqs, NEW u \in Users, NEW S \in (SUBSET Seats) \ {{}},
         StartInitiate(r, u, S)
  PROVE  UNCHANGED Lifecycle!lifecycleVars
BY LifecycleFrame DEF StartInitiate, lockVars

\* Bookings implements BookingLifecycle.
THEOREM Refinement == Spec => ImplementsLifecycle
<1>1. Init => Lifecycle!Init
  BY DEF Init, LockInit, BookingInit, NoBooking, NoJob, NotSent, IdleHook, HookEvents,
         Lifecycle!Init
<1>2. SaleInv /\ DeliveryInv /\ WatchInv /\ [Next]_vars
        => [Lifecycle!Next]_(Lifecycle!lifecycleVars)
  <2> SUFFICES ASSUME SaleInv, DeliveryInv, WatchInv, [Next]_vars
               PROVE  Lifecycle!Next \/ UNCHANGED Lifecycle!lifecycleVars
    OBVIOUS
  <2>0. TypeOK /\ RequestProgress
    BY DEF SaleInv
  <2>1. CASE UNCHANGED vars
    BY <2>1, LifecycleFrame DEF vars, lockVars, bookingVars
  <2>2. CASE LockNext /\ UNCHANGED bookingVars
    BY <2>0, <2>2, LockImplements
  <2>3. CASE \E r \in Reqs : InitiateStep(r) \/ AbortInitiate(r)
    BY <2>0, <2>3, InitiateImplements
  <2>4. CASE \E h \in Hooks : HookStep(h) \/ AbortWebhook(h)
    BY <2>0, <2>4, HookImplements
  <2>5. CASE \E b \in Reqs : ExpiryStep(b) \/ AbortExpiry(b)
    BY <2>0, <2>5, ExpiryImplements
  <2>6. CASE \E e \in Events : GatewayEvent(e) \/ \E h \in Hooks : DeliverWebhook(h, e)
    BY <2>0, <2>6, GatewayImplements
  <2>7. CASE \E r \in Reqs, u \in Users, S \in (SUBSET Seats) \ {{}} :
               StartInitiate(r, u, S)
    BY <2>7, StartImplements
  <2> QED
    BY <2>1, <2>2, <2>3, <2>4, <2>5, <2>6, <2>7 DEF Next
<1> QED
  BY <1>1, <1>2, SaleInvariant, DeliveryInvariant, WatchInvariant, PTL
  DEF Spec, ImplementsLifecycle, Lifecycle!Spec
=============================================================================
