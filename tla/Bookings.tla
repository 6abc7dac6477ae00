------------------------------ MODULE Bookings ------------------------------
(***************************************************************************)
(* Booking of locked seats: initiateBooking, the Razorpay webhook and the  *)
(* booking-expiry worker of backend/src/bookings/bookings.service.ts, over *)
(* the Redis locks of SeatLocks.  One step per awaited call; no database   *)
(* transaction spans two of them.                                          *)
(*                                                                         *)
(* A request r that gets as far as prisma.booking.create owns the booking  *)
(* and the Razorpay order named r.  held and late are history variables:   *)
(* no action reads them.                                                   *)
(***************************************************************************)
EXTENDS SeatLocks

CONSTANTS
  Reqs,        \* initiateBooking requests (and the bookings they create)
  Hooks,       \* webhook requests a server works on at once
  Events,      \* Razorpay webhook events, by event id
  NoEvent,     \* no ticket issued yet; an idle webhook handler
  Kinds,       \* the event types the Razorpay webhook is subscribed to
  NoOrder,     \* an event without payment entity, or for an unknown order
  BookingTTL,  \* BOOKING_TTL_MINUTES
  MaxStart     \* bound: requests read the clock no later than this

ASSUME BookingTTLAssumption == BookingTTL \in Nat \ {0} /\ MaxStart \in Nat
ASSUME NoEventAssumption == NoEvent \notin Events
ASSUME NoOrderAssumption == NoOrder \notin Reqs

VARIABLES
  req,        \* initiateBooking handlers
  booking,    \* rows of Booking: status, expiresAt, and the event that paid
  job,        \* booking-expiry queue: one job per booking (its jobId)
  sent,       \* what Razorpay has to deliver: event id -> event
  recorded,   \* rows of PaymentWebhookEvent (eventId is unique)
  hook,       \* webhook handlers
  held,       \* history: bookings created while every validated lock was held
  late        \* history: bookings that became CONFIRMED after expiresAt

bookingVars == <<req, booking, job, sent, recorded, hook, held, late>>
vars == <<lockVars, bookingVars>>

Statuses == {"none", "PENDING", "CONFIRMED", "EXPIRED"}

IdleReq == [pc |-> "idle", user |-> NoUser, seats |-> {}, gets |-> {},
            dels |-> {}, tok |-> [s \in Seats |-> 0], now |-> 0]
NoBooking == [status |-> "none", expiresAt |-> 0, ticket |-> NoEvent]
NoJob == [pc |-> "none", due |-> 0]
NotSent == [order |-> NoOrder, kind |-> "none"]
Foreign == [order |-> NoOrder, kind |-> "foreign"]
IdleHook == [pc |-> "idle", event |-> NoEvent]

BookingInit ==
  /\ req = [r \in Reqs |-> IdleReq]
  /\ booking = [b \in Reqs |-> NoBooking]
  /\ job = [b \in Reqs |-> NoJob]
  /\ sent = [e \in Events |-> NotSent]
  /\ recorded = {}
  /\ hook = [h \in Hooks |-> IdleHook]
  /\ held = {}
  /\ late = {}

Init == LockInit /\ BookingInit

----------------------------------------------------------------------------
(* initiateBooking *)

\* A request for seats of the event: unknown events and seats are refused
\* before anything is read or written and are not steps.
StartInitiate(r, u, S) ==
  /\ req[r].pc = "idle"
  /\ req' = [req EXCEPT ![r] = [@ EXCEPT !.pc = "validate", !.user = u,
                                          !.seats = S, !.gets = S]]
  /\ UNCHANGED <<lockVars, booking, job, sent, recorded, hook, held, late>>

\* What validateLocksOwned demands of the value it read
OwnedBy(s, u) == Present(s) /\ lock[s].user = u

\* One of validateLocksOwned's parallel GETs.  One bad lock refuses the
\* request, whatever the other GETs return.
ValidateLock(r, s) ==
  /\ req[r].pc = "validate"
  /\ s \in req[r].gets
  /\ req' = IF OwnedBy(s, req[r].user)
            THEN [req EXCEPT ![r] =
                    [@ EXCEPT !.pc = IF req[r].gets = {s} THEN "clock" ELSE "validate",
                              !.gets = req[r].gets \ {s},
                              !.tok = [req[r].tok EXCEPT ![s] = lock[s].token]]]
            ELSE [req EXCEPT ![r].pc = "rejected"]
  /\ UNCHANGED <<lockVars, booking, job, sent, recorded, hook, held, late>>

\* const now = new Date()
ReadClock(r) ==
  /\ req[r].pc = "clock"
  /\ clock <= MaxStart
  /\ req' = [req EXCEPT ![r] = [@ EXCEPT !.pc = "check", !.now = clock]]
  /\ UNCHANGED <<lockVars, booking, job, sent, recorded, hook, held, late>>

\* Mutant of Busy: unpaid bookings are overlooked
BusyWhenPaid(b, now) == booking[b].status = "CONFIRMED"

\* The where clause of the bookingSeat query
Busy(b, now) == \/ booking[b].status = "CONFIRMED"
                \/ booking[b].status = "PENDING" /\ booking[b].expiresAt > now

\* The query for existing bookings, made with the time read earlier
CheckExisting(r) ==
  /\ req[r].pc = "check"
  /\ LET taken == \E b \in Reqs \ {r} : /\ Busy(b, req[r].now)
                                        /\ req[b].seats \cap req[r].seats # {}
     IN  req' = [req EXCEPT ![r].pc = IF taken THEN "rejected" ELSE "order"]
  /\ UNCHANGED <<lockVars, booking, job, sent, recorded, hook, held, late>>

\* razorpay.orders.create
CreateOrder(r) ==
  /\ req[r].pc = "order"
  /\ req' = [req EXCEPT ![r].pc = "create"]
  /\ UNCHANGED <<lockVars, booking, job, sent, recorded, hook, held, late>>

StillHeld(r) == \A s \in req[r].seats : lock[s].token = req[r].tok[s]

\* prisma.booking.create, with its bookingSeats; expiresAt counts from now
CreateBooking(r) ==
  /\ req[r].pc = "create"
  /\ booking' = [booking EXCEPT ![r] =
                   [@ EXCEPT !.status = "PENDING",
                             !.expiresAt = req[r].now + BookingTTL]]
  /\ held' = IF StillHeld(r) THEN held \cup {r} ELSE held
  /\ req' = [req EXCEPT ![r].pc = "enqueue"]
  /\ UNCHANGED <<lockVars, job, sent, recorded, hook, late>>

\* Mutant of EnqueueExpiry: an overdue booking is given no job
EnqueueExpiryOverdue(r) ==
  /\ req[r].pc = "enqueue"
  /\ job' = IF booking[r].expiresAt > clock
            THEN [job EXCEPT ![r] = [pc |-> "queued", due |-> booking[r].expiresAt]]
            ELSE job
  /\ req' = [req EXCEPT ![r] = [@ EXCEPT !.pc = "release", !.gets = req[r].seats]]
  /\ UNCHANGED <<lockVars, booking, sent, recorded, hook, held, late>>

\* bookingExpiryQueue.add with delay max(expiresAt - now, 0)
EnqueueExpiry(r) ==
  /\ req[r].pc = "enqueue"
  /\ job' = [job EXCEPT ![r] =
               [pc |-> "queued",
                due |-> IF booking[r].expiresAt > clock
                        THEN booking[r].expiresAt ELSE clock]]
  /\ req' = [req EXCEPT ![r] = [@ EXCEPT !.pc = "release", !.gets = req[r].seats]]
  /\ UNCHANGED <<lockVars, booking, sent, recorded, hook, held, late>>

\* releaseMany: the GET of one forced unlockSeat
ReleaseRead(r, s) ==
  /\ req[r].pc = "release"
  /\ s \in req[r].gets
  /\ req' = [req EXCEPT ![r] =
                [@ EXCEPT !.gets = req[r].gets \ {s},
                          !.dels = IF MayUnlock(s, req[r].user, TRUE)
                                   THEN req[r].dels \cup {s} ELSE req[r].dels]]
  /\ UNCHANGED <<lockVars, booking, job, sent, recorded, hook, held, late>>

\* releaseMany: its DEL and the SEAT_UNLOCKED broadcast
ReleaseDelete(r, s) ==
  /\ req[r].pc = "release"
  /\ s \in req[r].dels
  /\ Del(s)
  /\ shown' = [shown EXCEPT ![s] = "SEAT_UNLOCKED"]
  /\ req' = [req EXCEPT ![r].dels = @ \ {s}]
  /\ UNCHANGED <<clock, nextToken, lockReq, lockJobs, crashes,
                 booking, job, sent, recorded, hook, held, late>>

\* The broadcast to every seat of a booking
Broadcast(b, type) ==
  shown' = [s \in Seats |-> IF s \in req[b].seats THEN type ELSE shown[s]]

\* emitSeatsReserved and the response that carries the order id
FinishInitiate(r) ==
  /\ req[r].pc = "release"
  /\ req[r].gets = {} /\ req[r].dels = {}
  /\ Broadcast(r, "RESERVED")
  /\ req' = [req EXCEPT ![r].pc = "done"]
  /\ UNCHANGED <<clock, lock, nextToken, lockReq, lockJobs, crashes,
                 booking, job, sent, recorded, hook, held, late>>

\* An awaited call of the handler throws, or its process dies.
AbortInitiate(r) ==
  /\ crashes < MaxCrashes
  /\ req[r].pc \notin {"idle", "done", "rejected", "aborted"}
  /\ req' = [req EXCEPT ![r].pc = "aborted"]
  /\ crashes' = crashes + 1
  /\ UNCHANGED <<clock, lock, nextToken, lockReq, lockJobs, shown,
                 booking, job, sent, recorded, hook, held, late>>

InitiateStep(r) ==
  \/ ReadClock(r) \/ CheckExisting(r) \/ CreateOrder(r) \/ CreateBooking(r)
  \/ EnqueueExpiry(r) \/ FinishInitiate(r)
  \/ \E s \in Seats : ValidateLock(r, s) \/ ReleaseRead(r, s) \/ ReleaseDelete(r, s)

----------------------------------------------------------------------------
(* Razorpay and processPaymentWebhook *)

\* The client pays the order whose id the response gave it (or fails to), or
\* Razorpay has an event that names no order of ours.
GatewayEvent(e) ==
  /\ sent[e] = NotSent
  /\ \/ \E o \in Reqs, k \in Kinds :
          /\ req[o].pc = "done"
          /\ sent' = [sent EXCEPT ![e] = [order |-> o, kind |-> k]]
     \/ sent' = [sent EXCEPT ![e] = Foreign]
  /\ UNCHANGED <<lockVars, req, booking, job, recorded, hook, held, late>>

\* A signed request arrives.  Delivery is at least once: a sent event may
\* arrive any number of times, also while an earlier delivery is in progress.
DeliverWebhook(h, e) ==
  /\ hook[h].pc = "idle"
  /\ sent[e] # NotSent
  /\ hook' = [hook EXCEPT ![h] = [pc |-> "record", event |-> e]]
  /\ UNCHANGED <<lockVars, req, booking, job, sent, recorded, held, late>>

\* Mutant of RecordEvent: events without order or payment id are not ignored
RecordForeignEvent(h) ==
  /\ hook[h].pc = "record"
  /\ recorded' = recorded \cup {hook[h].event}
  /\ hook' = [hook EXCEPT ![h] = IF hook[h].event \in recorded
                                 THEN IdleHook ELSE [@ EXCEPT !.pc = "read"]]
  /\ UNCHANGED <<lockVars, req, booking, job, sent, held, late>>

\* Mutant of RecordEvent: the unique violation is swallowed
RecordEventAgain(h) ==
  /\ hook[h].pc = "record"
  /\ recorded' = recorded \cup {hook[h].event}
  /\ hook' = [hook EXCEPT ![h] = IF sent[hook[h].event].order = NoOrder
                                 THEN IdleHook ELSE [@ EXCEPT !.pc = "read"]]
  /\ UNCHANGED <<lockVars, req, booking, job, sent, held, late>>

\* paymentWebhookEvent.create: a unique violation answers 'duplicate'; an
\* event without order or payment id is recorded and answered 'ignored'.
RecordEvent(h) ==
  /\ hook[h].pc = "record"
  /\ recorded' = recorded \cup {hook[h].event}
  /\ hook' = [hook EXCEPT ![h] =
                IF hook[h].event \in recorded \/ sent[hook[h].event].order = NoOrder
                THEN IdleHook ELSE [@ EXCEPT !.pc = "read"]]
  /\ UNCHANGED <<lockVars, req, booking, job, sent, held, late>>

\* Mutant of Confirmable: only the first of the two status tests is made
ConfirmableUnlessConfirmed(b) == booking[b].status # "CONFIRMED"

\* The statuses processPaymentWebhook goes on with; the others are answered
\* 'already_confirmed' and 'not_pending'.
Confirmable(b) == booking[b].status = "PENDING"

\* booking.findUnique by razorpayOrderId, and the status tests
ReadBooking(h) ==
  /\ hook[h].pc = "read"
  /\ hook' = [hook EXCEPT ![h] =
                IF Confirmable(sent[hook[h].event].order)
                THEN [@ EXCEPT !.pc = "confirm"] ELSE IdleHook]
  /\ UNCHANGED <<lockVars, req, booking, job, sent, recorded, held, late>>

\* booking.update by id, whatever the status has become since it was read
ConfirmBooking(h) ==
  LET e == hook[h].event
      b == sent[e].order
  IN  /\ hook[h].pc = "confirm"
      /\ booking' = [booking EXCEPT ![b] =
                       [@ EXCEPT !.status = "CONFIRMED", !.ticket = e]]
      /\ late' = IF booking[b].status # "CONFIRMED" /\ clock >= booking[b].expiresAt
                 THEN late \cup {b} ELSE late
      /\ Broadcast(b, "BOOKING_CONFIRMED")
      /\ hook' = [hook EXCEPT ![h] = IdleHook]
      /\ UNCHANGED <<clock, lock, nextToken, lockReq, lockJobs, crashes,
                     req, job, sent, recorded, held>>

\* The handler dies before it answers; Razorpay will deliver the event again.
AbortWebhook(h) ==
  /\ crashes < MaxCrashes
  /\ hook[h].pc # "idle"
  /\ hook' = [hook EXCEPT ![h] = IdleHook]
  /\ crashes' = crashes + 1
  /\ UNCHANGED <<clock, lock, nextToken, lockReq, lockJobs, shown,
                 req, booking, job, sent, recorded, held, late>>

HookStep(h) == RecordEvent(h) \/ ReadBooking(h) \/ ConfirmBooking(h)

----------------------------------------------------------------------------
(* BookingExpiryProcessor and expirePendingBooking *)

\* Mutant of Expirable: a job that runs on time finds nothing to expire
ExpirableStrictly(b, now) ==
  booking[b].status = "PENDING" /\ booking[b].expiresAt < now

\* Mutant of Expirable: the status is not tested
ExpirableAnyStatus(b, now) == booking[b].expiresAt <= now

\* What expirePendingBooking demands of the row it read
Expirable(b, now) == booking[b].status = "PENDING" /\ booking[b].expiresAt <= now

\* A due job starts and reads the booking.
ExpiryRead(b) ==
  /\ job[b].pc = "queued"
  /\ job[b].due <= clock
  /\ job' = [job EXCEPT ![b].pc = IF Expirable(b, clock) THEN "update" ELSE "done"]
  /\ UNCHANGED <<lockVars, req, booking, sent, recorded, hook, held, late>>

\* booking.update by id, whatever the status has become since it was read
ExpiryUpdate(b) ==
  /\ job[b].pc = "update"
  /\ booking' = [booking EXCEPT ![b].status = "EXPIRED"]
  /\ Broadcast(b, "BOOKING_EXPIRED")
  /\ job' = [job EXCEPT ![b].pc = "done"]
  /\ UNCHANGED <<clock, lock, nextToken, lockReq, lockJobs, crashes,
                 req, sent, recorded, hook, held, late>>

\* The update throws and the job fails (one attempt), or the worker dies and
\* BullMQ runs the stalled job again.
AbortExpiry(b) ==
  /\ crashes < MaxCrashes
  /\ job[b].pc = "update"
  /\ \E pc \in {"failed", "queued"} : job' = [job EXCEPT ![b].pc = pc]
  /\ crashes' = crashes + 1
  /\ UNCHANGED <<clock, lock, nextToken, lockReq, lockJobs, shown,
                 req, booking, sent, recorded, hook, held, late>>

ExpiryStep(b) == ExpiryRead(b) \/ ExpiryUpdate(b)

----------------------------------------------------------------------------
Next ==
  \/ LockNext /\ UNCHANGED bookingVars
  \/ \E r \in Reqs, u \in Users, S \in (SUBSET Seats) \ {{}} : StartInitiate(r, u, S)
  \/ \E r \in Reqs : InitiateStep(r) \/ AbortInitiate(r)
  \/ \E e \in Events : GatewayEvent(e)
  \/ \E h \in Hooks, e \in Events : DeliverWebhook(h, e)
  \/ \E h \in Hooks : HookStep(h) \/ AbortWebhook(h)
  \/ \E b \in Reqs : ExpiryStep(b) \/ AbortExpiry(b)

\* Time goes on, servers finish the requests they began, Razorpay delivers
\* every event it has (its retries), and BullMQ runs every due job.
Fairness ==
  /\ WF_vars(Tick /\ UNCHANGED bookingVars)
  /\ \A r \in Reqs : WF_vars(InitiateStep(r))
  /\ \A e \in Events : SF_vars(\E h \in Hooks : DeliverWebhook(h, e))
  /\ \A h \in Hooks : WF_vars(HookStep(h))
  /\ \A b \in Reqs : WF_vars(ExpiryStep(b))

Spec == Init /\ [][Next]_vars
FairSpec == Spec /\ Fairness
----------------------------------------------------------------------------
ReqPCs == {"idle", "validate", "clock", "check", "order", "create", "enqueue",
           "release", "done", "rejected", "aborted"}

ReqType == [pc: ReqPCs, user: Users \cup {NoUser}, seats: SUBSET Seats,
            gets: SUBSET Seats, dels: SUBSET Seats, tok: [Seats -> Nat], now: Nat]
BookingType == [status: Statuses, expiresAt: Nat, ticket: Events \cup {NoEvent}]
JobType == [pc: {"none", "queued", "update", "done", "failed"}, due: Nat]
EventType == [order: Reqs \cup {NoOrder}, kind: Kinds \cup {"none", "foreign"}]
HookType == [pc: {"idle", "record", "read", "confirm"}, event: Events \cup {NoEvent}]

\* The types of all variables; a webhook handler past the insert works on an
\* event of an order of ours.
TypeOK ==
  /\ LockTypeOK
  /\ req \in [Reqs -> ReqType]
  /\ booking \in [Reqs -> BookingType]
  /\ job \in [Reqs -> JobType]
  /\ sent \in [Events -> EventType]
  /\ recorded \subseteq Events
  /\ hook \in [Hooks -> HookType]
  /\ \A h \in Hooks : hook[h].pc # "idle" => hook[h].event \in Events
  /\ \A h \in Hooks : hook[h].pc \in {"read", "confirm"} =>
                        sent[hook[h].event].order \in Reqs
  /\ held \subseteq Reqs
  /\ late \subseteq Reqs

\* A booking that keeps its seats from others, now
Occupies(b) == \/ booking[b].status = "CONFIRMED"
               \/ booking[b].status = "PENDING" /\ clock < booking[b].expiresAt

\* Safety.  When two bookings occupy the same seat, then they are the same
\* user's, or one was created after a lock it had validated was gone, or one
\* was confirmed after its expiresAt.  The GETs of validateLocksOwned, the
\* query with a stale time, the insert, the forced release, the webhook's
\* and the worker's unguarded updates leave no fourth way to sell a seat twice.
SharedSeatCause ==
  \A a, b \in Reqs :
    /\ a # b
    /\ req[a].seats \cap req[b].seats # {}
    /\ Occupies(a) /\ Occupies(b)
    => \/ req[a].user = req[b].user
       \/ {a, b} \ held # {}
       \/ {a, b} \cap late # {}

\* Action property.  A booking confirmed in time stays confirmed: no expiry
\* job that read it PENDING is still about to write EXPIRED over it.
OnTimeConfirmationIsFinal ==
  [][\A b \in Reqs : booking[b].status = "CONFIRMED" /\ b \notin late
                       => booking'[b].status = "CONFIRMED"]_vars

\* Safety.  The unique eventId admits one delivery per event: no two handlers
\* are past the insert with the same event, and none re-issues a ticket that
\* the event has issued before, crashes and redeliveries included.
EventAdmittedOnce ==
  \A h \in Hooks : hook[h].pc \in {"read", "confirm"} =>
    /\ hook[h].event \in recorded
    /\ \A g \in Hooks \ {h} : hook[g].pc \in {"read", "confirm"} =>
                                hook[g].event # hook[h].event
    /\ \A b \in Reqs : booking[b].ticket # hook[h].event

\* The request that created b died before queue.add, or b's one job failed.
Unwatched(b) == \/ req[b].pc = "aborted" /\ job[b].pc = "none"
                \/ job[b].pc = "failed"

\* Safety.  A booking that is PENDING still has someone who will look at it
\* after expiresAt: its request before queue.add, or its expiry job; unless
\* that request or that job died.
PendingIsWatched ==
  \A b \in Reqs : booking[b].status = "PENDING" =>
    req[b].pc = "enqueue" \/ job[b].pc \in {"queued", "update"} \/ Unwatched(b)

\* Liveness, with crashes.  No booking stays PENDING for ever unless its
\* request died between the insert and queue.add, or its job failed: every
\* other crash, of the request, of a webhook or of the worker, is survived.
PendingResolvesIfWatched ==
  \A b \in Reqs : booking[b].status = "PENDING"
                    ~> booking[b].status # "PENDING" \/ Unwatched(b)

\* Liveness.  "Pending bookings expire after BOOKING_TTL_MINUTES": no booking
\* stays PENDING for ever.
PendingResolves ==
  \A b \in Reqs : booking[b].status = "PENDING" ~> booking[b].status # "PENDING"

\* Liveness, for a booking that does not expire.  "Idempotent webhook
\* processing": a captured payment, delivered as often as Razorpay retries
\* it, confirms the booking.
PaidIsConfirmed ==
  \A e \in Events, b \in Reqs :
    sent[e] = [order |-> b, kind |-> "payment.captured"]
      ~> booking[b].status = "CONFIRMED"

\* Safety.  "No double-bookings detected": no seat is sold to two users.
NoDoubleBooking ==
  \A a, b \in Reqs :
    /\ booking[a].status = "CONFIRMED" /\ booking[b].status = "CONFIRMED"
    /\ req[a].user # req[b].user
    => req[a].seats \cap req[b].seats = {}

\* Safety.  "QR ticket generation on successful payment": a ticket is issued
\* for a captured payment only.
TicketOnSuccess ==
  \A b \in Reqs : booking[b].ticket # NoEvent =>
                    sent[booking[b].ticket].kind = "payment.captured"
=============================================================================
