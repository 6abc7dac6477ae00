# Omnipax: a verification development

TLA+ models of the booking backend in `src/backend` and of the parts of the web
and phone clients that keep state of their own, the TLC configurations that
check them, and TLAPS proofs of their main theorems. Paths without a prefix are
relative to `src/backend/src`; `frontend/` is `src/frontend/src`.

## 1. The system

Omnipax sells seats of events. A client locks seats in Redis, asks for a
booking and a Razorpay order, pays at Razorpay, and Razorpay's webhook confirms
the booking and issues its ticket. A BullMQ job expires the booking if nobody
pays in time. Several server processes and a separate worker process
(`worker.ts`) run at once, and **no database transaction or lock spans two
awaited calls** of that flow.

The repository holds two generations of code. `app.module.ts` imports the first
group below. The second group ("older") is kept beside it with its own state
machine, webhook, reconciliation and sweeps; it is part of the source but the
running application does not import it. The web and phone clients are written
against the older one.

### Components

| component | state | operations | modelled |
| --- | --- | --- | --- |
| seat locks (`seat-locks/`, `workers/seat-lock-expiry.processor.ts`) | Redis key per seat with owner, token and TTL; delayed `seat-lock-expiry` jobs | `lockSeat` (SET NX PX, then queue.add, then broadcast), `unlockSeat` (GET, then DEL), `validateLocksOwned`, `releaseMany`, the processor (a stub) | `SeatLocks`, `Bookings` (partly: `handleExpiryJob` has no caller) |
| bookings (`bookings/bookings.service.ts`, `workers/booking-expiry.processor.ts`) | `Booking`, `BookingSeat`, `PaymentWebhookEvent` rows; `booking-expiry` jobs | `initiateBooking`, `processPaymentWebhook`, `expirePendingBooking` | `Bookings`; `BookingLifecycle` and `BookingRefinement` for what they promise |
| webhook endpoint (`payments/payments.controller.ts`) | none | hands the raw body on | `Bookings` (`DeliverWebhook`; a valid HMAC is its precondition) |
| realtime updates (`realtime/seat-updates.gateway.ts`, `websocket/booking.gateway.ts`) | rooms | broadcasts | the last broadcast per seat (`shown`); the older gateway with its clients in `SeatBoard` |
| queues and workers (`queues/`, `workers/workers.module.ts`, `worker.ts`) | jobs in Redis | delayed jobs, one attempt, reruns of stalled jobs | external; as job variables |
| database schema (`prisma/schema.prisma`) | rows and unique keys | | the unique `eventId`, the statuses |
| seat map (`events/`) | none | `getSeatMap` merges three reads | `SeatMap` (partly: creating and listing events are single calls) |
| authentication and tenants (`auth/`, `tenants/`) | rows, tokens | register, log in, create a tenant | `Onboarding` (`RegisterUser`, `CreateTenant`), `Session` for tokens at the client |
| older payments (`payments/payments.service.ts`, `payments.webhook.controller.ts`, `payments-processor.service.ts`, `refund.service.ts`, `reconciliation.worker.ts`, `payments-reconciliation.service.ts`) | `Booking`, `PaymentLedger`, `RazorpayWebhookEvent`, `PaymentLog`; a circuit breaker in memory | `createRazorpayOrder`, three webhook branches, reconciliation, refund sweep, `refundPayment`, `reconcileBooking` | `PaymentLifecycle`, `OrderCircuit`, `Checkout`; `PaymentPromise` and `PaymentRefinement` for what they promise (partly: `handleWebhook` of `payments.service.ts` calls a `BookingService` method that is not in the repository) |
| older booking sweeps (`bookings/bookings-expiry.service.ts`, `bookings/bookings.processor.ts`, `seat-locks/seat-lock.worker.ts`) | `Booking`, `SeatLock`, `BookingSeat` | `handleAutoExpiry`, `cleanup_expired`, `releaseExpiredLocks` | `PaymentLifecycle`, `PaymentPromise` |
| older tickets and scanners (`tickets/`, `devices/`, `validation/`) | `Ticket`, `ScannerDevice`, `ScanLog`, `OfflineScanQueue` | `generateTicketsForBooking`, `scanTicket`, registration, authentication and revocation of devices, `syncOfflineScans` | `TicketIssue`, `Scanning` (partly: `validateTicket` repeats `scanTicket`) |
| older discounts and pricing (`discount/`, `pricing/`) | `Booking` amounts; coupons and gift cards, only read | `calculateTotal`, `applyDiscounts` | `Checkout` |
| older platform administration (`admin/`, `theater-onboarding/`) | `TheaterApplication`, `Tenant`, `MonetizationAudit` | `apply`, `reviewApplication`, `updateMonetization` | `Onboarding`, `Monetization` (partly: flags, plans and dashboards are single calls) |
| web client (`frontend/`) | cookie, localStorage, one store per tab, live seat statuses | middleware, login page, portal guards, interceptors; checkout page; seat board | `Session`, `Checkout`, `SeatBoard` |
| phone client (`src/android`) | seats and live statuses | booking screen; scanner | `SeatBoard`; its offline queue has no caller |
| older idempotency interceptor, reporting, notification; Redis and Prisma adapters | | | not modelled, see section 5 |

### How the parts interact

    client --lock/unlock--> seat-locks ----SET/GET/DEL----> Redis keys (TTL)
       |                        \--add--> seat-lock-expiry queue --> stub
       |--initiate--> bookings --validateLocksOwned/releaseMany--> seat-locks
       |                 |--create--> PostgreSQL      \--add--> booking-expiry queue
       |--pay--> Razorpay --webhook (at least once)--> bookings    --> worker
       |--seat map--> events --bookings, KEYS, MGET--> PostgreSQL, Redis
                              bookings, worker, seat-locks --seat_update--> clients

### What is hard here

* Every handler reads, awaits and then acts on what it read: `initiateBooking`
  validates locks that may lapse before it inserts; `processPaymentWebhook` and
  `expirePendingBooking` read a status and update *by id* later; `unlockSeat`
  compares an owner and deletes later. `syncOfflineScans`, `applyDiscounts`,
  `reconcileBooking`, `reviewApplication` and `updateMonetization` do the same.
* Time: a lock lapses on its TTL, a booking on `expiresAt`, its job on a delay
  computed later from an earlier `now`; a circuit breaker counts failures that
  arrive in any order.
* Delivery: Razorpay repeats, delays and reorders events; a scanner uploads its
  batch again; a seat event is lost while a client joins or reconnects.
* Crashes: between the insert of a booking and its job, between the insert of
  an event and its effect, between a refund and the note of it, between the
  commit of tickets and the answer that carries their tokens.
* In the older flow, seven writers (order request, webhook, reconciliation,
  refund sweep, admin, three expiry crons) update one row by id under READ
  COMMITTED.
* In the browser, several tabs hold copies of a session beside one cookie and
  one storage, and middleware, login page and guards each look at another one.

`PROJECT.json` lists each of these hazards with its line and the properties
that cover it, or the reason why none does.

## 2. The modules

One TLA+ step stands for the code between two awaited calls.

### `SeatLocks`

| module | code |
| --- | --- |
| `lock[s]` (token, user, expiry) | the JSON under the seat's key; token 0 is "no key" |
| `nextToken` | `randomUUID()`: no two SETs carry the same token |
| `LockSeat`, `EnqueueLockExpiry` | `lockSeat` up to the reply of SET NX; its `queue.add` and broadcast |
| `UnlockRead`, `UnlockDelete` | `unlockSeat` up to the reply of GET; its DEL and broadcast |
| `AbortLockReq` | an awaited call throws, or the process dies |
| `RunLockExpiryJob` | the processor of the application, which only logs |
| `Tick` | time; Redis drops what its TTL has ended |

### `Bookings` (extends `SeatLocks`)

`initiateBooking` is `StartInitiate`, one `ValidateLock` per seat (the GETs are
parallel), `ReadClock` (`now`), `CheckExisting`, `CreateOrder`,
`CreateBooking`, `EnqueueExpiry`, one `ReleaseRead`/`ReleaseDelete` pair per
seat (forced unlocks) and `FinishInitiate`. A request that creates a booking
also names it and its Razorpay order: each request creates at most one of each.
`GatewayEvent` is Razorpay deciding to send something, `DeliverWebhook` one
delivery of it; `RecordEvent`, `ReadBooking` and `ConfirmBooking` are the three
calls of `processPaymentWebhook`. `ExpiryRead` and `ExpiryUpdate` are
`expirePendingBooking`. `Abort...` ends a handler at any await.

`held` (bookings created while every lock they validated was still under its
key) and `late` (bookings that became CONFIRMED after `expiresAt`) are history
variables: no action reads them, they only let properties speak of the past.

### `BookingLifecycle` and `BookingRefinement`

`BookingLifecycle` is what the booking service promises of a booking and of the
payment events about it, with no locks, requests, queues, deliveries or handlers:
a booking is created once, with a deadline; an event has one chance, and takes it
only if it finds its booking PENDING (`Accept`); an expiry is decided only after
the deadline (`Find`); a decision is carried out later (`Confirm`, `Expire`) or
lost. `BookingRefinement` maps `Bookings` to it: status, deadline and ticket are
those of the rows, an event is `spent` when it is recorded and its handler has
left the read of the booking behind, `accepted` when a handler is about to
confirm with it, a booking is `overdue` when its job is about to expire it.

### `SeatMap` (extends `Bookings`)

One `getSeatMap` request (`MapStart`, `MapBusy`, `MapKeys`, `MapValues`) while
every handler of `Bookings` goes on (`Meanwhile`). `free` and `moved` are
history: the seats that nobody held at some moment of the request, and those a
booking came to occupy meanwhile.

### `PaymentLifecycle`

`row[b]` is a booking with its SeatLock and BookingSeat rows, `ledger[o]` the
`PaymentLedger` rows of an order's payment, `gateway[o]` what Razorpay knows of
the order. Actors are records with a program counter:

| variable | code | steps |
| --- | --- | --- |
| `orderReq` | `createRazorpayOrder` | `OrderRead`, `OrderCreate`, `OrderUpdate`, `OrderFail` |
| `hook` | `payments.webhook.controller.ts` `handleWebhook` with `processPaymentSuccess` | `Deliver`, `HookInsert` (waits on the unique key while another transaction holds it), `HookRead`, `HookWrite`, `HookCommit`; `HookResolve`, `HookSettle` for refund events; `HookAbort` |
| `recon` | `handleReconciliation`, `reconcileBooking`, `sweepPendingRefunds`, `processRefund` (one at a time, `isReconciling`) | `ReconStart` ... `ReconEnd`, `ReconAbort` |
| `admin` | `refundPayment` | `AdminRead`, `AdminCall`, `AdminUpdate`, `AdminRelease` (two calls without a transaction), `AdminAbort` |
| `expiring`, `cleaning`, `sweeping` | `handleAutoExpiry`, `cleanup_expired`, `releaseExpiredLocks` | a read and a write each, `CronAbort` |

A Prisma `$transaction` is a read step and a write step: PostgreSQL's default
isolation is READ COMMITTED and `findUnique` takes no row lock, although a
comment in `payments-processor.service.ts` says so. `processPaymentSuccess`
commits in a transaction of its own inside the webhook's: `HookAbort` between
`HookWrite` and `HookCommit` loses the event row and keeps the effects.

### `PaymentPromise` and `PaymentRefinement`

`PaymentPromise` is what the older flow promises of a booking and its money,
without handlers, workers, locks, time or events: the table of
`bookings-state.machine.ts` (`Allowed`), the payments made, booked in the ledger
and given back, and the decisions (`decided`: somebody will write this status to
this booking). A decision is taken when the table allows it (`MayDecide`), and
carried out (`Confirm`, `BeginRefund`, `EndRefund`, `Follow`) or given up later,
when the status may be another one: the worker and the refund sweep call
`validateTransition` on the status their transaction read, the others test that
status themselves, and all update by id. `MayDecide` names the two
exceptions that the source makes: `processPaymentSuccess` confirms a booking
that is still LOCKED, and `refund.failed` looks at no status, only at the payment.
What money needs is asked at the write itself: a confirmation books a payment
that was made, money goes back only when it is booked, and REFUNDED is written
only when it went back.

`PaymentRefinement` maps `PaymentLifecycle` to it. The decisions of a handler, of
the worker, of the admin and of the expiries are read off their program counters
and what they have `seen`; `PlaceOrder`, `Capture` and `GiveBack` are the calls
of Razorpay; reads, deliveries, deaths and the bank's result of a refund are
changes of `decided` or stutter.

### `OrderCircuit`

The circuit breaker of `payments.service.ts` around `createRazorpayOrder`:
`circuitState`, `failureCount` and the time since `lastErrorTime`, of one
process. `CallStart` is `checkCircuit` and the request to Razorpay,
`CallSucceeds` and `CallFails` are `recordSuccess` and `recordFailure`, in any
order among the calls that are out; `CallRepeated` is a request whose booking has
an order already and which reports neither.

### `Checkout`

One booking, priced, discounted, ordered and settled, from several tabs of the
checkout page.

| module | code |
| --- | --- |
| `cart` | the amounts and the status of the `Booking` row |
| `PageLoad`, `page[p]` | the page and what it shows |
| `ApplyRead`, `ApplyWrite`, `ApplyAnswer`, `ApplyFails` | `applyDiscounts` for a coupon or a gift card: a read, an update by id, the answer on its way to the page |
| `PayRead`, `PayPrice`, `PayCreate`, `PayUpdate`, `PayFails` | the page's order request: `calculateTotal` and `createRazorpayOrder` |
| `ModalPays`, `ModalCloses` | the client in Razorpay's window |
| `SettleStart` ... `SettleWrite`, `SettleDies` | `reconcileBooking` of `payments-reconciliation.service.ts`, with the amount test and the tenant's revenue |

`raced`, `twin` and `aged` are history: a discount was applied beside another
request, two orders were asked for at once, a tab lacks a discount that another
tab applied. `Inexact` is a set of amounts whose rupees times 100 is no integer
in floating point, which the amount test compares without rounding.

### `TicketIssue` and `Scanning`

`TicketIssue` is `generateTicketsForBooking`: one interactive transaction per
call that looks for each seat's ticket (`IssueSeat`), commits (`IssueCommit`) and
answers with the tokens (`IssueAnswer`); only hashes are stored, so a token that
is not answered is lost.

`Scanning` is the gate (`scanTicket`: `ScanStart`, `ScanDevice`, `ScanLookup`,
`ScanShow`, `ScanAdmit`, `ScanLog`), the devices (`RegisterDevice`,
`AuthenticateDevice`, `DeactivateDevice`), scans made offline (`ScanOffline`) and
their upload (`syncOfflineScans`: `SyncStart`, `SyncDevice`, and per record
`SyncDuplicate`, `SyncLookup`, `SyncWrite`, `SyncThrows`). `ScanAdmit` is the
`updateMany` that tests the status again; `SyncWrite` is the update by id that
does not. A handler is used once and keeps its result, so that properties can
compare results of requests long over. `before` and `revoked` are history.

### `Onboarding` and `Monetization`

`Onboarding`: `apply` (three tests and an insert), `reviewApplication` by several
reviewers, and the tenants and accounts others make. A review is `ReviewRead`, then
`Reject` or the transaction of an approval: `CheckSlug`, `CheckEmail` and `Approve`,
which writes everything at once or throws on a unique key. Both update the
application by id. A row of `tenants` or `users` carries the review that made it, so
two tenants of one application can be told apart. `Monetization`: `updateMonetization`
(`UpdateRead`, then `UpdateWrite` of an audit row made of the tenant that was
read and of the tenant itself).

### `Session`

The web client's session in one browser: `cookie` (read by `middleware.ts`),
`saved` (localStorage, read by `lib/api.ts` and on load), `tab[i].mem` (the
store of each tab, read by login page and guards). Navigation is `Visit`, one of
`MiddlewarePasses`, `MiddlewareReroutes`, `MiddlewareToLogin`, and one of
`LoadDocument` (a new document, which reads `saved`), `LoadRoute` and `LoadSame`
(the router's), which include the effects that then send the tab elsewhere.
`Login`, `Logout`, `CallApi` with `AnswerOk` and `AnswerUnauthorized`, `Expire`
and `CloseBrowser` do what the store, the interceptors and the browser do.

### `SeatBoard`

A seat as the booking page or the phone shows it: a snapshot, an overlay of live
events, and the choice of the user. The handlers that change the seat are not in
the repository; `ChangeSeat` and `Emit` are modelled from the gateway's calls:
store, then emit. The page joins its room after it knows the show (`ShowSeats`),
the phone at once; `Disconnect` reconnects into no room.

A page that is left keeps its query for a while. Opened again it shows the old
snapshot at once and joins its room (`OpenCached`); if the data is stale (a free
choice: `staleTime` is a minute) it asks for the seats behind it, as it does when
the network is back (`Refetch`). The server answers (`ReadSeats`) and the answer
arrives later (`ShowSeats`), also after the page was left: it takes the place of the
snapshot, while overlay and choice stay. `Open` is an opening with nothing to show.
A socket stays in its room when the page is left, and other pages that use it enter
only as lost connections. Requests that fail are left out: they show an error or
leave what is shown. `lost`, `gap` and `swapped` are history: the newest event this
opening has not got and will not get, whether one was lost or emitted late that it
might have needed, and whether the last one was emitted after a newer one.

### Abstractions

* One event and one tenant; users, seats, orders, events are model values.
* Amounts (outside `Checkout`), codes and messages are left out; a ticket is the
  event that caused it, or the call that issued it; a log line, a dead letter or
  an event log that nothing reads is no state.
* `releaseSeatsSafely` is not in the repository; it is modelled from how the
  source uses it (the seat lock becomes RELEASED).
* The sweeps take at most 50 to 200 rows per query; with the few bookings of an
  instance no batch is ever full, so the limits are not modelled.
* `PaymentLifecycle` knows of the circuit breaker only that "an API call may
  fail" (`OrderFail`). `orders.create` puts no `tenantId` into the notes, so
  whether a payment has one (`noted`) is the client's choice.
* `CANCELLED` has a transition table entry and no writer in the source.
* The custom job ids contain a colon. If the installed BullMQ refuses them,
  `queue.add` throws: that is `AbortLockReq` and `AbortInitiate` at that call.
* `Checkout`: one coupon and one gift card, both valid. Dates and `usageCount`
  are left out, since nothing in the repository ever writes `usageCount` or a
  balance; so are seat numbers and taxes, which enter the total as a constant.
* `Onboarding`: the transaction of an approval reads twice and then writes in one
  step, since nothing it writes is seen before it commits; of two that insert the
  same slug or email the unique key lets one through. `Monetization`: a transaction
  is one step. `platformFeeEnabled` is left out.
* `Scanning`: one show; a device token's own end of 15 minutes is left out (a
  revocation is the stronger case, as is a handler that tests it late).
* `Session`: the token item and the persisted store are always written together
  and are one variable; tokens are as the login page reads them; the router's
  cache of pages is left out, so every navigation asks the middleware.

## 3. The runs

`MC*` modules add instances, symmetry sets and views; every `.cfg` gives the
constants.

| run | configuration | shows |
| --- | --- | --- |
| `seat_locks` | two users, lock and unlock handlers in parallel, crashes | `LockTypeOK`; `JobNotBeforeLapse`: an expiry job never comes due while its lock is still there; `LockLapses`: every lock goes, even if nobody unlocks and the processor does nothing |
| `bookings` | 2 users, 2 booking requests, 1 seat, 1 lock handler, 1 webhook handler | `TypeOK`; `SharedSeatCause`: a seat is occupied twice only by one user's two requests, by a booking created after its lock was gone, or by a late confirmation; `OnTimeConfirmationIsFinal`: no expiry overwrites a booking confirmed in time |
| `crashes` | 1 request, 1 event on 2 webhook handlers, 2 crashes anywhere, fairness | `EventAdmittedOnce`; `PendingIsWatched`; `PendingResolvesIfWatched`: only a death between insert and `queue.add`, or of the job itself, leaves a booking PENDING; `ImplementsLifecycle`: the refinement |
| `payments` | 1 booking, 1 order, 2 webhook handlers, 1 fault, all sweeps | `TypeOK`; `ConfirmedIsPaid`: whoever confirms on whatever stale read, a CONFIRMED booking has a captured payment in the ledger; `RefundIsBooked`: only booked payments are refunded, REFUNDED means that Razorpay accepted a refund; `ConfirmedKeepsSeats`: only a sweep that listed them overdue before, or an admin between the two calls of `refundPayment`, takes the seats of a confirmed booking, and only a booking that was overdue, given up by the worker or refunded is confirmed without them |
| `payments_live` | `MCPaymentsLive`: 1 booking, 1 order, no faults; a circuit with 3 calls; fairness | `InProgressResolves`: reconciliation frees every booking stuck in payment, also when its webhook is refused for want of a `tenantId`; `ImplementsPromise`: the refinement; `TurnedAwayForCooldown`, `OpenAfterFailures` and `CircuitRecovers` of the circuit breaker |
| `services` | `MCServices`: the eight components below, each by itself | see below |
| `foreign_unlock` | violation | `UserUnlocksOwnLock`: the DEL of a user may remove a lock another user took after the GET |
| `pending_crash` | violation | `PendingResolves`: a crash before `queue.add` leaves a booking PENDING for ever |
| `paid_crash` | violation | `PaidIsConfirmed`: the event is recorded before its effect; a crash in between turns every redelivery into a duplicate |
| `double` | violation | `NoDoubleBooking`: two users hold CONFIRMED bookings of one seat |
| `failed_payment` | violation | `TicketOnSuccess`: the event type is never tested, `payment.failed` confirms |
| `late_payment` | violation | `LatePaymentRefunded`: a payment for an EXPIRED booking is entered as REFUND_INITIATED and nobody asks Razorpay for the refund |

The violations are disagreements between a statement in the repository and its
code; `findings` in `PROJECT.json` quotes the statement.

### The run `services`

| focus | properties |
| --- | --- |
| `scan` | `OneEntryAtTheGate`: of one ticket one scan is admitted; `SecondEntryOnlyByOverlap`: it is booked as used twice only when an upload ran beside the other request; `ReplayWritesNothing`: a batch sent again after its first upload was over, or had died, writes no row twice; `NoEntryAfterRevocation` |
| `checkout` | `ShownIsCharged`: the client pays what the page showed, unless a discount raced; `AmountsAddUp`; `PaidFailedCause`: when a paid booking is marked FAILED; `RevenueIsReceived`; `ConfirmedStays`, `PaidTwiceOnlyByTwins`: only two orders asked for at once overwrite CONFIRMED or are both paid |
| `onboard` | `ApprovedIsMade`: two reviewers who approve at once make one tenant and one account of an application, of a slug and of an email; `MadeStaysApproved`: only a review that overlapped takes APPROVED back |
| `session` | `HopsEnd`: redirects end while all copies of the session agree and no other tab that loads writes the cookie; `LoggedOutStaysOut`: a session ended in one tab comes back only from another tab's memory; `CallsAreItsOwn`: calls carry the session shown, unless another tab changed it |
| `board` | `ShownIsTrue`, `ChosenIsShownFree`: once all events have arrived, which losses and orders can leave a board wrong |
| `map` | `ShownFreeWasFree`: a seat held all the time is shown AVAILABLE only if a booking came to occupy it during the reads |
| `fee` | `FeeAccounted`: the audit tells the fee unless updates overlapped, and only a request that leaves out a field takes a percentage over the limit |
| `issue` | `TicketsIssued`: two tickets of a seat only by calls that overlapped, a token lost only by a death between commit and answer |

These components share no state and do not call each other, so one behaviour is
about one of them: `focus` is chosen at the start and the others stay as they
began. `ServicesView` is the focus with that component's variables, which lose
nothing: the others' are the same in all states of the focus. `part` of
`MCPaymentsLive` does the same for two. Types of all are `ServicesTypeOK`.

### Bounds

* `seat_locks` and `foreign_unlock`: one seat, two users, two handlers,
  `LockTTL = 2`, `MaxTime = 5`, `MaxTokens = 3`: a key can lapse, be taken again
  and lapse again, with a handler suspended across any of it.
* The `Bookings` runs: `LockTTL = BookingTTL = 1` with `MaxTime` 2 or 3: time
  only matters through "before, at, after" a deadline, and a lock, a booking
  made after it and a late event fit into three ticks. `paid_crash` sets a TTL beyond the clock so
  that its booking cannot expire.
* `MaxStart` keeps the start of a booking early enough that its deadline is
  reached before the clock stops; `LockSeat` and `EnqueueLockExpiry` have the
  same kind of guard. The liveness properties would otherwise fail only because
  the clock stops.
* `MaxTokens = 2` where seats change hands: two users can own one seat in
  turn, which is what every sharing needs; the theorem `SharedSeat` removes the bound.
* `MaxCrashes`, `MaxFaults`: one or two deaths. A handler that died takes no
  further part, so a second one only matters for the redelivered event, which
  `crashes` has.
* `MaxOrders = 1` in `payments`; the theorems remove it. With two orders of one
  booking a late second webhook confirms it after the first payment was refunded
  and the seats released: `Forfeited` allows this, and no other, confirmation
  without seats before any time has passed.
* `ImplementsPromise` is checked with one handler and no faults, where the other
  properties of `payments_live` are; it also holds on the instance of `payments`
  (two handlers, one fault), where it takes some minutes, and its theorem has no
  bound.
* Two actors of a kind where they compete (requests, webhook handlers, tabs,
  reviewers, scans, uploads), one otherwise; three fee updates and three issues,
  two that overlap and one after them.
* `services`, scanning: one ticket, device and offline record, `MaxRequests = 3`
  of two scans and two uploads (an upload, its replay, a scan beside them),
  `MaxBatch = 2`, one fault. The inductive invariant was also checked with two
  records. Checkout: two orders, four requests and calls in all, one fault, a
  price at which the coupon's cap and the gift card both bite. Seat board: three
  changes (locked, released and locked again, or booked and cancelled), left or
  disconnected twice. Onboarding: two applications, slugs, emails and reviewers.
  Session: `/admin` visited, one session of a client and one of another kind, an
  administrator without a tenant or a `TENANT_ADMIN`, whose role the guards do not
  know; redirects are counted to 4, the most there can be. Map: one user's lock, one request and one event. The theorems of
  `ScanningProofs`, `ServicesProofs`, `CheckoutProofs` and `SeatBoardProofs`
  remove these bounds.
* `payments_live`, circuit: threshold 3 with three calls, window 1, cool-down 2:
  failures inside and outside the window, and late ones during the cool-down.

`CHECK_DEADLOCK FALSE` is set throughout: with a bounded clock and requests
that are not reused, the system may finish its work and stop.

Symmetry is used in safety runs only. In `services` it exchanges `x1` with `x2`
and `y1` with `y2`, which play the same part in every component; the two
sessions of `session` differ in kind, but either may be either. The view of
`MCBookings` drops `lockJobs` and `shown`, which no action but their own writers
reads.

### Fairness

Weak fairness of time; of each handler's next step (a server that is running
finishes what it began, a crash being an action of its own and never fair); of
due BullMQ jobs; of the crons and the reconciliation worker. Delivery of an
event Razorpay has sent is strongly fair: Razorpay retries, and a handler is
free again and again, though not forever. Nothing is assumed of users: locking,
booking, paying and the admin are never fair. Razorpay's retries end after a day
in practice; a property that needs them is thus no stronger than that.

`CircuitRecovers` assumes that time passes, that every call to Razorpay ends one
way or the other (HTTP clients give up), and that clients go on asking for
orders: an open circuit is closed by a request, not by a timer.

## 4. The proofs

All theorems hold for every value of the constants that satisfies the named
assumptions of the modules: positive TTLs, natural bounds, and "no user", "no
seat", "no event", "no order" and "no booking" values outside the sets they
complete. No set needs to be finite, except the calls of `OrderCircuit`, and the
orders of `Checkout`, which are numbered up to any bound. `Checkout` assumes that
prices and fees are positive and that a coupon takes off at most 100 percent.

**`SeatLocksProofs`**: `LockTypeCorrect`, and `JobsOutliveLocks`
(`JobNotBeforeLapse`). The latter is not inductive; `LockDeadlines` adds that a
key lives at most one TTL from now, that a handler about to queue a job holds a
token already handed out, and that a queued job is due no earlier than the
expiry of the key that carries its token.

**`BookingsProofs`**: `TypeCorrect`; `SaleInvariant`; `SharedSeat`
(`SharedSeatCause`); `ConfirmationFinal` (`OnTimeConfirmationIsFinal`).
`SaleInv` is the strengthening:

* `TokenOrder`, `TokenOwner`: tokens on a key only grow and have one owner, so
  of two requests that validated one seat for different users one has the older
  token.
* `RequestProgress`: what a request has validated when it is at a step.
* `WriterTargets`: a webhook handler or a worker about to write by id writes
  over what it read, or over something that is already over.
* `OlderLockLost`: if a booking was made while its lock was held, a request
  with a younger token on the seat gets past `CheckExisting` only when that
  booking is dead (expired, over, or confirmed late).

The argument for `SharedSeat`: take two live bookings of one seat by two users,
both `held` and neither late. Their tokens differ; the younger request passed
the check, so by `OlderLockLost` the older booking is dead, which contradicts
that it occupies the seat. Without `OlderLockLost` the step of the webhook, which
knows nothing of locks, could not be shown harmless.

**`BookingRefinementProofs`**: `AdmittedOnce` (`EventAdmittedOnce`),
`PendingWatched` (`PendingIsWatched`), and that `Bookings` implements
`BookingLifecycle` (`ImplementsLifecycle`): the initial states map to initial
states, and under the invariants every step maps to one step of the abstract
module or to none. Two further invariants carry it. `DeliveryInv`: a ticket names
an event that was recorded, and the handlers past the insert have different
events, so that a `Confirm` takes the right event out of `accepted`. `WatchInv`:
the job of a booking exists from `EnqueueExpiry` on, and what may be missing was
lost with a request or a job that died.

**`PaymentLifecycleProofs`**: `PaymentInvariant`; `TypesCorrect`;
`ConfirmedBookingIsPaid` (`ConfirmedIsPaid`); `RefundsAreBooked`
(`RefundIsBooked`); `SeatsOfConfirmedKept` (`ConfirmedKeepsSeats`);
`PaymentsImplementPromise` (`ImplementsPromise`). `PayInv`
says what each actor knows when it acts on a stale read: a webhook handler's
event was sent (`HookOK`), the worker's order belongs to its booking and, from
`ReconLedger` or the sweep on, its payment is captured and booked (`ReconOK`),
the admin's likewise (`AdminOK`), and a booking's stored payment too (`RowOK`).
The bridge is `Growth`: no step takes back an order's booking, a captured
payment, an accepted refund, a sent event or a ledger row. What an actor once
read of these therefore still holds when it writes, which is why the missing
row locks do no harm *to these properties*. One lemma per action or group of
actions follows; `RowWrite` states once what a write to a booking must satisfy.
For the seats, `HandsOK` says that what a sweep, the worker or the admin has in
hand was forfeited when it took it up, and `SeatsOK` that a booking that is over or
whose lock is released was forfeited, and that one whose payment is booked was
forfeited or has its seats; `SeatMove` names the ways in which a step may treat a
booking, and `MovesKeepSeats` shows that these are enough.

`PaymentsImplementPromise` (`ImplementsPromise`): `PaymentLifecycle` implements
`PaymentPromise`. The mapped decisions are a union of five parts, one per kind of
actor (`OrderDecisions`, `HookDecisions`, `ReconDecisions`, `AdminDecisions`,
`CronDecisions`); `PartsKeep` says that who does nothing decides nothing,
`OrderPart` and `HookPart` that a step decides for its own actor only. A step that
reads is then a `Decide` by what the table allows after the status just read
(`StillStep`), a step that writes is what was decided (`FollowPromise`,
`ConfirmPromise`, `RefundPromise`, `RefundedPromise`), with `PayInv` giving the
payment, its ledger row or its refund. One more invariant is needed,
`RefundEvents`: only a refund event is resolved to the booking of its payment,
which is what makes a `REFUND_FAILED` one about money that was given back.

The same module proves of the circuit breaker in front of those orders
(`OrderCircuit`): `CircuitInvariant`; `CooldownIsKept` (`TurnedAwayForCooldown`);
`OpensForFailures` (`OpenAfterFailures`). A count at the threshold goes with an
open circuit or a cool-down that is over, and the count never exceeds the failures
since the last success: a failure that comes after the window starts the count
again, but not that history.

**`ScanningProofs`**: `ScanInvariant`; `OneGateEntry`, `SecondEntryOverlaps`,
`ReplayIsIgnored` and `RevokedEnterNobody`. `ScanInv` says that whoever came in
came in on a ticket that is USED (`EntryUses`); that an upload which read a
ticket ACTIVE read it before any entry that was over when the upload began
(`ReadBeforeEntry`); that an upload past the duplicate test of a record works on
one that no earlier upload had booked (`FirstBooking`); and that a request of a
revoked device is at the device test or ends without an entry
(`RevokedAreRefused`).

**`ServicesProofs`**: `IssueInvariant`, `IssueIsSound` (`TicketsIssued`);
`SessionInvariant`, `LogoutLasts` (`LoggedOutStaysOut`), `CallsCarryOwn`
(`CallsAreItsOwn`), `HopInvariant`, `RedirectsEnd` (`HopsEnd`); `FeeInvariant`,
`FeeIsAccounted` (`FeeAccounted`); `MapInvariant`, `MapShowsFree`
(`ShownFreeWasFree`); `OnboardInvariant`, `OnboardTypes`, `ApprovedHasTenant`
(`ApprovedIsMade`), `ApprovalStays` (`MadeStaysApproved`); and of the instance
`MCServices`, `ServicesTypes` (`ServicesTypeOK`) and `ServicesKeepPromises`.

* `IssueInv`: a call that is about to make a ticket found none when it looked,
  so those that were over when it began made none.
* `SessionInv`: what a tab holds in memory was issued, and is what is saved
  unless it is `behind`; a tab that holds a session which was logged out
  elsewhere is counted in `kept`.
* `HopInv` bounds the redirects still to come (`Left`) by where the tab is: with a
  session that is good, one to the home of its role; without one, to the login page
  and from there once, since the login page that is shown already has its effect no
  more. Those counted and those left are never more than four together, so
  `RedirectsEnd` holds for every `MaxHops` of at least 4, for all roles and paths.
  The proof found that the count has to start again when another tab writes the
  cookie: with three tabs, of which one reloads a session that is over and one
  writes the first session back, the third is sent round for as long as the user
  goes on.
* `FeeInv`: an update that runs alone holds the fee it will merge into, and all
  that run passed the tests.
* `MapInv` follows a seat that was never free since the request began and that
  no booking came to occupy (`HolderFound`): somebody holds it; when the query
  for bookings found no row of it then, its time being no later than the clock,
  no booking occupied it, so a lock is on it, and neither can change without the
  seat becoming `free` or `moved`; the lock's key was therefore found and is
  still there for its GET. The invariant of `BookingsProofs` supplies that
  bookings stay and keep their seats.
* `OnboardInv`: what a review made it made all of, with the slug and the email of its
  application, and has then ended (`MadeByReviews`); rows keep their unique keys
  (`RowsAreUnique`); an APPROVED application has its tenant, and one with a tenant is
  APPROVED or `crossed` (`ApprovedAndMade`); a review under way has its application
  PENDING still, or `crossed` (`ReviewsPending`), as have two of one application
  (`TwoReviewsCross`). That two reviews of one application never both make a tenant
  follows: both rows would have the application's slug. `OnboardTypes` needs
  `KeysAreUnique` beside it: no two applications have one email and one status, the
  unique key of the table.
* `ServicesImplementEach` says that in `MCServices` each of the eight components
  behaves as its own specification says: a step of one is a step of it and leaves
  the variables of the others alone, `OneOfEightSteps`. `ServicesTypes` and
  `ServicesKeepPromises` (the safety properties of the `services` run except
  `HopsEnd`, whose theorem needs its bound to be large enough) follow from the
  theorems about each.

**`CheckoutProofs`**: `CheckoutInvariant`, `CheckoutTypes`; `ShownAmountIsCharged`
(`ShownIsCharged`); `RowAmountsAddUp` (`AmountsAddUp`); `PaidIsFailedWithCause`
(`PaidFailedCause`); `PaidTwiceIsByTwins` (`PaidTwiceOnlyByTwins`);
`ConfirmedIsKept` (`ConfirmedStays`, of steps); `RevenueIsWhatWasReceived`
(`RevenueIsReceived`). `CheckoutInv` has the types, and:

* `RowKept`, `ApplyKept`: the row's amounts add up, and a discount between its read
  and its write carries amounts that do, whatever the row says by now. That is why
  the last of two racing writes leaves a row that adds up.
* `PageKept`, `OrderKept`, `BookingKept`, `SettleKept`: a tab's total is the row's
  or zero; what createRazorpayOrder is about to store is what the order at Razorpay
  asks for; the status says whether the row has an order, only orders are paid, and
  only payments are settled.
* `ChargeKept`, `ShownKept`: while no discount has `raced`, every order under way,
  open or paid asks for the charge of the row, and a tab that is not `aged` shows
  it, or is about to be told.
* `CauseKept`: while neither a race nor a fault has happened, a mismatch is due to
  an amount that floats do not hold or to a finalAmount never written.
* `OnceKept`: while no two orders were asked for at once (`twin`), at most one
  request is under way, it sees a LOCKED row, and the row knows the one order that
  is open or paid.

The revenue is a sum over the orders. `MapThenSumSet` is a recursive function over
finite sets; that one more order adds its amount, wherever in the sum it is taken,
is shown on a smallest counterexample (the naturals being well founded), not with
the library's induction rule.

**`SeatBoardProofs`**: `BoardInvariant`, `BoardTypes`; `ShownSeatIsTrue`
(`ShownIsTrue`); `ChosenSeatIsShownFree`
(`ChosenIsShownFree`). The invariant says that there is a history `h` of the seat, its
status after each change, with which what is on its way and what is shown agree
(`Stands`); a step that changes the seat makes it longer by one. `BoardInv` has the
types, and for that history:

* `HistoryKept`, `EventsKept`, `InboxKept`: only a lock follows a free seat; events
  tell what a change did, one that nobody emitted is with its handler, and the last
  one on its way is the newest unless it was emitted late (`swapped`).
* `SnapshotKept`: snapshot, answer on its way and live status are each what the seat
  was after some change, and an answer is never older than the snapshot.
* `OpeningKept`, `StandKept`: what a board not shown is still to get is on its way;
  with nothing on its way, the newest event has been shown or lost.
* `GapKept`, `LockTold`: while nothing was lost or late since the page was opened,
  what comes after the change the view stands at is on its way, and so is every lock
  since the chosen seat was last known to be free. A choice therefore outlives a lock
  only until its event comes; what remains is an answer overtaken by a release.

In specifications that are proved about, an update never nests `@` inside an
update that itself uses `@`; such updates are named operators (`Captured`,
`Settled`, `LateRow`, `SweptRow`), which also names what they mean.

Only model-checked: the liveness properties (`LockLapses`,
`PendingResolvesIfWatched`, `InProgressResolves`, `CircuitRecovers`), which need
fairness and are outside what the installed backends can prove. Every invariant,
action property and refinement of a passing run is a theorem. What the properties
of a `violation` run say is refuted by TLC and has nothing to prove.

## 5. Not modelled

* Source that is presentation: about half the lines of the repository are pages
  and components of the web client and screens of the phone, which show what they
  read and keep no state beyond a form. The share of all lines that the models
  stand for is small for that reason, and cannot grow much.
* Handlers that are one read, one insert or one update of a row that nothing else
  writes: profiles, feature flags, plans, CRUD of events and theaters, listings,
  dashboards, analytics, recommendations, notifications.
* The password, JWT, tenant and role checks of the server: single reads; their
  result is the precondition of the handlers.
* The Redis and Prisma adapters, modules and configuration: connections.
* The idempotency interceptor: only the controllers of shows use it, and their
  service is not in the repository, so there is no handler to put behind it.
* `validateTicket` (the pattern of `scanTicket` once more), `handleExpiryJob`,
  the phone's offline queue of scans and its payment screen's order flow, which
  nothing calls or reaches.
* `handleInitiatedCleanup` and `handleWebhook` of `payments.service.ts`: they
  work on rows, or end in methods, whose code is not in the repository.

Hazards without a property: a ticket replaced by a second event of its order; pending refunds that
wait for an unrelated stuck booking. Of a `refund.failed` that arrives late,
`ImplementsPromise` says only that it never comes to a booking whose money was not
given back; that it may overwrite REFUNDED is what the code does, and whether it is
about the same refund cannot be told without refund ids, which the model leaves out.

That a payment has one row in the ledger is not stated, although webhook,
reconciliation and a redelivery after a rollback may each write one: the table and
its keys are not in the repository. The seats of a confirmed booking that a stale
sweep or the second call of `refundPayment` takes are named in `ConfirmedKeepsSeats`
as what the code allows; no text of the repository says otherwise of them.

What could still be added: refund ids in `PaymentLifecycle`, with the order of
refund events; `handleExpiryJob` beside `SeatLocks` for the day it is wired in.

## 6. Files

`*.tla` modules as above, `MC*.tla` instances, `*Proofs.tla` proofs, `*.cfg`
configurations, `PROJECT.json` the index of components, runs, properties,
mutants, hazards, findings, theorems and the map from definitions to source
lines. `tlc -config X.cfg MCModule` repeats a run, `tlapm XProofs.tla` a proof.
