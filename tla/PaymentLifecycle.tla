-------------------------- MODULE PaymentLifecycle --------------------------
(***************************************************************************)
(* The older payment flow kept in backend/src/payments and                 *)
(* backend/src/bookings beside the one app.module.ts imports: Razorpay     *)
(* orders, the payment and refund webhooks, the reconciliation worker with *)
(* its refund sweep, the admin's refund, and the three sweeps that expire  *)
(* bookings.                                                               *)
(*                                                                         *)
(* One step per awaited call, and two per database transaction, which      *)
(* reads the booking first and then writes: PostgreSQL runs Prisma's       *)
(* transactions READ COMMITTED and findUnique takes no row lock.  Dead     *)
(* letters and event logs, which nothing reads, are left out.              *)
(***************************************************************************)
EXTENDS Naturals

CONSTANTS
  Bookings,    \* bookings whose seats are LOCKED
  OrderReqs,   \* createRazorpayOrder requests a server works on
  Hooks,       \* webhook requests a server works on
  NoBooking,   \* the booking field of an idle actor
  MaxOrders,   \* bound: Razorpay orders
  MaxFaults    \* bound: API calls that fail, handlers and workers that die

ASSUME PaymentBoundsAssumption == MaxOrders \in Nat /\ MaxFaults \in Nat
ASSUME NoBookingAssumption == NoBooking \notin Bookings

Orders == 1 .. MaxOrders

VARIABLES
  row,       \* booking -> its Booking row, with its SeatLock and BookingSeat rows
             \* (givenUp: history, the worker has written FAILED)
  overdue,   \* bookings whose expiresAt (and that of their seat locks) is over
  stale,     \* bookings created more than ten minutes ago
  ledger,    \* order -> PaymentLedger rows of its payment
  recorded,  \* orders whose payment event has a committed RazorpayWebhookEvent
  gateway,   \* Razorpay: order -> its payment and its refund
  orderReq,  \* createRazorpayOrder handlers
  hook,      \* webhook handlers
  recon,     \* the reconciliation worker (isReconciling: one at a time)
  admin,     \* the admin's refundPayment
  expiring,  \* bookings that handleAutoExpiry has read and is about to expire
  cleaning,  \* bookings that cleanup_expired has listed and will expire
  sweeping,  \* bookings whose locks releaseExpiredLocks has listed
  faults     \* faults so far

vars == <<row, overdue, stale, ledger, recorded, gateway, orderReq, hook,
          recon, admin, expiring, cleaning, sweeping, faults>>

Statuses == {"LOCKED", "PAYMENT_IN_PROGRESS", "CONFIRMED", "FAILED", "EXPIRED",
             "CANCELLED", "REFUND_INITIATED", "REFUNDED", "REFUND_FAILED"}

IdleOrderReq == [pc |-> "idle", b |-> NoBooking, o |-> 0]
IdleHook == [pc |-> "idle", kind |-> "none", o |-> 0, seen |-> "none"]
IdleRecon == [pc |-> "idle", todo |-> {}, b |-> NoBooking, o |-> 0,
              found |-> FALSE, seen |-> "none"]
IdleAdmin == [pc |-> "idle", b |-> NoBooking, o |-> 0]

Init ==
  /\ row = [b \in Bookings |-> [status |-> "LOCKED", order |-> 0, payment |-> 0,
                                lock |-> "LOCKED", seat |-> "LOCKED", givenUp |-> "no"]]
  /\ overdue = {} /\ stale = {}
  /\ ledger = [o \in Orders |-> [paid |-> 0, refund |-> {}]]
  /\ recorded = {}
  /\ gateway = [o \in Orders |-> [b |-> NoBooking, pay |-> "none", noted |-> FALSE,
                                  refund |-> "none", events |-> {}]]
  /\ orderReq = [c \in OrderReqs |-> IdleOrderReq]
  /\ hook = [h \in Hooks |-> IdleHook]
  /\ recon = IdleRecon
  /\ admin = IdleAdmin
  /\ expiring = {} /\ cleaning = {} /\ sweeping = {}
  /\ faults = 0

----------------------------------------------------------------------------
(* Time and Razorpay *)

\* expiresAt passes; ten minutes pass.
Lapse(b) ==
  /\ b \notin overdue
  /\ overdue' = overdue \cup {b}
  /\ UNCHANGED <<row, stale, ledger, recorded, gateway, orderReq, hook,
                 recon, admin, expiring, cleaning, sweeping, faults>>

Age(b) ==
  /\ b \notin stale
  /\ stale' = stale \cup {b}
  /\ UNCHANGED <<row, overdue, ledger, recorded, gateway, orderReq, hook,
                 recon, admin, expiring, cleaning, sweeping, faults>>

\* Razorpay captures a payment, or settles a refund, and sends an event.
Captured(g, noted) == [g EXCEPT !.pay = "captured", !.noted = noted,
                                !.events = @ \cup {"captured"}]
Settled(g, result) == [g EXCEPT !.refund = result, !.events = @ \cup {result}]

\* The client pays an order it was given; whether its checkout put a tenantId
\* into the payment's notes is its own choice.
Pay(o) ==
  /\ gateway[o].pay = "open"
  /\ \E noted \in BOOLEAN : gateway' = [gateway EXCEPT ![o] = Captured(@, noted)]
  /\ UNCHANGED <<row, overdue, stale, ledger, recorded, orderReq, hook,
                 recon, admin, expiring, cleaning, sweeping, faults>>

\* A refund Razorpay has accepted is processed by the bank, or fails there.
SettleRefund(o) ==
  /\ gateway[o].refund = "created"
  /\ \E result \in {"processed", "failed"} :
       gateway' = [gateway EXCEPT ![o] = Settled(@, result)]
  /\ UNCHANGED <<row, overdue, stale, ledger, recorded, orderReq, hook,
                 recon, admin, expiring, cleaning, sweeping, faults>>

\* payments.refund: Razorpay refuses to give back more than was paid.
Refundable(o) == gateway[o].pay = "captured" /\ gateway[o].refund \in {"none", "failed"}

AcceptRefund(o) ==
  /\ Refundable(o)
  /\ gateway' = [gateway EXCEPT ![o].refund = "created"]

----------------------------------------------------------------------------
(* createRazorpayOrder *)

\* The booking is read and must be LOCKED and not expired.  A LOCKED booking
\* has no order yet.
OrderRead(c, b) ==
  /\ orderReq[c].pc = "idle"
  /\ row[b].status = "LOCKED" /\ row[b].order = 0
  /\ b \notin overdue
  /\ orderReq' = [orderReq EXCEPT ![c] = [@ EXCEPT !.pc = "create", !.b = b]]
  /\ UNCHANGED <<row, overdue, stale, ledger, recorded, gateway, hook,
                 recon, admin, expiring, cleaning, sweeping, faults>>

\* razorpay.orders.create
OrderCreate(c, o) ==
  /\ orderReq[c].pc = "create"
  /\ gateway[o].pay = "none" /\ \A p \in Orders : p < o => gateway[p].pay # "none"
  /\ gateway' = [gateway EXCEPT ![o] = [@ EXCEPT !.b = orderReq[c].b, !.pay = "created"]]
  /\ orderReq' = [orderReq EXCEPT ![c] = [@ EXCEPT !.pc = "update", !.o = o]]
  /\ UNCHANGED <<row, overdue, stale, ledger, recorded, hook,
                 recon, admin, expiring, cleaning, sweeping, faults>>

\* Mutant of OrderUpdate: the order id is not stored
OrderUpdateStatusOnly(c) ==
  /\ orderReq[c].pc = "update"
  /\ row' = [row EXCEPT ![orderReq[c].b].status = "PAYMENT_IN_PROGRESS"]
  /\ gateway' = [gateway EXCEPT ![orderReq[c].o].pay = "open"]
  /\ orderReq' = [orderReq EXCEPT ![c] = IdleOrderReq]
  /\ UNCHANGED <<overdue, stale, ledger, recorded, hook,
                 recon, admin, expiring, cleaning, sweeping, faults>>

\* booking.update by id, whatever the status is by now, and the answer
OrderUpdate(c) ==
  LET b == orderReq[c].b
      o == orderReq[c].o
  IN  /\ orderReq[c].pc = "update"
      /\ row' = [row EXCEPT ![b] = [@ EXCEPT !.status = "PAYMENT_IN_PROGRESS", !.order = o]]
      /\ gateway' = [gateway EXCEPT ![o].pay = "open"]
      /\ orderReq' = [orderReq EXCEPT ![c] = IdleOrderReq]
      /\ UNCHANGED <<overdue, stale, ledger, recorded, hook,
                     recon, admin, expiring, cleaning, sweeping, faults>>

\* orders.create or the update throws (recordFailure), or the process dies.
OrderFail(c) ==
  /\ faults < MaxFaults
  /\ orderReq[c].pc # "idle"
  /\ orderReq' = [orderReq EXCEPT ![c] = IdleOrderReq]
  /\ faults' = faults + 1
  /\ UNCHANGED <<row, overdue, stale, ledger, recorded, gateway, hook,
                 recon, admin, expiring, cleaning, sweeping>>

OrderStep(c) == OrderUpdate(c) \/ \E o \in Orders : OrderCreate(c, o)

----------------------------------------------------------------------------
(* The payment webhook: an outer transaction with the event's unique row,   *)
(* and processPaymentSuccess in a transaction of its own inside it.         *)

\* Any event may be delivered any number of times, late and out of order.
Deliver(h, o, kind) ==
  /\ hook[h].pc = "idle"
  /\ kind \in gateway[o].events
  /\ hook' = [hook EXCEPT ![h] = [@ EXCEPT !.pc = IF kind = "captured" THEN "insert"
                                                  ELSE "resolve",
                                           !.kind = kind, !.o = o]]
  /\ UNCHANGED <<row, overdue, stale, ledger, recorded, gateway, orderReq,
                 recon, admin, expiring, cleaning, sweeping, faults>>

\* razorpayWebhookEvent.create waits while another transaction has inserted
\* the same event.  A payment without tenantId in its notes throws: the outer
\* transaction is rolled back.
HookInsert(h) ==
  LET o == hook[h].o
  IN  /\ hook[h].pc = "insert"
      /\ \A g \in Hooks \ {h} : hook[g].pc \in {"read", "write", "commit"} => hook[g].o # o
      /\ hook' = [hook EXCEPT ![h] = IF o \notin recorded /\ gateway[o].noted
                                     THEN [@ EXCEPT !.pc = "read"] ELSE IdleHook]
      /\ UNCHANGED <<row, overdue, stale, ledger, recorded, gateway, orderReq,
                     recon, admin, expiring, cleaning, sweeping, faults>>

\* processPaymentSuccess: the findUnique of its transaction
HookRead(h) ==
  /\ hook[h].pc = "read"
  /\ hook' = [hook EXCEPT ![h] = [@ EXCEPT !.pc = "write",
                                           !.seen = row[gateway[hook[h].o].b].status]]
  /\ UNCHANGED <<row, overdue, stale, ledger, recorded, gateway, orderReq,
                 recon, admin, expiring, cleaning, sweeping, faults>>

\* The writes of a confirmation: booking, its LOCKED seat lock, its seat row
Confirmed(r, o) == [r EXCEPT !.status = "CONFIRMED", !.payment = o,
                             !.lock = IF @ = "LOCKED" THEN "CONFIRMED" ELSE @,
                             !.seat = "CONFIRMED"]

\* Mutant of PaymentRow: the ledger entry is forgotten
NoPaymentRow(l) == l

\* A PAYMENT / SUCCESS row
PaymentRow(l) == [l EXCEPT !.paid = @ + 1]

\* The same for a booking that is over, and a REFUND / REFUND_INITIATED row
LateRow(l) == [PaymentRow(l) EXCEPT !.refund = @ \cup {"REFUND_INITIATED"}]

\* processPaymentSuccess: the writes that follow from the status it read, and
\* the commit of the inner transaction
HookWrite(h) ==
  LET o == hook[h].o
      b == gateway[o].b
  IN  /\ hook[h].pc = "write"
      /\ \/ /\ hook[h].seen \in {"PAYMENT_IN_PROGRESS", "LOCKED"}
            /\ row' = [row EXCEPT ![b] = Confirmed(@, o)]
            /\ ledger' = [ledger EXCEPT ![o] = PaymentRow(@)]
         \/ /\ hook[h].seen = "EXPIRED"
            /\ ledger' = [ledger EXCEPT ![o] = LateRow(@)]
            /\ UNCHANGED row
         \/ /\ hook[h].seen \notin {"PAYMENT_IN_PROGRESS", "LOCKED", "EXPIRED"}
            /\ UNCHANGED <<row, ledger>>
      /\ hook' = [hook EXCEPT ![h].pc = "commit"]
      /\ UNCHANGED <<overdue, stale, recorded, gateway, orderReq,
                     recon, admin, expiring, cleaning, sweeping, faults>>

\* paymentEvent.update and the commit of the outer transaction
HookCommit(h) ==
  /\ hook[h].pc = "commit"
  /\ recorded' = recorded \cup {hook[h].o}
  /\ hook' = [hook EXCEPT ![h] = IdleHook]
  /\ UNCHANGED <<row, overdue, stale, ledger, gateway, orderReq,
                 recon, admin, expiring, cleaning, sweeping, faults>>

\* Mutant of HookResolve: refund.processed looks at no status
HookResolveAnyStatus(h) ==
  LET o == hook[h].o
  IN  /\ hook[h].pc = "resolve"
      /\ hook' = [hook EXCEPT ![h] = IF row[gateway[o].b].payment = o
                                     THEN [@ EXCEPT !.pc = "settle"] ELSE IdleHook]
      /\ UNCHANGED <<row, overdue, stale, ledger, recorded, gateway, orderReq,
                     recon, admin, expiring, cleaning, sweeping, faults>>

\* refund.processed and refund.failed: the booking is found by its payment;
\* only refund.processed looks at the status.
HookResolve(h) ==
  LET o == hook[h].o
      b == gateway[o].b
  IN  /\ hook[h].pc = "resolve"
      /\ hook' = [hook EXCEPT ![h] =
                    IF /\ row[b].payment = o
                       /\ hook[h].kind = "processed" => row[b].status = "REFUND_INITIATED"
                    THEN [@ EXCEPT !.pc = "settle"] ELSE IdleHook]
      /\ UNCHANGED <<row, overdue, stale, ledger, recorded, gateway, orderReq,
                     recon, admin, expiring, cleaning, sweeping, faults>>

\* booking.update by id
HookSettle(h) ==
  /\ hook[h].pc = "settle"
  /\ row' = [row EXCEPT ![gateway[hook[h].o].b].status =
               IF hook[h].kind = "processed" THEN "REFUNDED" ELSE "REFUND_FAILED"]
  /\ hook' = [hook EXCEPT ![h] = IdleHook]
  /\ UNCHANGED <<overdue, stale, ledger, recorded, gateway, orderReq,
                 recon, admin, expiring, cleaning, sweeping, faults>>

\* A call of the handler throws or the process dies; the outer transaction is
\* rolled back, the inner one is not.
HookAbort(h) ==
  /\ faults < MaxFaults
  /\ hook[h].pc # "idle"
  /\ hook' = [hook EXCEPT ![h] = IdleHook]
  /\ faults' = faults + 1
  /\ UNCHANGED <<row, overdue, stale, ledger, recorded, gateway, orderReq,
                 recon, admin, expiring, cleaning, sweeping>>

HookStep(h) ==
  \/ HookInsert(h) \/ HookRead(h) \/ HookWrite(h) \/ HookCommit(h)
  \/ HookResolve(h) \/ HookSettle(h)

----------------------------------------------------------------------------
(* ReconciliationWorker.handleReconciliation and reconcileBooking *)

\* The worker goes on with its list.
Going(pc) == [IdleRecon EXCEPT !.pc = pc, !.todo = recon.todo]

\* The stale bookings PAYMENT_IN_PROGRESS, with the order each has now.  With
\* none the worker returns, without the sweep for refunds.
ReconStart ==
  LET found == {b \in stale : row[b].status = "PAYMENT_IN_PROGRESS"}
  IN  /\ recon.pc = "idle"
      /\ found # {}
      /\ recon' = [recon EXCEPT !.pc = "next",
                                !.todo = {[b |-> b, o |-> row[b].order] : b \in found}]
      /\ UNCHANGED <<row, overdue, stale, ledger, recorded, gateway, orderReq,
                     hook, admin, expiring, cleaning, sweeping, faults>>

\* A booking in payment has its order id, written in the same update.
ReconPick(t) ==
  /\ recon.pc = "next"
  /\ recon' = [recon EXCEPT !.pc = "fetch", !.todo = @ \ {t}, !.b = t.b, !.o = t.o]
  /\ UNCHANGED <<row, overdue, stale, ledger, recorded, gateway, orderReq,
                 hook, admin, expiring, cleaning, sweeping, faults>>

\* orders.fetchPayments
ReconFetch ==
  LET captured == gateway[recon.o].pay = "captured"
  IN  /\ recon.pc = "fetch"
      /\ recon' = [recon EXCEPT !.pc = IF captured THEN "ledger" ELSE "read",
                                !.found = captured]
      /\ UNCHANGED <<row, overdue, stale, ledger, recorded, gateway, orderReq,
                     hook, admin, expiring, cleaning, sweeping, faults>>

\* The ledger guard, outside of any transaction
ReconLedger ==
  /\ recon.pc = "ledger"
  /\ recon' = [recon EXCEPT !.pc = IF ledger[recon.o].paid > 0 THEN "sync" ELSE "read"]
  /\ UNCHANGED <<row, overdue, stale, ledger, recorded, gateway, orderReq,
                 hook, admin, expiring, cleaning, sweeping, faults>>

\* A payment the ledger knows: one update that matches PAYMENT_IN_PROGRESS only
ReconSync ==
  /\ recon.pc = "sync"
  /\ row' = IF row[recon.b].status = "PAYMENT_IN_PROGRESS"
            THEN [row EXCEPT ![recon.b].status = "CONFIRMED"] ELSE row
  /\ recon' = Going("next")
  /\ UNCHANGED <<overdue, stale, ledger, recorded, gateway, orderReq,
                 hook, admin, expiring, cleaning, sweeping, faults>>

\* The findUnique of its transactions
ReconRead ==
  /\ recon.pc = "read"
  /\ recon' = [recon EXCEPT !.pc = "write", !.seen = row[recon.b].status]
  /\ UNCHANGED <<row, overdue, stale, ledger, recorded, gateway, orderReq,
                 hook, admin, expiring, cleaning, sweeping, faults>>

\* A seat lock that is still LOCKED is released.
Released(r) == [r EXCEPT !.lock = IF @ = "LOCKED" THEN "RELEASED" ELSE @]

\* Mutant of Abandoned: an unpaid booking is left in payment
AbandonedLater(r) == Released(r)

\* No captured payment: the booking fails and its locks are released.
Abandoned(r) == [Released(r) EXCEPT !.status = "FAILED", !.givenUp = "yes"]

\* The writes that follow from what Razorpay and the transaction's read said
ReconWrite ==
  LET b == recon.b
      o == recon.o
  IN  /\ recon.pc = "write"
      /\ \/ /\ recon.found /\ recon.seen = "PAYMENT_IN_PROGRESS"
            /\ row' = [row EXCEPT ![b] = Confirmed(@, o)]
            /\ ledger' = [ledger EXCEPT ![o] = PaymentRow(@)]
         \/ /\ recon.found /\ recon.seen \in {"EXPIRED", "CANCELLED", "FAILED"}
            /\ row' = [row EXCEPT ![b] = [@ EXCEPT !.status = "REFUND_INITIATED",
                                                   !.payment = o]]
            /\ ledger' = [ledger EXCEPT ![o] = LateRow(@)]
         \/ /\ ~recon.found /\ recon.seen = "PAYMENT_IN_PROGRESS"
            /\ row' = [row EXCEPT ![b] = Abandoned(@)]
            /\ UNCHANGED ledger
         \/ /\ recon.seen # "PAYMENT_IN_PROGRESS"
            /\ recon.found => recon.seen \notin {"EXPIRED", "CANCELLED", "FAILED"}
            /\ UNCHANGED <<row, ledger>>
      /\ recon' = Going("next")
      /\ UNCHANGED <<overdue, stale, recorded, gateway, orderReq,
                     hook, admin, expiring, cleaning, sweeping, faults>>

----------------------------------------------------------------------------
(* sweepPendingRefunds and RefundService.processRefund *)

\* After the last booking: the list of bookings in REFUND_INITIATED
SweepStart ==
  LET found == {b \in Bookings : row[b].status = "REFUND_INITIATED"}
  IN  /\ recon.pc = "next" /\ recon.todo = {}
      /\ recon' = [recon EXCEPT !.pc = "sweep", !.todo = {[b |-> b, o |-> 0] : b \in found}]
      /\ UNCHANGED <<row, overdue, stale, ledger, recorded, gateway, orderReq,
                     hook, admin, expiring, cleaning, sweeping, faults>>

\* processRefund reads the booking and skips what is not to be refunded.
RefundPick(t) ==
  LET r == row[t.b]
  IN  /\ recon.pc = "sweep"
      /\ recon' = IF r.status = "REFUND_INITIATED" /\ r.payment # 0
                  THEN [recon EXCEPT !.pc = "refund", !.todo = @ \ {t},
                                     !.b = t.b, !.o = r.payment]
                  ELSE [recon EXCEPT !.todo = @ \ {t}]
      /\ UNCHANGED <<row, overdue, stale, ledger, recorded, gateway, orderReq,
                     hook, admin, expiring, cleaning, sweeping, faults>>

\* payments.refund succeeds.
RefundCall ==
  /\ recon.pc = "refund"
  /\ AcceptRefund(recon.o)
  /\ recon' = [recon EXCEPT !.pc = "reread", !.found = TRUE]
  /\ UNCHANGED <<row, overdue, stale, ledger, recorded, orderReq,
                 hook, admin, expiring, cleaning, sweeping, faults>>

\* Mutant of RefundThrows: the exception is swallowed
RefundThrowsUnseen ==
  /\ recon.pc = "refund"
  /\ \/ ~Refundable(recon.o) /\ UNCHANGED faults
     \/ Refundable(recon.o) /\ faults < MaxFaults /\ faults' = faults + 1
  /\ recon' = [recon EXCEPT !.pc = "reread", !.found = TRUE]
  /\ UNCHANGED <<row, overdue, stale, ledger, recorded, gateway, orderReq,
                 hook, admin, expiring, cleaning, sweeping>>

\* payments.refund throws: Razorpay refuses, or the call fails.
RefundThrows ==
  /\ recon.pc = "refund"
  /\ \/ ~Refundable(recon.o) /\ UNCHANGED faults
     \/ Refundable(recon.o) /\ faults < MaxFaults /\ faults' = faults + 1
  /\ recon' = [recon EXCEPT !.pc = "reread", !.found = FALSE]
  /\ UNCHANGED <<row, overdue, stale, ledger, recorded, gateway, orderReq,
                 hook, admin, expiring, cleaning, sweeping>>

\* The transactions that note the result read the booking again.
RefundRead ==
  /\ recon.pc = "reread"
  /\ recon' = [recon EXCEPT !.pc = "rewrite", !.seen = row[recon.b].status]
  /\ UNCHANGED <<row, overdue, stale, ledger, recorded, gateway, orderReq,
                 hook, admin, expiring, cleaning, sweeping, faults>>

\* The status moves only from REFUND_INITIATED; the ledger row is always
\* written.
RefundWrite ==
  LET b == recon.b
  IN  /\ recon.pc = "rewrite"
      /\ row' = IF recon.seen = "REFUND_INITIATED"
                THEN [row EXCEPT ![b].status = IF recon.found THEN "REFUNDED"
                                               ELSE "REFUND_FAILED"]
                ELSE row
      /\ ledger' = [ledger EXCEPT ![recon.o].refund =
                      @ \cup {IF recon.found THEN "SUCCESS" ELSE "FAILED"}]
      /\ recon' = Going("sweep")
      /\ UNCHANGED <<overdue, stale, recorded, gateway, orderReq,
                     hook, admin, expiring, cleaning, sweeping, faults>>

ReconEnd ==
  /\ recon.pc = "sweep" /\ recon.todo = {}
  /\ recon' = IdleRecon
  /\ UNCHANGED <<row, overdue, stale, ledger, recorded, gateway, orderReq,
                 hook, admin, expiring, cleaning, sweeping, faults>>

\* A call for one booking throws (a transaction that was to note a refund
\* Razorpay has made included) and the worker goes on with the next booking,
\* or its process dies.
ReconAbort ==
  /\ faults < MaxFaults
  /\ recon.pc # "idle"
  /\ \/ recon' = IdleRecon
     \/ /\ recon.pc \in {"fetch", "ledger", "sync", "read", "write"}
        /\ recon' = Going("next")
     \/ /\ recon.pc \in {"reread", "rewrite"}
        /\ recon' = Going("sweep")
  /\ faults' = faults + 1
  /\ UNCHANGED <<row, overdue, stale, ledger, recorded, gateway, orderReq,
                 hook, admin, expiring, cleaning, sweeping>>

ReconStep ==
  \/ ReconStart \/ ReconFetch \/ ReconLedger \/ ReconSync \/ ReconRead \/ ReconWrite
  \/ SweepStart \/ RefundCall \/ RefundThrows \/ RefundRead \/ RefundWrite \/ ReconEnd
  \/ \E t \in recon.todo : ReconPick(t) \/ RefundPick(t)

----------------------------------------------------------------------------
(* The admin's refundPayment *)

\* The booking is read: it has a payment, and is CONFIRMED or CANCELLED.
AdminRead(b) ==
  /\ admin.pc = "idle"
  /\ row[b].payment # 0
  /\ row[b].status \in {"CONFIRMED", "CANCELLED"}
  /\ admin' = [pc |-> "call", b |-> b, o |-> row[b].payment]
  /\ UNCHANGED <<row, overdue, stale, ledger, recorded, gateway, orderReq,
                 hook, recon, expiring, cleaning, sweeping, faults>>

\* initiateRefund
AdminCall ==
  /\ admin.pc = "call"
  /\ AcceptRefund(admin.o)
  /\ admin' = [admin EXCEPT !.pc = "update"]
  /\ UNCHANGED <<row, overdue, stale, ledger, recorded, orderReq,
                 hook, recon, expiring, cleaning, sweeping, faults>>

\* booking.update by id, whatever the status is by now
AdminUpdate ==
  /\ admin.pc = "update"
  /\ row' = [row EXCEPT ![admin.b].status = "REFUND_INITIATED"]
  /\ admin' = [admin EXCEPT !.pc = "release"]
  /\ UNCHANGED <<overdue, stale, ledger, recorded, gateway, orderReq,
                 hook, recon, expiring, cleaning, sweeping, faults>>

\* releaseSeatsSafely, a call of its own outside of any transaction
AdminRelease ==
  /\ admin.pc = "release"
  /\ row' = [row EXCEPT ![admin.b].lock = "RELEASED"]
  /\ admin' = IdleAdmin
  /\ UNCHANGED <<overdue, stale, ledger, recorded, gateway, orderReq,
                 hook, recon, expiring, cleaning, sweeping, faults>>

\* Razorpay refuses the refund; or a call throws, or the process dies.
AdminAbort ==
  /\ admin.pc # "idle"
  /\ \/ admin.pc = "call" /\ ~Refundable(admin.o) /\ UNCHANGED faults
     \/ faults < MaxFaults /\ faults' = faults + 1
  /\ admin' = IdleAdmin
  /\ UNCHANGED <<row, overdue, stale, ledger, recorded, gateway, orderReq,
                 hook, recon, expiring, cleaning, sweeping>>

----------------------------------------------------------------------------
(* The sweeps that expire bookings *)

\* handleAutoExpiry: the read of its transaction repeats the tests of its list.
ExpiryRead(b) ==
  /\ b \notin expiring
  /\ b \in overdue
  /\ row[b].status = "LOCKED" /\ row[b].payment = 0
  /\ expiring' = expiring \cup {b}
  /\ UNCHANGED <<row, overdue, stale, ledger, recorded, gateway, orderReq,
                 hook, recon, admin, cleaning, sweeping, faults>>

\* Its update by id, and releaseSeatsSafely
ExpiryWrite(b) ==
  /\ b \in expiring
  /\ row' = [row EXCEPT ![b] = [Released(@) EXCEPT !.status = "EXPIRED"]]
  /\ expiring' = expiring \ {b}
  /\ UNCHANGED <<overdue, stale, ledger, recorded, gateway, orderReq,
                 hook, recon, admin, cleaning, sweeping, faults>>

\* BookingProcessor.handleExpiredBookings: the list, then an update by id each
CleanupList ==
  /\ cleaning = {}
  /\ cleaning' = {b \in overdue : row[b].status = "LOCKED"}
  /\ cleaning' # {}
  /\ UNCHANGED <<row, overdue, stale, ledger, recorded, gateway, orderReq,
                 hook, recon, admin, expiring, sweeping, faults>>

CleanupWrite(b) ==
  /\ b \in cleaning
  /\ row' = [row EXCEPT ![b].status = "EXPIRED"]
  /\ cleaning' = cleaning \ {b}
  /\ UNCHANGED <<overdue, stale, ledger, recorded, gateway, orderReq,
                 hook, recon, admin, expiring, sweeping, faults>>

\* A listed lock: the lock by id, the booking if LOCKED, the seat row always
SweptRow(r) == [r EXCEPT !.lock = "RELEASED", !.seat = "EXPIRED",
                         !.status = IF @ = "LOCKED" THEN "EXPIRED" ELSE @]

\* Mutant of SweepList: the locks are listed before they expire
SweepListEarly ==
  /\ sweeping = {}
  /\ sweeping' = {b \in Bookings : row[b].lock = "LOCKED"}
  /\ sweeping' # {}
  /\ UNCHANGED <<row, overdue, stale, ledger, recorded, gateway, orderReq,
                 hook, recon, admin, expiring, cleaning, faults>>

\* SeatLockWorker.releaseExpiredLocks: a batch of expired locks is listed,
SweepList ==
  /\ sweeping = {}
  /\ sweeping' = {b \in overdue : row[b].lock = "LOCKED"}
  /\ sweeping' # {}
  /\ UNCHANGED <<row, overdue, stale, ledger, recorded, gateway, orderReq,
                 hook, recon, admin, expiring, cleaning, faults>>

\* and released in one transaction, whatever became of the booking.
SweepWrite ==
  /\ sweeping # {}
  /\ row' = [b \in Bookings |-> IF b \in sweeping THEN SweptRow(row[b]) ELSE row[b]]
  /\ sweeping' = {}
  /\ UNCHANGED <<overdue, stale, ledger, recorded, gateway, orderReq,
                 hook, recon, admin, expiring, cleaning, faults>>

\* The process of the crons dies: what they have read is lost.
CronAbort ==
  /\ faults < MaxFaults
  /\ expiring \cup cleaning \cup sweeping # {}
  /\ expiring' = {} /\ cleaning' = {} /\ sweeping' = {}
  /\ faults' = faults + 1
  /\ UNCHANGED <<row, overdue, stale, ledger, recorded, gateway, orderReq,
                 hook, recon, admin>>

CronStep == \/ CleanupList \/ SweepList \/ SweepWrite
            \/ \E b \in Bookings : ExpiryRead(b) \/ ExpiryWrite(b) \/ CleanupWrite(b)

----------------------------------------------------------------------------
Next ==
  \/ \E b \in Bookings : Lapse(b) \/ Age(b) \/ AdminRead(b)
  \/ \E o \in Orders : Pay(o) \/ SettleRefund(o)
  \/ \E c \in OrderReqs : OrderStep(c) \/ OrderFail(c) \/ \E b \in Bookings : OrderRead(c, b)
  \/ \E h \in Hooks : HookStep(h) \/ HookAbort(h)
  \/ \E h \in Hooks, o \in Orders : \E kind \in gateway[o].events : Deliver(h, o, kind)
  \/ ReconStep \/ ReconAbort
  \/ AdminCall \/ AdminUpdate \/ AdminRelease \/ AdminAbort
  \/ CronStep \/ CronAbort

\* Time goes on, Razorpay delivers its events, servers finish what they
\* began, and the crons run again and again.
Fairness ==
  /\ \A b \in Bookings : WF_vars(Lapse(b)) /\ WF_vars(Age(b))
  /\ \A c \in OrderReqs : WF_vars(OrderStep(c))
  /\ \A h \in Hooks : WF_vars(HookStep(h))
  /\ \A o \in Orders, kind \in {"captured", "processed", "failed"} :
       SF_vars(\E h \in Hooks : Deliver(h, o, kind))
  /\ WF_vars(ReconStep)
  /\ WF_vars(CronStep)

Spec == Init /\ [][Next]_vars
FairSpec == Spec /\ Fairness
----------------------------------------------------------------------------
RowType == [status: Statuses, order: Orders \cup {0}, payment: Orders \cup {0},
            lock: {"LOCKED", "CONFIRMED", "RELEASED"},
            seat: {"LOCKED", "CONFIRMED", "EXPIRED"}, givenUp: {"no", "yes"}]
LedgerType == [paid: Nat, refund: SUBSET {"REFUND_INITIATED", "SUCCESS", "FAILED"}]
GatewayType == [b: Bookings \cup {NoBooking}, pay: {"none", "created", "open", "captured"},
                noted: BOOLEAN, refund: {"none", "created", "processed", "failed"},
                events: SUBSET {"captured", "processed", "failed"}]
OrderReqType == [pc: {"idle", "create", "update"}, b: Bookings \cup {NoBooking},
                 o: Orders \cup {0}]
HookType == [pc: {"idle", "insert", "read", "write", "commit", "resolve", "settle"},
             kind: {"none", "captured", "processed", "failed"},
             o: Orders \cup {0}, seen: Statuses \cup {"none"}]
ReconType == [pc: {"idle", "next", "fetch", "ledger", "sync", "read", "write", "sweep",
                   "refund", "reread", "rewrite"},
              todo: SUBSET [b: Bookings, o: Orders \cup {0}], b: Bookings \cup {NoBooking},
              o: Orders \cup {0}, found: BOOLEAN, seen: Statuses \cup {"none"}]
AdminType == [pc: {"idle", "call", "update", "release"}, b: Bookings \cup {NoBooking},
              o: Orders \cup {0}]

\* The types of all variables; whoever works on an order works on one that
\* exists, and a booking in payment has its order id.
TypeOK ==
  /\ row \in [Bookings -> RowType]
  /\ overdue \subseteq Bookings /\ stale \subseteq Bookings
  /\ ledger \in [Orders -> LedgerType]
  /\ recorded \subseteq Orders
  /\ gateway \in [Orders -> GatewayType]
  /\ orderReq \in [OrderReqs -> OrderReqType]
  /\ hook \in [Hooks -> HookType]
  /\ recon \in ReconType
  /\ admin \in AdminType
  /\ expiring \subseteq Bookings /\ cleaning \subseteq Bookings /\ sweeping \subseteq Bookings
  /\ faults \in Nat
  /\ \A b \in Bookings : row[b].status = "PAYMENT_IN_PROGRESS" => row[b].order # 0

\* Safety.  A CONFIRMED booking is paid and booked: Razorpay has captured a
\* payment of one of its orders, and the ledger has a PAYMENT row for it,
\* whichever of the webhook, the worker and their stale reads confirmed it.
ConfirmedIsPaid ==
  \A b \in Bookings : row[b].status = "CONFIRMED" =>
    \E o \in Orders : /\ gateway[o].b = b /\ gateway[o].pay = "captured"
                      /\ ledger[o].paid > 0

\* Safety.  Money goes back only for a payment the ledger knows, and a
\* booking is REFUNDED only when Razorpay has accepted a refund for it.
RefundIsBooked ==
  /\ \A o \in Orders : gateway[o].refund # "none" => ledger[o].paid > 0
  /\ \A b \in Bookings : row[b].status = "REFUNDED" =>
       \E o \in Orders : gateway[o].b = b /\ gateway[o].refund # "none"

\* A CONFIRMED booking whose seats others may take.
Seatless(b) ==
  row[b].status = "CONFIRMED" /\ {row[b].lock, row[b].seat} # {"CONFIRMED"}

\* A booking whose seats were given back for a reason: its locks had expired,
\* the worker had given it up, or Razorpay had accepted a refund for it.
Forfeited(b) ==
  \/ b \in overdue \/ row[b].givenUp = "yes"
  \/ \E o \in Orders : gateway[o].b = b /\ gateway[o].refund # "none"

\* Safety.  releaseExpiredLocks, the two expiries, the worker and the admin
\* update locks and seats by id.  A confirmed booking loses its seats only to a
\* sweep that listed them, expired, before it was confirmed, or to an admin who
\* has had its money given back and has written REFUND_INITIATED, which a late
\* confirmation has overwritten before the seats are released; and one is
\* confirmed without seats only when they had been forfeited before.
ConfirmedKeepsSeats ==
  [][\A b \in Bookings : ~Seatless(b) /\ Seatless(b)' =>
       IF row[b].status = "CONFIRMED"
       THEN \/ b \in sweeping \cap overdue
            \/ admin.pc = "release" /\ admin.b = b
       ELSE Forfeited(b)]_vars

\* Liveness, without faults.  "Finds bookings stuck in PAYMENT_IN_PROGRESS": no
\* booking stays in payment for ever, also when its webhook is refused for
\* want of a tenantId and whatever the other writers do to it meanwhile.
InProgressResolves ==
  \A b \in Bookings : row[b].status = "PAYMENT_IN_PROGRESS"
                        ~> row[b].status # "PAYMENT_IN_PROGRESS"

\* Liveness.  "flag REFUND_REQUIRED, and successfully trigger Razorpay API
\* refund": a refund that the ledger calls initiated is asked for.
LatePaymentRefunded ==
  \A o \in Orders : "REFUND_INITIATED" \in ledger[o].refund ~> gateway[o].refund # "none"
=============================================================================
