------------------------------ MODULE Checkout ------------------------------
(***************************************************************************)
(* Paying for one booking: the checkout page of the web client in one or   *)
(* several tabs (frontend checkout/page.tsx), the discounts                *)
(* (discount/discount.service.ts), the price and the order                 *)
(* (pricing/pricing.service.ts, createRazorpayOrder), and the              *)
(* reconciliation of a payment (payments-reconciliation.service.ts).       *)
(* Amounts are paise.  A step is the code between two awaited calls; the   *)
(* rows of coupons and gift cards are only read by this code, and are      *)
(* constants.                                                              *)
(***************************************************************************)
EXTENDS Integers, FiniteSets

Sets == INSTANCE FiniteSetsExt

CONSTANTS
  Pages,           \* tabs that show the checkout of the booking
  Settlers,        \* calls of reconcileBooking
  NoOrderYet,
  SeatPrice, SeatCount, FixedFee, ServicePercent,
  CouponPercent, MaxDiscount, \* the coupon: PERCENTAGE, capped
  GiftBalance,
  Inexact,         \* amounts whose rupees times 100 is not an integer in floats
  MaxOrders,       \* bound: orders created at Razorpay
  MaxAsked,        \* bound: requests and calls begun
  CheckoutFaults   \* bound: calls that throw and handlers that die

Orders == 1 .. MaxOrders
Discounts == {"coupon", "gift"}

ASSUME CheckoutAssumption ==
  /\ NoOrderYet \notin Orders
  /\ {SeatPrice, SeatCount, FixedFee, GiftBalance} \subseteq Nat \ {0}
  /\ {ServicePercent, CouponPercent, MaxDiscount, MaxOrders, MaxAsked, CheckoutFaults}
       \subseteq Nat
  /\ CouponPercent <= 100

VARIABLES cart,      \* the Booking row
          page,      \* what each tab holds
          apply,     \* POST /discounts/apply, per tab and button
          order,     \* POST /payments/create-order, per tab
          razorpay,  \* Orders -> amount, and whether it was paid
          settle,    \* reconcileBooking
          paymentLog,\* Orders -> the PaymentLog row of its payment
          revenue,   \* the tenant's monthlyRevenue
          raced,     \* history: a discount was applied beside another request
          twin,      \* history: two orders were asked for at once
          aged,      \* history: tabs that lack a discount another tab applied
          asked,     \* requests and calls begun
          checkoutFaults

checkoutVars == <<cart, page, apply, order, razorpay, settle, paymentLog,
                  revenue, raced, twin, aged, asked, checkoutFaults>>
-----------------------------------------------------------------------------
(* Amounts.  Rounding is half up, and no amount is negative.               *)

Percent(n, p) == (n * p + 50) \div 100
Lesser(a, b) == IF a < b THEN a ELSE b

\* calculateTotal: the fee of every seat, the service fee of the price alone.
Quote == LET base == SeatPrice * SeatCount
         IN  base + FixedFee * SeatCount + Percent(base, ServicePercent)

CouponOff(total) == Lesser(Percent(total, CouponPercent), MaxDiscount)
GiftOff(rest) == Lesser(GiftBalance, rest)

\* Mutant of Charge: the order takes the total
ChargeTotal(c) == c.total

\* createRazorpayOrder: finalAmount only when a discount was applied.
Charge(c) == IF c.discount > 0 THEN c.final ELSE c.total

Amounts == 0 .. Quote

Carts ==
  [status : {"LOCKED", "PAYMENT_IN_PROGRESS", "CONFIRMED", "FAILED"},
   total : Amounts, coupon : BOOLEAN, gift : BOOLEAN, couponOff : Amounts,
   giftOff : Amounts, discount : Amounts, final : Amounts,
   order : Orders \cup {NoOrderYet}]
PageStates == [ready : BOOLEAN, total : Amounts, shown : Amounts, got : SUBSET Discounts,
         locked : BOOLEAN, busy : BOOLEAN, modal : Orders \cup {NoOrderYet}]
Applies == [pc : {"idle", "write", "answer"}, off : Amounts, final : Amounts]
Orderings == [pc : {"idle", "price", "create", "update"}, charge : Amounts,
              o : Orders \cup {NoOrderYet}]
Settlements == [pc : {"idle", "booking", "fetch", "write", "done"},
                o : Orders \cup {NoOrderYet}, final : Amounts, ok : BOOLEAN]

CheckoutTypeOK ==
  /\ cart \in Carts /\ page \in [Pages -> PageStates]
  /\ apply \in [Pages \X Discounts -> Applies] /\ order \in [Pages -> Orderings]
  /\ razorpay \in [Orders -> [amount : Amounts, state : {"none", "created", "paid"}]]
  /\ settle \in [Settlers -> Settlements]
  /\ paymentLog \in [Orders -> {"none", "VERIFIED", "MISMATCH"}]
  /\ revenue \in Nat
  /\ raced \in BOOLEAN /\ twin \in BOOLEAN /\ aged \subseteq Pages
  /\ asked \in 0 .. MaxAsked
  /\ checkoutFaults \in 0 .. CheckoutFaults

IdleApply == [pc |-> "idle", off |-> 0, final |-> 0]

\* The total is stored when the seats are locked, or left to the order; and
\* finalAmount is the column's default until a discount is applied, or a copy
\* of the total.
CheckoutInit ==
  /\ cart \in {[status |-> "LOCKED", total |-> t, coupon |-> FALSE,
                gift |-> FALSE, couponOff |-> 0, giftOff |-> 0, discount |-> 0,
                final |-> f, order |-> NoOrderYet] : t, f \in {0, Quote}}
  /\ cart.final <= cart.total
  /\ page = [p \in Pages |-> [ready |-> FALSE, total |-> 0, shown |-> 0,
                              got |-> {}, locked |-> FALSE, busy |-> FALSE,
                              modal |-> NoOrderYet]]
  /\ apply = [x \in Pages \X Discounts |-> IdleApply]
  /\ order = [p \in Pages |-> [pc |-> "idle", charge |-> 0, o |-> NoOrderYet]]
  /\ razorpay = [o \in Orders |-> [amount |-> 0, state |-> "none"]]
  /\ settle = [s \in Settlers |-> [pc |-> "idle", o |-> NoOrderYet, final |-> 0,
                                   ok |-> FALSE]]
  /\ paymentLog = [o \in Orders |-> "none"]
  /\ revenue = 0 /\ raced = FALSE /\ twin = FALSE /\ aged = {}
  /\ asked = 0 /\ checkoutFaults = 0

\* A request begins; a fault, which counts as one.
Ask == asked < MaxAsked /\ asked' = asked + 1

Fault == Ask /\ checkoutFaults < CheckoutFaults /\ checkoutFaults' = checkoutFaults + 1
-----------------------------------------------------------------------------
(* The page and its discounts.                                             *)

\* fetchBooking; a tab that is reloaded counts as another.  A total of zero is
\* shown as the sum of the seats, and a discount applied before is taken over,
\* not the lock: nothing writes the column it is read from.
PageLoad(p) ==
  /\ ~page[p].ready
  /\ page' = [page EXCEPT ![p] =
       [@ EXCEPT !.ready = TRUE,
                 !.total = cart.total,
                 !.shown = IF cart.discount > 0 THEN cart.final
                           ELSE IF cart.total > 0 THEN cart.total
                           ELSE SeatPrice * SeatCount,
                 !.got = IF cart.discount > 0
                           THEN {k \in Discounts : (k = "coupon" /\ cart.couponOff > 0)
                                            \/ (k = "gift" /\ cart.giftOff > 0)}
                           ELSE {}]]
  /\ aged' = aged \ {p}
  /\ UNCHANGED <<cart, apply, order, razorpay, settle, paymentLog, revenue,
                 raced, twin, asked, checkoutFaults>>

\* The tests of applyDiscounts on the row it reads.
Discountable(k) ==
  /\ cart.status = "LOCKED" /\ cart.order = NoOrderYet
  /\ k = "coupon" => ~cart.coupon
  /\ k = "gift" => ~cart.gift

\* The button is pressed and the row read.  What the request takes off is
\* worked out from the total alone: an earlier discount is not considered.
\* A refusal changes nothing.
ApplyRead(p, k) ==
  /\ Ask
  /\ page[p].ready /\ ~page[p].locked /\ k \notin page[p].got
  /\ apply[<<p, k>>].pc = "idle"
  /\ Discountable(k)
  /\ LET off == IF k = "coupon" THEN CouponOff(cart.total) ELSE GiftOff(cart.total)
     IN  apply' = [apply EXCEPT ![<<p, k>>] =
                     [pc |-> "write", off |-> off, final |-> cart.total - off]]
  /\ UNCHANGED <<cart, page, order, razorpay, settle, paymentLog, revenue,
                 raced, twin, aged, checkoutFaults>>

\* Mutant of Discounted: what the other kind took off stays in its column
DiscountedBeside(k, off, final) ==
  [cart EXCEPT !.couponOff = IF k = "coupon" THEN off ELSE @,
               !.giftOff = IF k = "gift" THEN off ELSE @,
               !.discount = off, !.final = final,
               !.coupon = @ \/ k = "coupon", !.gift = @ \/ k = "gift"]

Discounted(k, off, final) ==
  [cart EXCEPT !.couponOff = IF k = "coupon" THEN off ELSE 0,
               !.giftOff = IF k = "gift" THEN off ELSE 0,
               !.discount = off, !.final = final,
               !.coupon = @ \/ k = "coupon", !.gift = @ \/ k = "gift"]

\* Another request of this booking is under way, or has made an order.
Alone(p, k) ==
  /\ cart.order = NoOrderYet
  /\ \A q \in Pages : order[q].pc = "idle"
  /\ \A x \in (Pages \X Discounts) \ {<<p, k>>} : apply[x].pc = "idle"

\* booking.update by id.
ApplyWrite(p, k) ==
  LET a == apply[<<p, k>>]
  IN  /\ a.pc = "write"
      /\ cart' = Discounted(k, a.off, a.final)
      /\ apply' = [apply EXCEPT ![<<p, k>>].pc = "answer"]
      /\ raced' = (raced \/ ~Alone(p, k))
      /\ aged' = aged \cup (Pages \ {p})
      /\ UNCHANGED <<page, order, razorpay, settle, paymentLog, revenue, twin,
                     asked, checkoutFaults>>

\* setDiscount with the answer: it shows one kind of discount.
ApplyAnswer(p, k) ==
  LET a == apply[<<p, k>>]
  IN  /\ a.pc = "answer"
      /\ page' = [page EXCEPT ![p].shown = a.final,
                              ![p].got = IF a.off > 0 THEN {k} ELSE {}]
      /\ apply' = [apply EXCEPT ![<<p, k>>] = IdleApply]
      /\ UNCHANGED <<cart, order, razorpay, settle, paymentLog, revenue, raced, twin,
                     aged, asked, checkoutFaults>>

ApplyFails(p, k) ==
  /\ apply[<<p, k>>].pc # "idle"
  /\ Fault
  /\ apply' = [apply EXCEPT ![<<p, k>>] = IdleApply]
  /\ aged' = aged \cup {p}
  /\ UNCHANGED <<cart, page, order, razorpay, settle, paymentLog, revenue, raced, twin>>
-----------------------------------------------------------------------------
(* handlePay and createRazorpayOrder                                       *)

SetOrder(p, pc, charge, o) ==
  order' = [order EXCEPT ![p] = [pc |-> pc, charge |-> charge, o |-> o]]

\* Mutant of Orderable: a booking that waits for a payment is ordered again
OrderableUnpaid == cart.status # "CONFIRMED"

\* The status createRazorpayOrder demands
Orderable == cart.status = "LOCKED"

\* The booking is read; a total of zero is priced first.
PayRead(p) ==
  /\ Ask
  /\ page[p].ready /\ ~page[p].busy /\ order[p].pc = "idle"
  /\ Orderable
  /\ page' = [page EXCEPT ![p].busy = TRUE]
  /\ IF cart.total = 0 THEN SetOrder(p, "price", 0, NoOrderYet)
                       ELSE SetOrder(p, "create", Charge(cart), NoOrderYet)
  /\ raced' = (raced \/ \E x \in Pages \X Discounts : apply[x].pc # "idle")
  /\ twin' = (twin \/ \E q \in Pages : order[q].pc # "idle")
  /\ UNCHANGED <<cart, apply, razorpay, settle, paymentLog, revenue, aged,
                 checkoutFaults>>

\* The total is stored; the discount is the one that was read.
PayPrice(p) ==
  /\ order[p].pc = "price"
  /\ cart' = [cart EXCEPT !.total = Quote]
  /\ SetOrder(p, "create", Quote, NoOrderYet)
  /\ UNCHANGED <<page, apply, razorpay, settle, paymentLog, revenue, raced, twin, aged,
                 asked, checkoutFaults>>

\* razorpay.orders.create.
PayCreate(p, o) ==
  /\ order[p].pc = "create" /\ order[p].charge > 0
  /\ razorpay[o].state = "none" /\ \A q \in 1 .. o - 1 : razorpay[q].state # "none"
  /\ razorpay' = [razorpay EXCEPT ![o] = [amount |-> order[p].charge,
                                          state |-> "created"]]
  /\ SetOrder(p, "update", order[p].charge, o)
  /\ UNCHANGED <<cart, page, apply, settle, paymentLog, revenue, raced, twin, aged,
                 asked, checkoutFaults>>

\* The booking is updated by id and answered: the modal opens.
PayUpdate(p) ==
  LET o == order[p].o
  IN  /\ order[p].pc = "update"
      /\ cart' = [cart EXCEPT !.order = o, !.status = "PAYMENT_IN_PROGRESS"]
      /\ page' = [page EXCEPT ![p].locked = TRUE, ![p].modal = o]
      /\ SetOrder(p, "idle", 0, NoOrderYet)
      /\ UNCHANGED <<apply, razorpay, settle, paymentLog, revenue, raced, twin, aged,
                     asked, checkoutFaults>>

\* A call throws, or Razorpay takes no order of nothing: the page may try again.
PayFails(p) ==
  /\ order[p].pc # "idle"
  /\ \/ order[p].pc = "create" /\ order[p].charge = 0 /\ UNCHANGED <<asked, checkoutFaults>>
     \/ Fault
  /\ SetOrder(p, "idle", 0, NoOrderYet)
  /\ page' = [page EXCEPT ![p].busy = FALSE]
  /\ UNCHANGED <<cart, apply, razorpay, settle, paymentLog, revenue, raced, twin, aged>>

\* ondismiss, or payment.failed.
ModalCloses(p) ==
  /\ page[p].modal # NoOrderYet
  /\ page' = [page EXCEPT ![p].modal = NoOrderYet, ![p].busy = FALSE]
  /\ UNCHANGED <<cart, apply, order, razorpay, settle, paymentLog, revenue, raced, twin,
                 aged, asked, checkoutFaults>>

\* The client pays what the modal asks for.
ModalPays(p) ==
  LET o == page[p].modal
  IN  /\ o # NoOrderYet /\ razorpay[o].state = "created"
      /\ razorpay' = [razorpay EXCEPT ![o].state = "paid"]
      /\ UNCHANGED <<cart, page, apply, order, settle, paymentLog, revenue, raced, twin,
                     aged, asked, checkoutFaults>>
-----------------------------------------------------------------------------
(* reconcileBooking                                                        *)

SetSettle(s, state) == settle' = [settle EXCEPT ![s] = state]

\* What a call that is over leaves.
Settled == [pc |-> "done", o |-> NoOrderYet, final |-> 0, ok |-> FALSE]

\* A payment is handed in, any number of times, and looked up in the log.
SettleStart(s, o) ==
  /\ Ask
  /\ settle[s].pc = "idle" /\ razorpay[o].state = "paid"
  /\ SetSettle(s, IF paymentLog[o] = "none"
                    THEN [settle[s] EXCEPT !.o = o, !.pc = "booking"] ELSE Settled)
  /\ UNCHANGED <<cart, page, apply, order, razorpay, paymentLog, revenue, raced, twin,
                 aged, checkoutFaults>>

SettleBooking(s) ==
  /\ settle[s].pc = "booking"
  /\ SetSettle(s, [settle[s] EXCEPT !.pc = "fetch", !.final = cart.final])
  /\ UNCHANGED <<cart, page, apply, order, razorpay, paymentLog, revenue, raced, twin,
                 aged, asked, checkoutFaults>>

\* verifyPayment compares the captured amount with finalAmount in floats; a
\* call of Razorpay that throws counts as a mismatch.
Verified(s) ==
  razorpay[settle[s].o].amount = settle[s].final /\ settle[s].final \notin Inexact

SettleVerify(s) ==
  /\ settle[s].pc = "fetch"
  /\ \/ /\ SetSettle(s, [settle[s] EXCEPT !.pc = "write", !.ok = Verified(s)])
        /\ UNCHANGED <<asked, checkoutFaults>>
     \/ /\ Fault
        /\ SetSettle(s, [settle[s] EXCEPT !.pc = "write", !.ok = FALSE])
  /\ UNCHANGED <<cart, page, apply, order, razorpay, paymentLog, revenue, raced, twin, aged>>

\* Mutant of SettleWrite: the id of the payment is not unique in the log
SettleWriteAgain(s) ==
  LET o == settle[s].o
      ok == settle[s].ok
  IN  /\ settle[s].pc = "write"
      /\ SetSettle(s, Settled)
      /\ paymentLog' = [paymentLog EXCEPT ![o] = IF ok THEN "VERIFIED" ELSE "MISMATCH"]
      /\ cart' = [cart EXCEPT !.status = IF ok THEN "CONFIRMED" ELSE "FAILED"]
      /\ revenue' = IF ok THEN revenue + settle[s].final ELSE revenue
      /\ UNCHANGED <<page, apply, order, razorpay, raced, twin, aged, asked, checkoutFaults>>

\* The transaction: log, booking and revenue, or nothing when another call has
\* logged the payment meanwhile (its id is unique).
SettleWrite(s) ==
  LET o == settle[s].o
      ok == settle[s].ok
  IN  /\ settle[s].pc = "write"
      /\ SetSettle(s, Settled)
      /\ IF paymentLog[o] = "none"
           THEN /\ paymentLog' = [paymentLog EXCEPT ![o] = IF ok THEN "VERIFIED"
                                                                ELSE "MISMATCH"]
                /\ cart' = [cart EXCEPT !.status = IF ok THEN "CONFIRMED" ELSE "FAILED"]
                /\ revenue' = IF ok THEN revenue + settle[s].final ELSE revenue
           ELSE UNCHANGED <<paymentLog, cart, revenue>>
      /\ UNCHANGED <<page, apply, order, razorpay, raced, twin, aged, asked, checkoutFaults>>

\* The call throws or its process dies before the transaction.
SettleDies(s) ==
  /\ settle[s].pc \in {"booking", "write"}
  /\ Fault
  /\ SetSettle(s, Settled)
  /\ UNCHANGED <<cart, page, apply, order, razorpay, paymentLog, revenue, raced, twin, aged>>
-----------------------------------------------------------------------------
ApplyStep(p, k) ==
  ApplyRead(p, k) \/ ApplyWrite(p, k) \/ ApplyAnswer(p, k) \/ ApplyFails(p, k)

PayStep(p) ==
  \/ PayRead(p) \/ PayPrice(p) \/ PayUpdate(p) \/ PayFails(p)
  \/ \E o \in Orders : PayCreate(p, o)

SettleStep(s) ==
  \/ \E o \in Orders : SettleStart(s, o)
  \/ SettleBooking(s) \/ SettleVerify(s) \/ SettleWrite(s) \/ SettleDies(s)

CheckoutNext ==
  \/ \E p \in Pages : \/ PageLoad(p) \/ PayStep(p)
                      \/ ModalCloses(p) \/ ModalPays(p)
                      \/ \E k \in Discounts : ApplyStep(p, k)
  \/ \E s \in Settlers : SettleStep(s)

CheckoutSpec == CheckoutInit /\ [][CheckoutNext]_checkoutVars
-----------------------------------------------------------------------------
(* Properties                                                              *)

\* What the page shows when the client is asked to pay is what is charged,
\* unless a discount was applied beside another request or in another tab, or
\* the page had no total to show.  The two requests of the page are answered in
\* any order, and the order works on the row it read.
ShownIsCharged ==
  \A p \in Pages : LET o == page[p].modal
                   IN  \/ o = NoOrderYet \/ raced \/ p \in aged \/ page[p].total = 0
                       \/ razorpay[o].amount = page[p].shown

\* The amounts of the row belong together whoever wrote last: a discount never
\* counts twice, and none is charged in full.
AmountsAddUp ==
  /\ cart.discount = cart.couponOff + cart.giftOff
  /\ cart.discount > 0 => cart.final + cart.discount = cart.total

\* A booking that was paid for is marked FAILED only after a race of a discount
\* with an order, a call of Razorpay that failed, an amount that floats do not
\* hold, or when finalAmount was never written.
PaidFailedCause ==
  \A o \in Orders : paymentLog[o] = "MISMATCH"
    => \/ raced \/ checkoutFaults > 0
       \/ razorpay[o].amount \in Inexact \/ cart.final = 0

\* The tenant's revenue is what was received and verified, however often and
\* however concurrently a payment is handed in.
RevenueIsReceived ==
  revenue = Sets!MapThenSumSet(LAMBDA o : razorpay[o].amount,
                               {o \in Orders : paymentLog[o] = "VERIFIED"})

\* A confirmed booking changes its status again only when two orders were asked
\* for at once: then the second order, its payment or its mismatch overwrites
\* CONFIRMED, and the client may have paid twice.
ConfirmedStays ==
  [][cart.status = "CONFIRMED" /\ cart'.status # "CONFIRMED" => twin]_checkoutVars

\* A client is asked to pay a second order of the booking, and pays it, only if
\* the two were asked for at once, from two tabs: neither sees the other's order.
PaidTwiceOnlyByTwins ==
  \A o, q \in Orders : {razorpay[o].state, razorpay[q].state} = {"paid"}
                          => o = q \/ twin
=============================================================================
