--------------------------- MODULE CheckoutProofs ---------------------------
(***************************************************************************)
(* What paying for a booking keeps, for any number of tabs, of calls of    *)
(* reconcileBooking, of orders and of requests, and for any prices: what   *)
(* the client is charged, how the row's amounts belong together, why a     *)
(* paid booking may be FAILED or paid twice, and what the tenant's         *)
(* revenue is.                                                             *)
(***************************************************************************)
EXTENDS Checkout, FiniteSetTheorems, WellFoundedInduction, TLAPS

(* The inductive invariant, part by part.                                  *)

\* The tab's create-order request is under way.
InProgress(p) == order[p].pc # "idle"

\* The row: the total is unset or the quote, and its amounts add up.
RowKept ==
  /\ cart.total \in {0, Quote}
  /\ AmountsAddUp
  /\ cart.discount > 0 => cart.total = Quote
  /\ cart.discount = 0 => cart.final \in {0, Quote}

\* applyDiscounts between its read and its answer: what it takes off and leaves
\* make the quote, whatever the row says now.
ApplyKept(p, k) ==
  LET a == apply[<<p, k>>]
  IN  a.pc # "idle" =>
        /\ page[p].ready
        /\ a.off > 0 => cart.total = Quote /\ a.off + a.final = Quote
        /\ a.off = 0 => a.final \in {0, Quote}
        /\ a.off = 0 /\ page[p].total # 0 => a.final = Quote

\* A tab: its total is the row's or was zero, it asks for nothing before it is
\* loaded, and a modal that is open is for an order of this booking.
PageKept(p) ==
  /\ page[p].total \in {0, cart.total}
  /\ ~page[p].ready => page[p].modal = NoOrderYet /\ ~InProgress(p)
  /\ page[p].modal # NoOrderYet =>
       razorpay[page[p].modal].state # "none" /\ cart.order # NoOrderYet

\* createRazorpayOrder between its steps: what it charges is what the order it has
\* made at Razorpay asks for.
OrderKept(p) ==
  /\ order[p].pc \in {"create", "update"} => cart.total = Quote
  /\ order[p].pc = "update" =>
       /\ order[p].o \in Orders /\ razorpay[order[p].o].state # "none"
       /\ razorpay[order[p].o].amount = order[p].charge

\* The status says whether the row has an order; only orders are paid, and only
\* payments logged.
BookingKept ==
  /\ cart.status = "LOCKED" <=> cart.order = NoOrderYet
  /\ cart.order # NoOrderYet => cart.total = Quote
  /\ \A o \in Orders : razorpay[o].state = "paid" => cart.order # NoOrderYet
  /\ \A o \in Orders : paymentLog[o] # "none" => razorpay[o].state = "paid"

\* reconcileBooking works on a payment that was made; when it found the amounts
\* equal, what it will add to the revenue is what was paid.
SettleKept(s) ==
  settle[s].pc \in {"booking", "fetch", "write"} =>
    /\ settle[s].o \in Orders /\ razorpay[settle[s].o].state = "paid"
    /\ settle[s].pc = "write" /\ settle[s].ok
         => settle[s].final = razorpay[settle[s].o].amount

\* While no discount has raced, every order under way, open or paid asks for what
\* the row says, and no discount is half applied beside an order.
ChargeKept ==
  ~raced =>
    /\ \A p \in Pages : 
         /\ order[p].pc = "price" => cart.discount = 0
         /\ order[p].pc \in {"create", "update"} => order[p].charge = Charge(cart)
         /\ page[p].modal # NoOrderYet => razorpay[page[p].modal].amount = Charge(cart)
         /\ InProgress(p) \/ cart.order # NoOrderYet =>
               \A x \in Pages \X Discounts : apply[x].pc # "answer"
    /\ \A o \in Orders : razorpay[o].state = "paid" => razorpay[o].amount = Charge(cart)

\* While no discount has raced, a tab that has heard of every discount shows the
\* charge of the row, or is about to.
ShownKept ==
  ~raced =>
    \A p \in Pages : page[p].ready /\ page[p].total # 0 /\ p \notin aged =>
      /\ \A k \in Discounts : apply[<<p, k>>].pc = "answer" => apply[<<p, k>>].final = Charge(cart)
      /\ \/ \E k \in Discounts : apply[<<p, k>>].pc = "answer"
         \/ page[p].shown = Charge(cart)

\* While no discount has raced and no call failed, a call that found a mismatch
\* did so for floats or for a finalAmount that was never written.
CauseKept ==
  ~raced /\ checkoutFaults = 0 =>
    /\ \A s \in Settlers :
         /\ settle[s].pc \in {"fetch", "write"} => settle[s].final = cart.final
         /\ settle[s].pc = "write" /\ ~settle[s].ok
              => razorpay[settle[s].o].amount \in Inexact \/ cart.final = 0
    /\ \A o \in Orders : paymentLog[o] = "MISMATCH"
              => razorpay[o].amount \in Inexact \/ cart.final = 0

\* While no two orders were asked for at once, the row knows the one order there is.
OnceKept ==
  ~twin =>
    /\ \A p, q \in Pages : InProgress(p) /\ InProgress(q) => p = q
    /\ \A p \in Pages : InProgress(p) => cart.status = "LOCKED"
    /\ \A p \in Pages : page[p].modal \in {NoOrderYet, cart.order}
    /\ \A o \in Orders : razorpay[o].state = "paid" => o = cart.order
    /\ cart.status \in {"CONFIRMED", "FAILED"} => paymentLog[cart.order] # "none"

\* The part about requests for a discount, for all of them.
AppliesKept == \A p \in Pages : \A k \in Discounts : ApplyKept(p, k)

\* The part about tabs, for all of them.
PagesKept == \A p \in Pages : PageKept(p)

\* The part about requests for an order, for all of them.
OrdersKept == \A p \in Pages : OrderKept(p)

\* The part about calls of reconcileBooking, for all of them.
SettlesKept == \A s \in Settlers : SettleKept(s)

\* The parts of the invariant beside the types.
Kept ==
  /\ RowKept /\ AppliesKept /\ PagesKept /\ OrdersKept /\ BookingKept
  /\ SettlesKept /\ ChargeKept /\ ShownKept /\ CauseKept /\ OnceKept
-----------------------------------------------------------------------------
(* Amounts.                                                                *)

\* Products of naturals: the provers need the fact as a lemma.
LEMMA ProductGrows ==
  ASSUME NEW a \in Nat, NEW b \in Nat, NEW c \in Nat, b <= c
  PROVE  a * b \in Nat /\ a * b <= a * c
OBVIOUS

\* The product of two positive numbers is positive.
LEMMA ProductPositive ==
  ASSUME NEW a \in Nat \ {0}, NEW b \in Nat \ {0}
  PROVE  a * b \in Nat \ {0}
<1>1. a * 1 <= a * b
  BY ProductGrows
<1> QED
  BY <1>1

\* calculateTotal and applyDiscounts: a rounded percentage of at most 100 is no
\* more than the amount.
LEMMA PercentBounds ==
  ASSUME NEW n \in Nat, NEW p \in Nat
  PROVE  /\ Percent(n, p) \in Nat
         /\ p <= 100 => Percent(n, p) <= n
<1> DEFINE m == n * p
<1>1. m \in Nat
  OBVIOUS
<1>2. p <= 100 => m <= n * 100
  BY ProductGrows
<1> HIDE DEF m
<1>3. (m + 50) \div 100 \in Nat
  BY <1>1
<1>4. m <= n * 100 => (m + 50) \div 100 <= n
  BY <1>1
<1> QED
  BY <1>2, <1>3, <1>4 DEF Percent, m

\* pricing.service.ts calculateTotal: the quote is positive and no less than the
\* price of the seats.
LEMMA QuoteBounds ==
  /\ Quote \in Nat \ {0} /\ SeatPrice * SeatCount \in Amounts
  /\ 0 \in Amounts /\ Quote \in Amounts
<1> DEFINE base == SeatPrice * SeatCount
           fees == FixedFee * SeatCount
<1>1. base \in Nat \ {0} /\ fees \in Nat \ {0}
  BY ProductPositive, CheckoutAssumption
<1>2. Percent(base, ServicePercent) \in Nat
  BY <1>1, PercentBounds, CheckoutAssumption
<1>3. Quote = base + fees + Percent(base, ServicePercent)
  BY DEF Quote
<1> HIDE DEF base, fees
<1>4. Quote \in Nat \ {0} /\ base \in 0 .. Quote
  BY <1>1, <1>2, <1>3
<1> QED
  BY <1>4 DEF Amounts, base

\* discount.service.ts: neither kind takes off more than there is.
LEMMA OffBounds ==
  ASSUME NEW t \in Nat
  PROVE  CouponOff(t) \in 0 .. t /\ GiftOff(t) \in 0 .. t
<1>1. CouponPercent \in Nat /\ CouponPercent <= 100
  BY CheckoutAssumption
<1>2. Percent(t, CouponPercent) \in Nat /\ Percent(t, CouponPercent) <= t
  BY <1>1, PercentBounds
<1> QED
  BY <1>2, CheckoutAssumption DEF CouponOff, GiftOff, Lesser
-----------------------------------------------------------------------------
(* Types.                                                                  *)

\* The variables have their types at the beginning.
LEMMA CheckoutTypeBegins == CheckoutInit => CheckoutTypeOK
<1> SUFFICES ASSUME CheckoutInit
             PROVE  CheckoutTypeOK
  OBVIOUS
<1> USE CheckoutAssumption, QuoteBounds DEF CheckoutInit
<1>1. cart \in Carts
  <2>1. PICK t \in {0, Quote}, f \in {0, Quote} :
          cart = [status |-> "LOCKED", total |-> t, coupon |-> FALSE,
                  gift |-> FALSE, couponOff |-> 0, giftOff |-> 0, discount |-> 0,
                  final |-> f, order |-> NoOrderYet]
    OBVIOUS
  <2> QED
    BY <2>1 DEF Carts
<1>2. page \in [Pages -> PageStates]
  BY DEF PageStates
<1>3. apply \in [Pages \X Discounts -> Applies]
  BY DEF Applies, IdleApply
<1>4. order \in [Pages -> Orderings]
  BY DEF Orderings
<1>5. settle \in [Settlers -> Settlements]
  BY DEF Settlements
<1>6. paymentLog \in [Orders -> {"none", "VERIFIED", "MISMATCH"}]
  OBVIOUS
<1>7. razorpay \in [Orders -> [amount : Amounts, state : {"none", "created", "paid"}]]
  OBVIOUS
<1>8. /\ revenue \in Nat /\ raced \in BOOLEAN /\ twin \in BOOLEAN /\ aged \subseteq Pages
      /\ asked \in 0 .. MaxAsked /\ checkoutFaults \in 0 .. CheckoutFaults
  <2>1. MaxAsked \in Nat /\ CheckoutFaults \in Nat
    BY CheckoutAssumption
  <2>2. revenue = 0 /\ raced = FALSE /\ twin = FALSE /\ aged = {}
        /\ asked = 0 /\ checkoutFaults = 0
    BY DEF CheckoutInit
  <2>3. asked \in 0 .. MaxAsked /\ checkoutFaults \in 0 .. CheckoutFaults
    BY <2>1, <2>2
  <2>4. raced \in BOOLEAN /\ twin \in BOOLEAN
    BY <2>2
  <2>5. revenue \in Nat /\ aged \subseteq Pages
    BY <2>2
  <2> QED
    BY <2>3, <2>4, <2>5
<1> QED
  BY <1>1, <1>2, <1>3, <1>4, <1>5, <1>6, <1>7, <1>8 DEF CheckoutTypeOK

\* The variables have their types after a step of a discount.
LEMMA ApplyKeepsType ==
  ASSUME CheckoutTypeOK, NEW p \in Pages, NEW k \in Discounts, ApplyStep(p, k)
  PROVE  CheckoutTypeOK'
<1> USE CheckoutAssumption, QuoteBounds DEF CheckoutTypeOK
<1>1. CASE ApplyRead(p, k)
  <2> DEFINE off == IF k = "coupon" THEN CouponOff(cart.total) ELSE GiftOff(cart.total)
             a == [pc |-> "write", off |-> off, final |-> cart.total - off]
  <2>1. off \in 0 .. cart.total /\ cart.total \in 0 .. Quote
    BY OffBounds DEF Amounts, Carts
  <2>2. a \in Applies
    BY <2>1 DEF Amounts, Applies
  <2>3. /\ apply' = [apply EXCEPT ![<<p, k>>] = a]
        /\ asked' \in 0 .. MaxAsked
        /\ UNCHANGED <<cart, page, order, razorpay, settle, paymentLog, revenue,
                 raced, twin, aged, checkoutFaults>>
    BY <1>1 DEF ApplyRead, Ask
  <2> HIDE DEF a
  <2>4. apply' \in [Pages \X Discounts -> Applies]
    BY <2>2, <2>3
  <2> QED
    BY <2>3, <2>4
<1>2. CASE ApplyWrite(p, k)
  <2>1. cart' \in Carts
    BY <1>2 DEF ApplyWrite, Discounted, Carts, Applies
  <2>2. apply' \in [Pages \X Discounts -> Applies]
    BY <1>2 DEF ApplyWrite, Applies
  <2> QED
    BY <1>2, <2>1, <2>2 DEF ApplyWrite
<1>3. CASE ApplyAnswer(p, k)
  <2>1. page' \in [Pages -> PageStates]
    <3> DEFINE t == [page[p] EXCEPT !.shown = apply[<<p, k>>].final,
                                !.got = IF apply[<<p, k>>].off > 0 THEN {k} ELSE {}]
    <3>1. page[p] \in PageStates
      OBVIOUS
    <3>2. t \in PageStates
      BY <1>3, <3>1 DEF ApplyAnswer, PageStates, Applies
    <3>3. page' = [page EXCEPT ![p] = t]
      BY <1>3 DEF ApplyAnswer
    <3> QED
      BY <3>2, <3>3
  <2>2. apply' \in [Pages \X Discounts -> Applies]
    BY <1>3 DEF ApplyAnswer, Applies, IdleApply
  <2> QED
    BY <1>3, <2>1, <2>2 DEF ApplyAnswer
<1>4. CASE ApplyFails(p, k)
  BY <1>4 DEF ApplyFails, IdleApply, Applies, Fault, Ask
<1> QED
  BY <1>1, <1>2, <1>3, <1>4 DEF ApplyStep

\* The variables have their types after a step of createRazorpayOrder.
LEMMA PayKeepsType ==
  ASSUME CheckoutTypeOK, NEW p \in Pages, PayStep(p)
  PROVE  CheckoutTypeOK'
<1> USE CheckoutAssumption, QuoteBounds DEF CheckoutTypeOK
<1>1. CASE PayRead(p)
  <2>1. page' \in [Pages -> PageStates]
    <3> DEFINE t == [page[p] EXCEPT !.busy = TRUE]
    <3>1. page[p] \in PageStates
      OBVIOUS
    <3>2. t \in PageStates
      BY <1>1, <3>1 DEF PayRead, PageStates
    <3>3. page' = [page EXCEPT ![p] = t]
      BY <1>1 DEF PayRead
    <3> QED
      BY <3>2, <3>3
  <2>2. order' \in [Pages -> Orderings]
    BY <1>1 DEF PayRead, SetOrder, Orderings, Charge, Carts
  <2> QED
    BY <1>1, <2>1, <2>2 DEF PayRead, Ask
<1>2. CASE PayPrice(p)
  <2>1. cart' \in Carts
    BY <1>2 DEF PayPrice, Carts
  <2>2. order' \in [Pages -> Orderings]
    BY <1>2 DEF PayPrice, SetOrder, Orderings
  <2> QED
    BY <1>2, <2>1, <2>2 DEF PayPrice
<1>3. CASE PayUpdate(p)
  <2>1. cart' \in Carts
    BY <1>3 DEF PayUpdate, Carts, Orderings
  <2>2. page' \in [Pages -> PageStates]
    <3> DEFINE t == [page[p] EXCEPT !.locked = TRUE, !.modal = order[p].o]
    <3>1. page[p] \in PageStates
      OBVIOUS
    <3>2. t \in PageStates
      BY <1>3, <3>1 DEF PayUpdate, PageStates, Orderings
    <3>3. page' = [page EXCEPT ![p] = t]
      BY <1>3 DEF PayUpdate
    <3> QED
      BY <3>2, <3>3
  <2>3. order' \in [Pages -> Orderings]
    BY <1>3 DEF PayUpdate, SetOrder, Orderings
  <2> QED
    BY <1>3, <2>1, <2>2, <2>3 DEF PayUpdate
<1>4. CASE PayFails(p)
  <2>1. page' \in [Pages -> PageStates]
    <3> DEFINE t == [page[p] EXCEPT !.busy = FALSE]
    <3>1. page[p] \in PageStates
      OBVIOUS
    <3>2. t \in PageStates
      BY <1>4, <3>1 DEF PayFails, PageStates
    <3>3. page' = [page EXCEPT ![p] = t]
      BY <1>4 DEF PayFails
    <3> QED
      BY <3>2, <3>3
  <2>2. order' \in [Pages -> Orderings]
    BY <1>4 DEF PayFails, SetOrder, Orderings
  <2> QED
    BY <1>4, <2>1, <2>2 DEF PayFails, Fault, Ask
<1>5. ASSUME NEW o \in Orders, PayCreate(p, o)
      PROVE  CheckoutTypeOK'
  <2>1. razorpay' \in [Orders -> [amount : Amounts, state : {"none", "created", "paid"}]]
    BY <1>5 DEF PayCreate, Orderings
  <2>2. order' \in [Pages -> Orderings]
    BY <1>5 DEF PayCreate, SetOrder, Orderings
  <2> QED
    BY <1>5, <2>1, <2>2 DEF PayCreate
<1> QED
  BY <1>1, <1>2, <1>3, <1>4, <1>5 DEF PayStep

\* The variables have their types after a step of the page.
LEMMA PageKeepsType ==
  ASSUME CheckoutTypeOK, NEW p \in Pages,
         PageLoad(p) \/ ModalCloses(p) \/ ModalPays(p)
  PROVE  CheckoutTypeOK'
<1> USE CheckoutAssumption, QuoteBounds DEF CheckoutTypeOK
<1>1. CASE PageLoad(p)
  <2>1. page' \in [Pages -> PageStates]
    <3> DEFINE t == [page[p] EXCEPT
                  !.ready = TRUE,
                  !.total = cart.total,
                  !.shown = IF cart.discount > 0 THEN cart.final
                            ELSE IF cart.total > 0 THEN cart.total
                            ELSE SeatPrice * SeatCount,
                  !.got = IF cart.discount > 0
                            THEN {d \in Discounts : (d = "coupon" /\ cart.couponOff > 0)
                                            \/ (d = "gift" /\ cart.giftOff > 0)}
                            ELSE {}]
    <3>1. page[p] \in PageStates
      OBVIOUS
    <3>2. t \in PageStates
      BY <1>1, <3>1 DEF PageLoad, PageStates, Carts
    <3>3. page' = [page EXCEPT ![p] = t]
      BY <1>1 DEF PageLoad
    <3> QED
      BY <3>2, <3>3
  <2> QED
    BY <1>1, <2>1 DEF PageLoad
<1>2. CASE ModalCloses(p)
  <2>1. page' \in [Pages -> PageStates]
    <3> DEFINE t == [page[p] EXCEPT !.modal = NoOrderYet, !.busy = FALSE]
    <3>1. page[p] \in PageStates
      OBVIOUS
    <3>2. t \in PageStates
      BY <1>2, <3>1 DEF ModalCloses, PageStates
    <3>3. page' = [page EXCEPT ![p] = t]
      BY <1>2 DEF ModalCloses
    <3> QED
      BY <3>2, <3>3
  <2> QED
    BY <1>2, <2>1 DEF ModalCloses
<1>3. CASE ModalPays(p)
  <2>1. razorpay' \in [Orders -> [amount : Amounts, state : {"none", "created", "paid"}]]
    BY <1>3 DEF ModalPays, PageStates
  <2> QED
    BY <1>3, <2>1 DEF ModalPays
<1> QED
  BY <1>1, <1>2, <1>3

\* The variables have their types after a step of reconcileBooking.
LEMMA SettleKeepsType ==
  ASSUME CheckoutTypeOK, NEW s \in Settlers, SettleStep(s)
  PROVE  CheckoutTypeOK'
<1> USE CheckoutAssumption, QuoteBounds DEF CheckoutTypeOK
<1>1. ASSUME NEW o \in Orders, SettleStart(s, o)
      PROVE  CheckoutTypeOK'
  <2>1. settle' \in [Settlers -> Settlements]
    BY <1>1 DEF SettleStart, SetSettle, Settlements, Settled
  <2> QED
    BY <1>1, <2>1 DEF SettleStart, Ask
<1>2. CASE SettleBooking(s)
  <2>1. settle' \in [Settlers -> Settlements]
    BY <1>2 DEF SettleBooking, SetSettle, Settlements, Carts
  <2> QED
    BY <1>2, <2>1 DEF SettleBooking
<1>3. CASE SettleVerify(s)
  <2>1. settle' \in [Settlers -> Settlements]
    <3> DEFINE v == Verified(s)
    <3>1. v \in BOOLEAN
      BY DEF Verified
    <3>2. \/ settle' = [settle EXCEPT ![s] = [settle[s] EXCEPT !.pc = "write", !.ok = v]]
          \/ settle' = [settle EXCEPT ![s] = [settle[s] EXCEPT !.pc = "write", !.ok = FALSE]]
      BY <1>3 DEF SettleVerify, SetSettle
    <3> HIDE DEF v
    <3>3. /\ [settle[s] EXCEPT !.pc = "write", !.ok = v] \in Settlements
          /\ [settle[s] EXCEPT !.pc = "write", !.ok = FALSE] \in Settlements
      BY <3>1 DEF Settlements
    <3> QED
      BY <3>2, <3>3
  <2> QED
    BY <1>3, <2>1 DEF SettleVerify, Fault, Ask
<1>4. CASE SettleWrite(s)
  <2>1. settle' \in [Settlers -> Settlements]
    BY <1>4 DEF SettleWrite, SetSettle, Settlements, Settled
  <2>2. paymentLog' \in [Orders -> {"none", "VERIFIED", "MISMATCH"}]
    BY <1>4 DEF SettleWrite, Settlements
  <2>3. cart' \in Carts
    BY <1>4 DEF SettleWrite, Carts
  <2>4. revenue' \in Nat
    BY <1>4 DEF SettleWrite, Settlements, Amounts
  <2> QED
    BY <1>4, <2>1, <2>2, <2>3, <2>4 DEF SettleWrite
<1>5. CASE SettleDies(s)
  <2>1. settle' \in [Settlers -> Settlements]
    BY <1>5 DEF SettleDies, SetSettle, Settlements, Settled
  <2> QED
    BY <1>5, <2>1 DEF SettleDies, Fault, Ask
<1> QED
  BY <1>1, <1>2, <1>3, <1>4, <1>5 DEF SettleStep
-----------------------------------------------------------------------------
(* What the steps do.                                                      *)

\* What fetchBooking in a tab changes, field by field.
PageLoadDone(p) ==
  /\ ~page[p].ready
  /\ page'[p].ready /\ page'[p].total = cart.total
  /\ page'[p].modal = page[p].modal
  /\ page'[p].shown = IF cart.discount > 0 THEN cart.final
                      ELSE IF cart.total > 0 THEN cart.total
                      ELSE SeatPrice * SeatCount
  /\ \A q \in Pages \ {p} : page'[q] = page[q]
  /\ aged' = aged \ {p}
  /\ UNCHANGED <<cart, apply, order, razorpay, settle, paymentLog, revenue,
                 raced, twin, asked, checkoutFaults>>

\* FetchBooking in a tab does that.
LEMMA PageLoadEffect ==
  ASSUME CheckoutTypeOK, NEW p \in Pages, PageLoad(p)
  PROVE  PageLoadDone(p)
BY DEF PageLoad, CheckoutTypeOK, PageStates, PageLoadDone

\* What the read of applyDiscounts changes, field by field.
ApplyReadDone(p, k) ==
  /\ page[p].ready /\ cart.order = NoOrderYet /\ apply[<<p, k>>].pc = "idle"
  /\ apply'[<<p, k>>].pc = "write"
  /\ apply'[<<p, k>>].off \in 0 .. cart.total
  /\ apply'[<<p, k>>].final = cart.total - apply'[<<p, k>>].off
  /\ \A x \in (Pages \X Discounts) \ {<<p, k>>} : apply'[x] = apply[x]
  /\ UNCHANGED <<cart, page, order, razorpay, settle, paymentLog, revenue,
                 raced, twin, aged, checkoutFaults>>

\* The read of applyDiscounts does that.
LEMMA ApplyReadEffect ==
  ASSUME CheckoutTypeOK, NEW p \in Pages, NEW k \in Discounts, ApplyRead(p, k)
  PROVE  ApplyReadDone(p, k)
<1> DEFINE off == IF k = "coupon" THEN CouponOff(cart.total) ELSE GiftOff(cart.total)
<1>1. cart.total \in Nat
  BY QuoteBounds DEF CheckoutTypeOK, Carts, Amounts
<1>2. off \in 0 .. cart.total
  BY <1>1, OffBounds
<1>3. /\ page[p].ready /\ cart.order = NoOrderYet /\ apply[<<p, k>>].pc = "idle"
      /\ apply' = [apply EXCEPT ![<<p, k>>] =
                     [pc |-> "write", off |-> off, final |-> cart.total - off]]
      /\ UNCHANGED <<cart, page, order, razorpay, settle, paymentLog, revenue,
                     raced, twin, aged, checkoutFaults>>
  BY DEF ApplyRead, Discountable
<1> HIDE DEF off
<1>4. <<p, k>> \in Pages \X Discounts /\ apply \in [Pages \X Discounts -> Applies]
  BY DEF CheckoutTypeOK
<1> QED
  BY <1>2, <1>3, <1>4 DEF ApplyReadDone

\* What the write of applyDiscounts changes, field by field.
ApplyWriteDone(p, k) ==
  /\ apply[<<p, k>>].pc = "write" /\ apply'[<<p, k>>].pc = "answer"
  /\ apply'[<<p, k>>].off = apply[<<p, k>>].off
  /\ apply'[<<p, k>>].final = apply[<<p, k>>].final
  /\ \A x \in (Pages \X Discounts) \ {<<p, k>>} : apply'[x] = apply[x]
  /\ cart'.status = cart.status /\ cart'.order = cart.order
  /\ cart'.total = cart.total
  /\ cart'.discount = apply[<<p, k>>].off
  /\ cart'.final = apply[<<p, k>>].final
  /\ cart'.couponOff + cart'.giftOff = apply[<<p, k>>].off
  /\ raced' = (raced \/ ~Alone(p, k))
  /\ aged' = aged \cup (Pages \ {p})
  /\ UNCHANGED <<page, order, razorpay, settle, paymentLog, revenue, twin,
                 asked, checkoutFaults>>

\* The write of applyDiscounts does that.
LEMMA ApplyWriteEffect ==
  ASSUME CheckoutTypeOK, NEW p \in Pages, NEW k \in Discounts, ApplyWrite(p, k)
  PROVE  ApplyWriteDone(p, k)
<1>1. <<p, k>> \in Pages \X Discounts /\ apply \in [Pages \X Discounts -> Applies]
      /\ apply[<<p, k>>].off \in Nat
  BY QuoteBounds DEF CheckoutTypeOK, Applies, Amounts
<1>2. /\ apply[<<p, k>>].pc = "write"
      /\ apply' = [apply EXCEPT ![<<p, k>>].pc = "answer"]
      /\ cart' = Discounted(k, apply[<<p, k>>].off, apply[<<p, k>>].final)
      /\ raced' = (raced \/ ~Alone(p, k))
      /\ aged' = aged \cup (Pages \ {p})
      /\ UNCHANGED <<page, order, razorpay, settle, paymentLog, revenue, twin,
                     asked, checkoutFaults>>
  BY DEF ApplyWrite
<1>3. /\ apply'[<<p, k>>].pc = "answer"
      /\ apply'[<<p, k>>].off = apply[<<p, k>>].off
      /\ apply'[<<p, k>>].final = apply[<<p, k>>].final
      /\ \A x \in (Pages \X Discounts) \ {<<p, k>>} : apply'[x] = apply[x]
  BY <1>1, <1>2 DEF Applies
<1>4. cart \in Carts
  BY DEF CheckoutTypeOK
<1>5. /\ cart'.status = cart.status /\ cart'.order = cart.order
      /\ cart'.total = cart.total
      /\ cart'.discount = apply[<<p, k>>].off
      /\ cart'.final = apply[<<p, k>>].final
      /\ cart'.couponOff = (IF k = "coupon" THEN apply[<<p, k>>].off ELSE 0)
      /\ cart'.giftOff = (IF k = "gift" THEN apply[<<p, k>>].off ELSE 0)
  BY <1>2, <1>4 DEF Discounted, Carts
<1>6. cart'.couponOff + cart'.giftOff = apply[<<p, k>>].off
  BY <1>1, <1>5 DEF Discounts
<1> QED
  BY <1>2, <1>3, <1>5, <1>6 DEF ApplyWriteDone

\* What the answer of applyDiscounts changes, field by field.
ApplyAnswerDone(p, k) ==
  /\ apply[<<p, k>>].pc = "answer" /\ apply'[<<p, k>>].pc = "idle"
  /\ \A x \in (Pages \X Discounts) \ {<<p, k>>} : apply'[x] = apply[x]
  /\ page'[p].shown = apply[<<p, k>>].final /\ page'[p].ready = page[p].ready
  /\ page'[p].total = page[p].total /\ page'[p].modal = page[p].modal
  /\ \A q \in Pages \ {p} : page'[q] = page[q]
  /\ UNCHANGED <<cart, order, razorpay, settle, paymentLog, revenue, raced,
                 twin, aged, asked, checkoutFaults>>

\* The answer of applyDiscounts does that.
LEMMA ApplyAnswerEffect ==
  ASSUME CheckoutTypeOK, NEW p \in Pages, NEW k \in Discounts, ApplyAnswer(p, k)
  PROVE  ApplyAnswerDone(p, k)
<1>1. <<p, k>> \in Pages \X Discounts /\ apply \in [Pages \X Discounts -> Applies]
      /\ page \in [Pages -> PageStates]
  BY DEF CheckoutTypeOK
<1> QED
  BY <1>1 DEF ApplyAnswer, IdleApply, PageStates, ApplyAnswerDone

\* What a failure of applyDiscounts changes, field by field.
ApplyFailsDone(p, k) ==
  /\ apply'[<<p, k>>].pc = "idle"
  /\ \A x \in (Pages \X Discounts) \ {<<p, k>>} : apply'[x] = apply[x]
  /\ aged' = aged \cup {p} /\ checkoutFaults' > 0
  /\ UNCHANGED <<cart, page, order, razorpay, settle, paymentLog, revenue,
                 raced, twin>>

\* A failure of applyDiscounts does that.
LEMMA ApplyFailsEffect ==
  ASSUME CheckoutTypeOK, NEW p \in Pages, NEW k \in Discounts, ApplyFails(p, k)
  PROVE  ApplyFailsDone(p, k)
BY DEF ApplyFails, IdleApply, Fault, CheckoutTypeOK, ApplyFailsDone

\* What the read of createRazorpayOrder changes, field by field.
PayReadDone(p) ==
  /\ page[p].ready /\ order[p].pc = "idle" /\ cart.status = "LOCKED"
  /\ page'[p].ready = page[p].ready /\ page'[p].shown = page[p].shown
  /\ page'[p].total = page[p].total /\ page'[p].modal = page[p].modal
  /\ \A q \in Pages \ {p} : page'[q] = page[q] /\ order'[q] = order[q]
  /\ \/ cart.total = 0 /\ order'[p].pc = "price"
     \/ cart.total # 0 /\ order'[p].pc = "create"
                       /\ order'[p].charge = Charge(cart)
  /\ raced' = (raced \/ \E x \in Pages \X Discounts : apply[x].pc # "idle")
  /\ twin' = (twin \/ \E q \in Pages : order[q].pc # "idle")
  /\ UNCHANGED <<cart, apply, razorpay, settle, paymentLog, revenue, aged,
                 checkoutFaults>>

\* The read of createRazorpayOrder does that.
LEMMA PayReadEffect ==
  ASSUME CheckoutTypeOK, NEW p \in Pages, PayRead(p)
  PROVE  PayReadDone(p)
<1>1. /\ order \in [Pages -> Orderings] /\ page \in [Pages -> PageStates]
      /\ page' = [page EXCEPT ![p].busy = TRUE]
  BY DEF CheckoutTypeOK, PayRead
<1>2. /\ page'[p].ready = page[p].ready /\ page'[p].shown = page[p].shown
      /\ page'[p].total = page[p].total /\ page'[p].modal = page[p].modal
      /\ \A q \in Pages \ {p} : page'[q] = page[q]
  BY <1>1 DEF PageStates
<1>3. \/ cart.total = 0 /\ order' = [order EXCEPT ![p] =
                               [pc |-> "price", charge |-> 0, o |-> NoOrderYet]]
      \/ cart.total # 0 /\ order' = [order EXCEPT ![p] =
                               [pc |-> "create", charge |-> Charge(cart), o |-> NoOrderYet]]
  BY DEF PayRead, SetOrder
<1>4. /\ \A q \in Pages \ {p} : order'[q] = order[q]
      /\ \/ cart.total = 0 /\ order'[p].pc = "price"
         \/ cart.total # 0 /\ order'[p].pc = "create" /\ order'[p].charge = Charge(cart)
  BY <1>1, <1>3
<1> QED
  BY <1>2, <1>4 DEF PayRead, Orderable, PayReadDone

\* What the price an order stores first changes, field by field.
PayPriceDone(p) ==
  /\ order[p].pc = "price" /\ order'[p].pc = "create" /\ order'[p].charge = Quote
  /\ \A q \in Pages \ {p} : order'[q] = order[q]
  /\ cart'.total = Quote /\ cart'.status = cart.status
  /\ cart'.order = cart.order /\ cart'.discount = cart.discount
  /\ cart'.final = cart.final /\ cart'.couponOff = cart.couponOff
  /\ cart'.giftOff = cart.giftOff
  /\ UNCHANGED <<page, apply, razorpay, settle, paymentLog, revenue, raced,
                 twin, aged, asked, checkoutFaults>>

\* The price an order stores first does that.
LEMMA PayPriceEffect ==
  ASSUME CheckoutTypeOK, NEW p \in Pages, PayPrice(p)
  PROVE  PayPriceDone(p)
<1>1. cart \in Carts /\ order \in [Pages -> Orderings]
  BY DEF CheckoutTypeOK
<1> QED
  BY <1>1 DEF PayPrice, SetOrder, Carts, PayPriceDone

\* What razorpay.orders.create changes, field by field.
PayCreateDone(p, o) ==
  /\ order[p].pc = "create" /\ razorpay[o].state = "none"
  /\ order'[p].pc = "update" /\ order'[p].charge = order[p].charge
  /\ order'[p].o = o
  /\ \A q \in Pages \ {p} : order'[q] = order[q]
  /\ razorpay'[o].state = "created" /\ razorpay'[o].amount = order[p].charge
  /\ \A q \in Orders \ {o} : razorpay'[q] = razorpay[q]
  /\ UNCHANGED <<cart, page, apply, settle, paymentLog, revenue, raced, twin,
                 aged, asked, checkoutFaults>>

\* Razorpay.orders.create does that.
LEMMA PayCreateEffect ==
  ASSUME CheckoutTypeOK, NEW p \in Pages, NEW o \in Orders, PayCreate(p, o)
  PROVE  PayCreateDone(p, o)
BY DEF PayCreate, SetOrder, CheckoutTypeOK, PayCreateDone

\* What the update that makes the row wait for the order changes, field by field.
PayUpdateDone(p) ==
  /\ order[p].pc = "update" /\ order'[p].pc = "idle"
  /\ \A q \in Pages \ {p} : order'[q] = order[q]
  /\ cart'.order = order[p].o /\ cart'.status = "PAYMENT_IN_PROGRESS"
  /\ cart'.total = cart.total /\ cart'.discount = cart.discount
  /\ cart'.final = cart.final /\ cart'.couponOff = cart.couponOff
  /\ cart'.giftOff = cart.giftOff
  /\ page'[p].modal = order[p].o /\ page'[p].ready = page[p].ready
  /\ page'[p].shown = page[p].shown /\ page'[p].total = page[p].total
  /\ \A q \in Pages \ {p} : page'[q] = page[q]
  /\ UNCHANGED <<apply, razorpay, settle, paymentLog, revenue, raced, twin,
                 aged, asked, checkoutFaults>>

\* The update that makes the row wait for the order does that.
LEMMA PayUpdateEffect ==
  ASSUME CheckoutTypeOK, NEW p \in Pages, PayUpdate(p)
  PROVE  PayUpdateDone(p)
<1>1. /\ cart \in Carts /\ order \in [Pages -> Orderings]
      /\ page \in [Pages -> PageStates]
  BY DEF CheckoutTypeOK
<1> QED
  BY <1>1 DEF PayUpdate, SetOrder, Carts, PageStates, PayUpdateDone

\* What a failure of createRazorpayOrder changes, field by field.
PayFailsDone(p) ==
  /\ order[p].pc # "idle" /\ order'[p].pc = "idle"
  /\ \A q \in Pages \ {p} : page'[q] = page[q] /\ order'[q] = order[q]
  /\ page'[p].ready = page[p].ready /\ page'[p].shown = page[p].shown
  /\ page'[p].total = page[p].total /\ page'[p].modal = page[p].modal
  /\ \/ /\ order[p].pc = "create" /\ order[p].charge = 0
        /\ checkoutFaults' = checkoutFaults
     \/ checkoutFaults' > 0
  /\ UNCHANGED <<cart, apply, razorpay, settle, paymentLog, revenue, raced,
                 twin, aged>>

\* A failure of createRazorpayOrder does that.
LEMMA PayFailsEffect ==
  ASSUME CheckoutTypeOK, NEW p \in Pages, PayFails(p)
  PROVE  PayFailsDone(p)
<1>1. /\ order \in [Pages -> Orderings] /\ page \in [Pages -> PageStates]
      /\ checkoutFaults \in Nat
  BY CheckoutAssumption DEF CheckoutTypeOK
<1> QED
  BY <1>1 DEF PayFails, SetOrder, Fault, PageStates, PayFailsDone

\* What a modal that is closed changes, field by field.
ModalClosesDone(p) ==
  /\ page'[p].modal = NoOrderYet /\ page'[p].ready = page[p].ready
  /\ page'[p].shown = page[p].shown /\ page'[p].total = page[p].total
  /\ \A q \in Pages \ {p} : page'[q] = page[q]
  /\ UNCHANGED <<cart, apply, order, razorpay, settle, paymentLog, revenue,
                 raced, twin, aged, asked, checkoutFaults>>

\* A modal that is closed does that.
LEMMA ModalClosesEffect ==
  ASSUME CheckoutTypeOK, NEW p \in Pages, ModalCloses(p)
  PROVE  ModalClosesDone(p)
BY DEF ModalCloses, CheckoutTypeOK, PageStates, ModalClosesDone

\* What a modal that is paid changes, field by field.
ModalPaysDone(p) ==
  LET o == page[p].modal
  IN  /\ o \in Orders /\ o # NoOrderYet
      /\ razorpay'[o].state = "paid" /\ razorpay'[o].amount = razorpay[o].amount
      /\ \A q \in Orders \ {o} : razorpay'[q] = razorpay[q]
      /\ UNCHANGED <<cart, page, apply, order, settle, paymentLog, revenue,
                     raced, twin, aged, asked, checkoutFaults>>

\* A modal that is paid does that.
LEMMA ModalPaysEffect ==
  ASSUME CheckoutTypeOK, NEW p \in Pages, ModalPays(p)
  PROVE  ModalPaysDone(p)
<1>1. page[p].modal \in Orders \cup {NoOrderYet}
  BY DEF CheckoutTypeOK, PageStates
<1> QED
  BY <1>1 DEF ModalPays, CheckoutTypeOK, ModalPaysDone

\* What the start of reconcileBooking changes, field by field.
SettleStartDone(s, o) ==
  /\ razorpay[o].state = "paid"
  /\ \/ settle'[s].pc = "booking" /\ settle'[s].o = o
     \/ settle'[s].pc = "done"
  /\ \A r \in Settlers \ {s} : settle'[r] = settle[r]
  /\ UNCHANGED <<cart, page, apply, order, razorpay, paymentLog, revenue,
                 raced, twin, aged, checkoutFaults>>

\* The start of reconcileBooking does that.
LEMMA SettleStartEffect ==
  ASSUME CheckoutTypeOK, NEW s \in Settlers, NEW o \in Orders, SettleStart(s, o)
  PROVE  SettleStartDone(s, o)
<1>1. settle \in [Settlers -> Settlements]
  BY DEF CheckoutTypeOK
<1> QED
  BY <1>1 DEF SettleStart, SetSettle, Settled, Settlements, SettleStartDone

\* What its read of the booking changes, field by field.
SettleBookingDone(s) ==
  /\ settle[s].pc = "booking" /\ settle'[s].pc = "fetch"
  /\ settle'[s].o = settle[s].o /\ settle'[s].final = cart.final
  /\ \A r \in Settlers \ {s} : settle'[r] = settle[r]
  /\ UNCHANGED <<cart, page, apply, order, razorpay, paymentLog, revenue,
                 raced, twin, aged, asked, checkoutFaults>>

\* Its read of the booking does that.
LEMMA SettleBookingEffect ==
  ASSUME CheckoutTypeOK, NEW s \in Settlers, SettleBooking(s)
  PROVE  SettleBookingDone(s)
<1>1. settle \in [Settlers -> Settlements]
  BY DEF CheckoutTypeOK
<1> QED
  BY <1>1 DEF SettleBooking, SetSettle, Settlements, SettleBookingDone

\* What verifyPayment changes, field by field.
SettleVerifyDone(s) ==
  /\ settle[s].pc = "fetch" /\ settle'[s].pc = "write"
  /\ settle'[s].o = settle[s].o /\ settle'[s].final = settle[s].final
  /\ \/ settle'[s].ok = TRUE /\ Verified(s)
     \/ settle'[s].ok = FALSE /\ (~Verified(s) \/ checkoutFaults' > 0)
  /\ checkoutFaults' >= checkoutFaults
  /\ \A r \in Settlers \ {s} : settle'[r] = settle[r]
  /\ UNCHANGED <<cart, page, apply, order, razorpay, paymentLog, revenue,
                 raced, twin, aged>>

\* VerifyPayment does that.
LEMMA SettleVerifyEffect ==
  ASSUME CheckoutTypeOK, NEW s \in Settlers, SettleVerify(s)
  PROVE  SettleVerifyDone(s)
<1> DEFINE v == Verified(s)
<1>1. /\ settle \in [Settlers -> Settlements] /\ checkoutFaults \in Nat
      /\ v \in BOOLEAN
  BY CheckoutAssumption DEF CheckoutTypeOK, Verified
<1>2. \/ settle' = [settle EXCEPT ![s] = [settle[s] EXCEPT !.pc = "write", !.ok = v]]
           /\ checkoutFaults' = checkoutFaults
      \/ settle' = [settle EXCEPT ![s] = [settle[s] EXCEPT !.pc = "write", !.ok = FALSE]]
           /\ checkoutFaults' = checkoutFaults + 1
  BY DEF SettleVerify, SetSettle, Fault
<1> HIDE DEF v
<1>4. v = TRUE \/ v = FALSE
  BY <1>1
<1>5. \E b \in BOOLEAN : /\ settle' = [settle EXCEPT ![s] = [settle[s] EXCEPT !.pc = "write", !.ok = b]]
                        /\ \/ b = v /\ checkoutFaults' = checkoutFaults
                           \/ b = FALSE /\ checkoutFaults' = checkoutFaults + 1
  BY <1>1, <1>2
<1>6. PICK b \in BOOLEAN : /\ settle' = [settle EXCEPT ![s] = [settle[s] EXCEPT !.pc = "write", !.ok = b]]
                        /\ \/ b = v /\ checkoutFaults' = checkoutFaults
                           \/ b = FALSE /\ checkoutFaults' = checkoutFaults + 1
  BY <1>5
<1>7. /\ settle'[s].pc = "write" /\ settle'[s].ok = b
      /\ settle'[s].o = settle[s].o /\ settle'[s].final = settle[s].final
      /\ \A r \in Settlers \ {s} : settle'[r] = settle[r]
  BY <1>1, <1>6 DEF Settlements
<1>8. checkoutFaults' >= checkoutFaults
  BY <1>1, <1>6
<1>9. b # v => checkoutFaults' > 0
  BY <1>1, <1>6
<1>10. CASE b = TRUE
  <2>1. v /\ settle'[s].ok = TRUE
    BY <1>4, <1>6, <1>7, <1>10
  <2> QED
    BY <2>1, <1>7, <1>8 DEF SettleVerify, v, SettleVerifyDone
<1>11. CASE b = FALSE
  <2>1. settle'[s].ok = FALSE
    BY <1>7, <1>11
  <2>2. ~v \/ checkoutFaults' > 0
    BY <1>4, <1>9, <1>11
  <2> QED
    BY <2>1, <2>2, <1>7, <1>8 DEF SettleVerify, v, SettleVerifyDone
<1> QED
  BY <1>10, <1>11

\* What the transaction of reconcileBooking changes, field by field.
SettleWriteDone(s) ==
  LET o == settle[s].o
  IN  /\ settle[s].pc = "write" /\ settle'[s].pc = "done"
      /\ \A r \in Settlers \ {s} : settle'[r] = settle[r]
      /\ paymentLog[o] = "none" =>
           /\ paymentLog' = [paymentLog EXCEPT ![o] = IF settle[s].ok THEN "VERIFIED"
                                                         ELSE "MISMATCH"]
           /\ revenue' = IF settle[s].ok THEN revenue + settle[s].final ELSE revenue
           /\ cart'.status = IF settle[s].ok THEN "CONFIRMED" ELSE "FAILED"
      /\ paymentLog[o] # "none" => UNCHANGED <<paymentLog, cart, revenue>>
      /\ cart'.total = cart.total /\ cart'.discount = cart.discount
      /\ cart'.final = cart.final /\ cart'.couponOff = cart.couponOff
      /\ cart'.giftOff = cart.giftOff /\ cart'.order = cart.order
      /\ UNCHANGED <<page, apply, order, razorpay, raced, twin, aged, asked,
                     checkoutFaults>>

\* The transaction of reconcileBooking does that.
LEMMA SettleWriteEffect ==
  ASSUME CheckoutTypeOK, NEW s \in Settlers, SettleWrite(s)
  PROVE  SettleWriteDone(s)
<1>1. settle \in [Settlers -> Settlements] /\ cart \in Carts
  BY DEF CheckoutTypeOK
<1> QED
  BY <1>1 DEF SettleWrite, SetSettle, Settled, Carts, SettleWriteDone

\* What a reconcileBooking that dies changes, field by field.
SettleDiesDone(s) ==
  /\ settle'[s].pc = "done" /\ checkoutFaults' > 0
  /\ \A r \in Settlers \ {s} : settle'[r] = settle[r]
  /\ UNCHANGED <<cart, page, apply, order, razorpay, paymentLog, revenue,
                 raced, twin, aged>>

\* A reconcileBooking that dies does that.
LEMMA SettleDiesEffect ==
  ASSUME CheckoutTypeOK, NEW s \in Settlers, SettleDies(s)
  PROVE  SettleDiesDone(s)
<1>1. settle \in [Settlers -> Settlements] /\ checkoutFaults \in Nat
  BY CheckoutAssumption DEF CheckoutTypeOK
<1> QED
  BY <1>1 DEF SettleDies, SetSettle, Settled, Fault, SettleDiesDone
-----------------------------------------------------------------------------
(* The steps keep the invariant.                                           *)

\* FetchBooking in a tab keeps every part of the invariant.
LEMMA PageLoadKeeps ==
  ASSUME CheckoutTypeOK, CheckoutTypeOK', Kept, NEW p \in Pages, PageLoad(p)
  PROVE  Kept'
<1> USE CheckoutAssumption, QuoteBounds DEF Kept
<1>0. PageLoadDone(p)
  BY PageLoadEffect
<1>1. AppliesKept'
  BY <1>0 DEF PageLoadDone, AppliesKept, ApplyKept
<1>2. PagesKept'
  BY <1>0 DEF PageLoadDone, PagesKept, PageKept, InProgress, RowKept, AmountsAddUp
<1>3. ChargeKept'
  BY <1>0 DEF PageLoadDone, ChargeKept, InProgress, PagesKept, PageKept
<1>4. ShownKept'
  BY <1>0 DEF PageLoadDone, ShownKept, AppliesKept, ApplyKept, Charge, RowKept,
       AmountsAddUp
<1>5. RowKept' /\ OrdersKept' /\ BookingKept' /\ SettlesKept' /\ CauseKept' /\ OnceKept'
  BY <1>0 DEF PageLoadDone, RowKept, AmountsAddUp, OrdersKept, OrderKept,
       BookingKept, SettlesKept, SettleKept, CauseKept, OnceKept, InProgress
<1> QED
  BY <1>1, <1>2, <1>3, <1>4, <1>5

\* The read of applyDiscounts keeps every part of the invariant.
LEMMA ApplyReadKeeps ==
  ASSUME CheckoutTypeOK, CheckoutTypeOK', Kept, NEW p \in Pages,
         NEW k \in Discounts, ApplyRead(p, k)
  PROVE  Kept'
<1> USE CheckoutAssumption, QuoteBounds DEF Kept
<1>0. ApplyReadDone(p, k)
  BY ApplyReadEffect
<1>1. AppliesKept'
  BY <1>0 DEF ApplyReadDone, AppliesKept, ApplyKept, RowKept, AmountsAddUp,
       PagesKept, PageKept, InProgress
<1>2. ChargeKept'
  BY <1>0 DEF ApplyReadDone, ChargeKept, InProgress
<1>3. ShownKept'
  BY <1>0 DEF ApplyReadDone, ShownKept
<1>4. RowKept' /\ PagesKept' /\ OrdersKept' /\ BookingKept' /\ SettlesKept' /\ CauseKept' /\ OnceKept'
  BY <1>0 DEF ApplyReadDone, RowKept, AmountsAddUp, PagesKept, PageKept,
       InProgress, OrdersKept, OrderKept, BookingKept, SettlesKept, SettleKept,
       CauseKept, OnceKept
<1> QED
  BY <1>1, <1>2, <1>3, <1>4

\* The write of applyDiscounts keeps every part of the invariant.
LEMMA ApplyWriteKeeps ==
  ASSUME CheckoutTypeOK, CheckoutTypeOK', Kept, NEW p \in Pages,
         NEW k \in Discounts, ApplyWrite(p, k)
  PROVE  Kept'
<1> USE CheckoutAssumption, QuoteBounds DEF Kept
<1>0. ApplyWriteDone(p, k)
  BY ApplyWriteEffect
<1>1. RowKept'
  <2>1. /\ apply[<<p, k>>].off \in Nat /\ apply[<<p, k>>].final \in Nat
        /\ Quote \in Nat
    BY DEF CheckoutTypeOK, Applies, Amounts
  <2>2. /\ apply[<<p, k>>].off > 0 =>
             cart.total = Quote /\ apply[<<p, k>>].off + apply[<<p, k>>].final = Quote
        /\ apply[<<p, k>>].off = 0 => apply[<<p, k>>].final \in {0, Quote}
    BY <1>0 DEF ApplyWriteDone, AppliesKept, ApplyKept
  <2>3. /\ cart'.total = cart.total /\ cart'.discount = apply[<<p, k>>].off
        /\ cart'.final = apply[<<p, k>>].final
        /\ cart'.couponOff + cart'.giftOff = apply[<<p, k>>].off
    BY <1>0 DEF ApplyWriteDone
  <2> QED
    BY <2>1, <2>2, <2>3 DEF RowKept, AmountsAddUp
<1>2. AppliesKept'
  BY <1>0 DEF ApplyWriteDone, AppliesKept, ApplyKept
<1>3. PagesKept'
  BY <1>0 DEF ApplyWriteDone, PagesKept, PageKept, InProgress
<1>4. OrdersKept'
  BY <1>0 DEF ApplyWriteDone, OrdersKept, OrderKept
<1>5. BookingKept'
  BY <1>0 DEF ApplyWriteDone, BookingKept
<1>6. SettlesKept'
  BY <1>0 DEF ApplyWriteDone, SettlesKept, SettleKept
<1>7. ChargeKept'
  BY <1>0 DEF ApplyWriteDone, ChargeKept, InProgress, Alone, AppliesKept,
       ApplyKept, BookingKept, PagesKept, PageKept
<1>8. ShownKept'
  <2> SUFFICES ASSUME ~raced', NEW q \in Pages, page'[q].ready, page'[q].total # 0,
                      q \notin aged'
               PROVE  /\ \A d \in Discounts : apply'[<<q, d>>].pc = "answer"
                           => apply'[<<q, d>>].final = Charge(cart')
                      /\ \/ \E d \in Discounts : apply'[<<q, d>>].pc = "answer"
                         \/ page'[q].shown = Charge(cart')
    BY DEF ShownKept
  <2>1. q = p /\ Alone(p, k) /\ page[p].total # 0
    BY <1>0 DEF ApplyWriteDone
  <2>2. cart'.total = Quote
    BY <2>1, <1>0 DEF ApplyWriteDone, PagesKept, PageKept, RowKept
  <2>3. apply[<<p, k>>].off \in Nat
    BY DEF CheckoutTypeOK, Applies, Amounts
  <2>4. apply'[<<p, k>>].final = Charge(cart')
    BY <2>1, <2>2, <2>3, <1>0 DEF ApplyWriteDone, AppliesKept, ApplyKept, Charge
  <2>5. ASSUME NEW d \in Discounts, d # k
        PROVE  apply'[<<p, d>>].pc = "idle"
    BY <2>1, <2>5, <1>0 DEF ApplyWriteDone, Alone
  <2>6. apply'[<<p, k>>].pc = "answer"
    BY <1>0 DEF ApplyWriteDone
  <2> QED
    BY <2>1, <2>4, <2>5, <2>6
<1>9. CauseKept'
  BY <1>0 DEF ApplyWriteDone, CauseKept, Alone, BookingKept, SettlesKept,
       SettleKept, PagesKept, PageKept, InProgress
<1>10. OnceKept'
  BY <1>0 DEF ApplyWriteDone, OnceKept, InProgress
<1> QED
  BY <1>1, <1>2, <1>3, <1>4, <1>5, <1>6, <1>7, <1>8, <1>9, <1>10

\* The answer of applyDiscounts keeps every part of the invariant.
LEMMA ApplyAnswerKeeps ==
  ASSUME CheckoutTypeOK, CheckoutTypeOK', Kept, NEW p \in Pages,
         NEW k \in Discounts, ApplyAnswer(p, k)
  PROVE  Kept'
<1> USE CheckoutAssumption, QuoteBounds DEF Kept
<1>0. ApplyAnswerDone(p, k)
  BY ApplyAnswerEffect
<1>1. AppliesKept'
  BY <1>0 DEF ApplyAnswerDone, AppliesKept, ApplyKept
<1>2. PagesKept'
  BY <1>0 DEF ApplyAnswerDone, PagesKept, PageKept, InProgress
<1>3. ChargeKept'
  BY <1>0 DEF ApplyAnswerDone, ChargeKept, InProgress
<1>4. ShownKept'
  BY <1>0 DEF ApplyAnswerDone, ShownKept
<1>5. RowKept' /\ OrdersKept' /\ BookingKept' /\ SettlesKept' /\ CauseKept' /\ OnceKept'
  BY <1>0 DEF ApplyAnswerDone, RowKept, AmountsAddUp, OrdersKept, OrderKept,
       BookingKept, SettlesKept, SettleKept, CauseKept, OnceKept, InProgress
<1> QED
  BY <1>1, <1>2, <1>3, <1>4, <1>5

\* A failure of applyDiscounts keeps every part of the invariant.
LEMMA ApplyFailsKeeps ==
  ASSUME CheckoutTypeOK, CheckoutTypeOK', Kept, NEW p \in Pages,
         NEW k \in Discounts, ApplyFails(p, k)
  PROVE  Kept'
<1> USE CheckoutAssumption, QuoteBounds DEF Kept
<1>0. ApplyFailsDone(p, k)
  BY ApplyFailsEffect
<1>1. AppliesKept'
  BY <1>0 DEF ApplyFailsDone, AppliesKept, ApplyKept
<1>2. ChargeKept'
  BY <1>0 DEF ApplyFailsDone, ChargeKept, InProgress
<1>3. ShownKept'
  BY <1>0 DEF ApplyFailsDone, ShownKept
<1>4. CauseKept'
  BY <1>0 DEF ApplyFailsDone, CauseKept
<1>5. RowKept' /\ PagesKept' /\ OrdersKept' /\ BookingKept' /\ SettlesKept' /\ OnceKept'
  BY <1>0 DEF ApplyFailsDone, RowKept, AmountsAddUp, PagesKept, PageKept,
       InProgress, OrdersKept, OrderKept, BookingKept, SettlesKept, SettleKept,
       OnceKept
<1> QED
  BY <1>1, <1>2, <1>3, <1>4, <1>5

\* The read of createRazorpayOrder keeps every part of the invariant.
LEMMA PayReadKeeps ==
  ASSUME CheckoutTypeOK, CheckoutTypeOK', Kept, NEW p \in Pages, PayRead(p)
  PROVE  Kept'
<1> USE CheckoutAssumption, QuoteBounds DEF Kept
<1>0. PayReadDone(p)
  BY PayReadEffect
<1>1. AppliesKept'
  <2>1. \A q \in Pages : /\ page'[q].ready = page[q].ready
                         /\ page'[q].total = page[q].total
                         /\ page'[q].shown = page[q].shown
                         /\ page'[q].modal = page[q].modal
    BY <1>0 DEF PayReadDone
  <2> QED
    BY <2>1, <1>0 DEF PayReadDone, AppliesKept, ApplyKept
<1>2. PagesKept'
  <2>1. ASSUME NEW q \in Pages PROVE PageKept(q)'
    <3>1. PageKept(q) /\ (q = p => page[p].ready)
      BY <1>0 DEF PagesKept, PayReadDone
    <3>2. /\ page'[q].ready = page[q].ready /\ page'[q].total = page[q].total
          /\ page'[q].modal = page[q].modal
          /\ q # p => order'[q] = order[q]
          /\ cart' = cart /\ razorpay' = razorpay
      BY <1>0 DEF PayReadDone
    <3> QED
      BY <3>1, <3>2 DEF PageKept, InProgress
  <2> QED
    BY <2>1 DEF PagesKept
<1>3. OrdersKept'
  BY <1>0 DEF PayReadDone, OrdersKept, OrderKept, RowKept, AmountsAddUp
<1>4. ChargeKept'
  <2>1. \A q \in Pages : /\ page'[q].ready = page[q].ready
                         /\ page'[q].total = page[q].total
                         /\ page'[q].shown = page[q].shown
                         /\ page'[q].modal = page[q].modal
    BY <1>0 DEF PayReadDone
  <2> SUFFICES ASSUME ~raced'
               PROVE  ChargeKept'
    BY DEF ChargeKept
  <2>2. ~raced /\ \A x \in Pages \X Discounts : apply'[x].pc = "idle"
    BY <1>0 DEF PayReadDone
  <2>3. Charge(cart') = Charge(cart) /\ razorpay' = razorpay /\ cart' = cart
    BY <1>0 DEF PayReadDone
  <2>4. ASSUME NEW q \in Pages
        PROVE  /\ order'[q].pc = "price" => cart.discount = 0
               /\ order'[q].pc \in {"create", "update"} => order'[q].charge = Charge(cart)
    <3>1. CASE q = p
      <4>1. cart.total = 0 => cart.discount = 0
        BY DEF RowKept, CheckoutTypeOK, Carts, Amounts
      <4> QED
        BY <3>1, <4>1, <1>0 DEF PayReadDone
    <3>2. CASE q # p
      BY <3>2, <2>2, <1>0 DEF PayReadDone, ChargeKept
    <3> QED
      BY <3>1, <3>2
  <2> QED
    BY <2>1, <2>2, <2>3, <2>4 DEF ChargeKept
<1>5. ShownKept'
  BY <1>0 DEF PayReadDone, ShownKept
<1>6. OnceKept'
  <2>1. \A q \in Pages : /\ page'[q].ready = page[q].ready
                         /\ page'[q].total = page[q].total
                         /\ page'[q].shown = page[q].shown
                         /\ page'[q].modal = page[q].modal
    BY <1>0 DEF PayReadDone
  <2> SUFFICES ASSUME ~twin'
               PROVE  OnceKept'
    BY DEF OnceKept
  <2>2. ~twin /\ \A q \in Pages : order[q].pc = "idle"
    BY <1>0 DEF PayReadDone
  <2>3. \A q \in Pages : order'[q].pc # "idle" => q = p
    BY <2>2, <1>0 DEF PayReadDone
  <2>4. cart.status = "LOCKED" /\ UNCHANGED <<cart, razorpay, paymentLog>>
    BY <1>0 DEF PayReadDone
  <2> QED
    BY <2>1, <2>2, <2>3, <2>4 DEF OnceKept, InProgress
<1>7. RowKept' /\ BookingKept' /\ SettlesKept' /\ CauseKept'
  BY <1>0 DEF PayReadDone, RowKept, AmountsAddUp, BookingKept, SettlesKept,
       SettleKept, CauseKept
<1> QED
  BY <1>1, <1>2, <1>3, <1>4, <1>5, <1>6, <1>7

\* The price an order stores first keeps every part of the invariant.
LEMMA PayPriceKeeps ==
  ASSUME CheckoutTypeOK, CheckoutTypeOK', Kept, NEW p \in Pages, PayPrice(p)
  PROVE  Kept'
<1> USE CheckoutAssumption, QuoteBounds DEF Kept
<1>0. PayPriceDone(p)
  BY PayPriceEffect
<1>1. RowKept'
  BY <1>0 DEF PayPriceDone, RowKept, AmountsAddUp
<1>2. AppliesKept'
  BY <1>0 DEF PayPriceDone, AppliesKept, ApplyKept
<1>3. PagesKept'
  BY <1>0 DEF PayPriceDone, PagesKept, PageKept, InProgress, RowKept, AmountsAddUp
<1>4. OrdersKept'
  BY <1>0 DEF PayPriceDone, OrdersKept, OrderKept
<1>5. BookingKept'
  BY <1>0 DEF PayPriceDone, BookingKept
<1>6. SettlesKept'
  BY <1>0 DEF PayPriceDone, SettlesKept, SettleKept
<1>7. ChargeKept'
  BY <1>0 DEF PayPriceDone, ChargeKept, InProgress, RowKept, AmountsAddUp,
       BookingKept, PagesKept, PageKept, OrdersKept, OrderKept, Charge
<1>8. ShownKept'
  BY <1>0 DEF PayPriceDone, ShownKept, Charge, RowKept, AmountsAddUp,
       AppliesKept, ApplyKept, PagesKept, PageKept, InProgress
<1>9. CauseKept'
  BY <1>0 DEF PayPriceDone, CauseKept
<1>10. OnceKept'
  BY <1>0 DEF PayPriceDone, OnceKept, InProgress
<1> QED
  BY <1>1, <1>2, <1>3, <1>4, <1>5, <1>6, <1>7, <1>8, <1>9, <1>10

\* The update that makes the row wait for the order keeps every part of the invariant.
LEMMA PayUpdateKeeps ==
  ASSUME CheckoutTypeOK, CheckoutTypeOK', Kept, NEW p \in Pages, PayUpdate(p)
  PROVE  Kept'
<1> USE CheckoutAssumption, QuoteBounds DEF Kept
<1>0. PayUpdateDone(p)
  BY PayUpdateEffect
<1>1. RowKept'
  BY <1>0 DEF PayUpdateDone, RowKept, AmountsAddUp
<1>2. AppliesKept'
  BY <1>0 DEF PayUpdateDone, AppliesKept, ApplyKept
<1>3. PagesKept'
  BY <1>0 DEF PayUpdateDone, PagesKept, PageKept, InProgress, OrdersKept,
       OrderKept
<1>4. OrdersKept'
  BY <1>0 DEF PayUpdateDone, OrdersKept, OrderKept
<1>5. BookingKept'
  BY <1>0 DEF PayUpdateDone, BookingKept, OrdersKept, OrderKept
<1>6. SettlesKept'
  BY <1>0 DEF PayUpdateDone, SettlesKept, SettleKept
<1>7. ChargeKept'
  BY <1>0 DEF PayUpdateDone, ChargeKept, InProgress, OrdersKept, OrderKept,
       Charge, BookingKept
<1>8. ShownKept'
  <2>1. \A q \in Pages : /\ page'[q].ready = page[q].ready
                         /\ page'[q].total = page[q].total
                         /\ page'[q].shown = page[q].shown
    BY <1>0 DEF PayUpdateDone
  <2>2. Charge(cart') = Charge(cart)
    BY <1>0 DEF PayUpdateDone, Charge
  <2>3. UNCHANGED <<apply, raced, aged>>
    BY <1>0 DEF PayUpdateDone
  <2> QED
    BY <2>1, <2>2, <2>3 DEF ShownKept
<1>9. CauseKept'
  BY <1>0 DEF PayUpdateDone, CauseKept
<1>10. OnceKept'
  BY <1>0 DEF PayUpdateDone, OnceKept, InProgress, BookingKept
<1> QED
  BY <1>1, <1>2, <1>3, <1>4, <1>5, <1>6, <1>7, <1>8, <1>9, <1>10

\* A failure of createRazorpayOrder keeps every part of the invariant.
LEMMA PayFailsKeeps ==
  ASSUME CheckoutTypeOK, CheckoutTypeOK', Kept, NEW p \in Pages, PayFails(p)
  PROVE  Kept'
<1> USE CheckoutAssumption, QuoteBounds DEF Kept
<1>0. PayFailsDone(p)
  BY PayFailsEffect
<1>1. AppliesKept'
  BY <1>0 DEF PayFailsDone, AppliesKept, ApplyKept
<1>2. PagesKept'
  BY <1>0 DEF PayFailsDone, PagesKept, PageKept, InProgress
<1>3. OrdersKept'
  BY <1>0 DEF PayFailsDone, OrdersKept, OrderKept
<1>4. ChargeKept'
  BY <1>0 DEF PayFailsDone, ChargeKept, InProgress
<1>5. ShownKept'
  BY <1>0 DEF PayFailsDone, ShownKept
<1>6. CauseKept'
  BY <1>0 DEF PayFailsDone, CauseKept
<1>7. OnceKept'
  BY <1>0 DEF PayFailsDone, OnceKept, InProgress
<1>8. RowKept' /\ BookingKept' /\ SettlesKept'
  BY <1>0 DEF PayFailsDone, RowKept, AmountsAddUp, BookingKept, SettlesKept,
       SettleKept
<1> QED
  BY <1>1, <1>2, <1>3, <1>4, <1>5, <1>6, <1>7, <1>8

\* Razorpay.orders.create keeps every part of the invariant.
LEMMA PayCreateKeeps ==
  ASSUME CheckoutTypeOK, CheckoutTypeOK', Kept, NEW p \in Pages,
         NEW o \in Orders, PayCreate(p, o)
  PROVE  Kept'
<1> USE CheckoutAssumption, QuoteBounds DEF Kept
<1>0. PayCreateDone(p, o)
  BY PayCreateEffect
<1>1. PagesKept'
  <2>1. \A q \in Pages : page[q].modal \in Orders \cup {NoOrderYet}
    BY DEF CheckoutTypeOK, PageStates
  <2>2. \A q \in Orders : razorpay[q].state # "none" => razorpay'[q].state # "none"
    BY <1>0 DEF PayCreateDone
  <2>3. \A q \in Pages : order'[q].pc = "idle" <=> order[q].pc = "idle"
    BY <1>0 DEF PayCreateDone
  <2> QED
    BY <2>1, <2>2, <2>3, <1>0 DEF PayCreateDone, PagesKept, PageKept, InProgress
<1>2. OrdersKept'
  BY <1>0 DEF PayCreateDone, OrdersKept, OrderKept
<1>3. BookingKept'
  BY <1>0 DEF PayCreateDone, BookingKept
<1>4. SettlesKept'
  BY <1>0 DEF PayCreateDone, SettlesKept, SettleKept
<1>5. ChargeKept'
  <2> SUFFICES ASSUME ~raced'
               PROVE  ChargeKept'
    BY DEF ChargeKept
  <2>1. ~raced /\ UNCHANGED <<cart, page, apply>>
    BY <1>0 DEF PayCreateDone
  <2>2. order[p].charge = Charge(cart)
    BY <2>1, <1>0 DEF PayCreateDone, ChargeKept
  <2>3. \A q \in Pages : /\ order'[q].pc = "idle" <=> order[q].pc = "idle"
                         /\ order'[q].pc = "price" => order[q].pc = "price"
                         /\ order'[q].pc \in {"create", "update"}
                              => order'[q].charge = Charge(cart)
    BY <2>1, <2>2, <1>0 DEF PayCreateDone, ChargeKept
  <2>4. \A q \in Pages : page[q].modal \in Orders \cup {NoOrderYet}
    BY DEF CheckoutTypeOK, PageStates
  <2>5. \A q \in Pages : page[q].modal # NoOrderYet => page[q].modal # o
    BY <1>0 DEF PayCreateDone, PagesKept, PageKept
  <2>6. \A q \in Pages : page[q].modal # NoOrderYet
                         => razorpay'[page[q].modal].amount = Charge(cart)
    BY <2>1, <2>4, <2>5, <1>0 DEF PayCreateDone, ChargeKept
  <2>7. \A q \in Orders : razorpay'[q].state = "paid" => razorpay'[q].amount = Charge(cart)
    BY <2>1, <1>0 DEF PayCreateDone, ChargeKept
  <2>8. \A q \in Pages : order[q].pc # "idle" \/ cart.order # NoOrderYet
          => \A x \in Pages \X Discounts : apply[x].pc # "answer"
    BY <2>1 DEF ChargeKept, InProgress
  <2>9. \A q \in Pages : order[q].pc = "price" => cart.discount = 0
    BY <2>1 DEF ChargeKept
  <2> QED
    BY <2>1, <2>3, <2>6, <2>7, <2>8, <2>9 DEF ChargeKept, InProgress
<1>6. CauseKept'
  BY <1>0 DEF PayCreateDone, CauseKept, BookingKept, SettlesKept, SettleKept
<1>7. OnceKept'
  BY <1>0 DEF PayCreateDone, OnceKept, InProgress
<1>8. RowKept' /\ AppliesKept' /\ ShownKept'
  BY <1>0 DEF PayCreateDone, RowKept, AmountsAddUp, AppliesKept, ApplyKept,
       ShownKept
<1> QED
  BY <1>1, <1>2, <1>3, <1>4, <1>5, <1>6, <1>7, <1>8

\* A modal that is closed keeps every part of the invariant.
LEMMA ModalClosesKeeps ==
  ASSUME CheckoutTypeOK, CheckoutTypeOK', Kept, NEW p \in Pages, ModalCloses(p)
  PROVE  Kept'
<1> USE CheckoutAssumption, QuoteBounds DEF Kept
<1>0. ModalClosesDone(p)
  BY ModalClosesEffect
<1>1. AppliesKept'
  BY <1>0 DEF ModalClosesDone, AppliesKept, ApplyKept
<1>2. PagesKept'
  BY <1>0 DEF ModalClosesDone, PagesKept, PageKept, InProgress
<1>3. ChargeKept'
  BY <1>0 DEF ModalClosesDone, ChargeKept, InProgress
<1>4. ShownKept'
  BY <1>0 DEF ModalClosesDone, ShownKept
<1>5. OnceKept'
  BY <1>0 DEF ModalClosesDone, OnceKept, InProgress
<1>6. RowKept' /\ OrdersKept' /\ BookingKept' /\ SettlesKept' /\ CauseKept'
  BY <1>0 DEF ModalClosesDone, RowKept, AmountsAddUp, OrdersKept, OrderKept,
       BookingKept, SettlesKept, SettleKept, CauseKept
<1> QED
  BY <1>1, <1>2, <1>3, <1>4, <1>5, <1>6

\* A modal that is paid keeps every part of the invariant.
LEMMA ModalPaysKeeps ==
  ASSUME CheckoutTypeOK, CheckoutTypeOK', Kept, NEW p \in Pages, ModalPays(p)
  PROVE  Kept'
<1> USE CheckoutAssumption, QuoteBounds DEF Kept
<1>0. ModalPaysDone(p)
  BY ModalPaysEffect
<1>1. PagesKept'
  <2>1. \A q \in Pages : page[q].modal \in Orders \cup {NoOrderYet}
    BY DEF CheckoutTypeOK, PageStates
  <2>2. \A q \in Orders : /\ razorpay[q].state # "none" => razorpay'[q].state # "none"
                          /\ razorpay'[q].amount = razorpay[q].amount
    BY <1>0 DEF ModalPaysDone
  <2> QED
    BY <2>1, <2>2, <1>0 DEF ModalPaysDone, PagesKept, PageKept, InProgress
<1>2. OrdersKept'
  BY <1>0 DEF ModalPaysDone, OrdersKept, OrderKept
<1>3. BookingKept'
  BY <1>0 DEF ModalPaysDone, BookingKept, PagesKept, PageKept, InProgress
<1>4. SettlesKept'
  BY <1>0 DEF ModalPaysDone, SettlesKept, SettleKept
<1>5. ChargeKept'
  <2>1. \A q \in Pages : page[q].modal \in Orders \cup {NoOrderYet}
    BY DEF CheckoutTypeOK, PageStates
  <2>2. \A q \in Orders : /\ razorpay[q].state # "none" => razorpay'[q].state # "none"
                          /\ razorpay'[q].amount = razorpay[q].amount
    BY <1>0 DEF ModalPaysDone
  <2> SUFFICES ASSUME ~raced'
               PROVE  ChargeKept'
    BY DEF ChargeKept
  <2>3. ~raced /\ UNCHANGED <<cart, page, apply, order>>
    BY <1>0 DEF ModalPaysDone
  <2>4. \A q \in Pages : page[q].modal # NoOrderYet
                         => razorpay'[page[q].modal].amount = Charge(cart)
    BY <2>1, <2>2, <2>3 DEF ChargeKept
  <2>5. \A q \in Orders : razorpay'[q].state = "paid" => razorpay'[q].amount = Charge(cart)
    BY <2>2, <2>3, <2>4, <1>0 DEF ModalPaysDone, ChargeKept
  <2> QED
    BY <2>3, <2>4, <2>5 DEF ChargeKept, InProgress
<1>6. CauseKept'
  <2>1. \A q \in Pages : page[q].modal \in Orders \cup {NoOrderYet}
    BY DEF CheckoutTypeOK, PageStates
  <2>2. \A q \in Orders : /\ razorpay[q].state # "none" => razorpay'[q].state # "none"
                          /\ razorpay'[q].amount = razorpay[q].amount
    BY <1>0 DEF ModalPaysDone
  <2>3. UNCHANGED <<cart, settle, paymentLog, raced, checkoutFaults>>
    BY <1>0 DEF ModalPaysDone
  <2>4. \A s \in Settlers : settle[s].pc = "write" => settle[s].o \in Orders
    BY DEF SettlesKept, SettleKept
  <2> QED
    BY <2>2, <2>3, <2>4 DEF CauseKept
<1>7. OnceKept'
  BY <1>0 DEF ModalPaysDone, OnceKept, InProgress, PagesKept, PageKept
<1>8. RowKept' /\ AppliesKept' /\ ShownKept'
  BY <1>0 DEF ModalPaysDone, RowKept, AmountsAddUp, AppliesKept, ApplyKept,
       ShownKept
<1> QED
  BY <1>1, <1>2, <1>3, <1>4, <1>5, <1>6, <1>7, <1>8

\* The start of reconcileBooking keeps every part of the invariant.
LEMMA SettleStartKeeps ==
  ASSUME CheckoutTypeOK, CheckoutTypeOK', Kept, NEW s \in Settlers,
         NEW o \in Orders, SettleStart(s, o)
  PROVE  Kept'
<1> USE CheckoutAssumption, QuoteBounds DEF Kept
<1>0. SettleStartDone(s, o)
  BY SettleStartEffect
<1>1. SettlesKept'
  BY <1>0 DEF SettleStartDone, SettlesKept, SettleKept
<1>2. CauseKept'
  BY <1>0 DEF SettleStartDone, CauseKept
<1>3. RowKept' /\ AppliesKept' /\ PagesKept' /\ OrdersKept'
  BY <1>0 DEF SettleStartDone, RowKept, AmountsAddUp, AppliesKept, ApplyKept,
       PagesKept, PageKept, InProgress, OrdersKept, OrderKept
<1>4. BookingKept' /\ ChargeKept' /\ ShownKept' /\ OnceKept'
  BY <1>0 DEF SettleStartDone, BookingKept, ChargeKept, InProgress, ShownKept,
       OnceKept
<1> QED
  BY <1>1, <1>2, <1>3, <1>4

\* Its read of the booking keeps every part of the invariant.
LEMMA SettleBookingKeeps ==
  ASSUME CheckoutTypeOK, CheckoutTypeOK', Kept, NEW s \in Settlers,
         SettleBooking(s)
  PROVE  Kept'
<1> USE CheckoutAssumption, QuoteBounds DEF Kept
<1>0. SettleBookingDone(s)
  BY SettleBookingEffect
<1>1. SettlesKept'
  BY <1>0 DEF SettleBookingDone, SettlesKept, SettleKept
<1>2. CauseKept'
  BY <1>0 DEF SettleBookingDone, CauseKept
<1>3. RowKept' /\ AppliesKept' /\ PagesKept' /\ OrdersKept'
  BY <1>0 DEF SettleBookingDone, RowKept, AmountsAddUp, AppliesKept, ApplyKept,
       PagesKept, PageKept, InProgress, OrdersKept, OrderKept
<1>4. BookingKept' /\ ChargeKept' /\ ShownKept' /\ OnceKept'
  BY <1>0 DEF SettleBookingDone, BookingKept, ChargeKept, InProgress, ShownKept,
       OnceKept
<1> QED
  BY <1>1, <1>2, <1>3, <1>4

\* VerifyPayment keeps every part of the invariant.
LEMMA SettleVerifyKeeps ==
  ASSUME CheckoutTypeOK, CheckoutTypeOK', Kept, NEW s \in Settlers,
         SettleVerify(s)
  PROVE  Kept'
<1> USE CheckoutAssumption, QuoteBounds DEF Kept
<1>0. SettleVerifyDone(s)
  BY SettleVerifyEffect
<1>1. SettlesKept'
  BY <1>0 DEF SettleVerifyDone, SettlesKept, SettleKept, Verified
<1>2. CauseKept'
  <2> SUFFICES ASSUME ~raced', checkoutFaults' = 0
               PROVE  CauseKept'
    BY DEF CauseKept
  <2>1. UNCHANGED <<cart, razorpay, paymentLog>> /\ ~raced
    BY <1>0 DEF SettleVerifyDone
  <2>2. checkoutFaults = 0
    BY CheckoutAssumption, <1>0 DEF SettleVerifyDone, CheckoutTypeOK
  <2>3. settle'[s].final = cart.final /\ settle[s].final = cart.final
    BY <2>1, <2>2, <1>0 DEF SettleVerifyDone, CauseKept
  <2>4. ASSUME settle'[s].ok = FALSE
        PROVE  razorpay[settle[s].o].amount \in Inexact \/ cart.final = 0
    <3>1. ~Verified(s)
      BY <2>4, <1>0 DEF SettleVerifyDone
    <3>2. settle[s].o \in Orders /\ razorpay[settle[s].o].state = "paid"
      BY <1>0 DEF SettleVerifyDone, SettlesKept, SettleKept
    <3>3. razorpay[settle[s].o].amount = Charge(cart) /\ cart.total = Quote
      BY <2>1, <3>2 DEF ChargeKept, BookingKept
    <3>4. cart.discount \in Nat
      BY DEF CheckoutTypeOK, Carts, Amounts
    <3>5. cart.final = 0 \/ Charge(cart) = cart.final
      BY <3>3, <3>4 DEF RowKept, Charge
    <3> QED
      BY <3>1, <3>3, <3>5, <2>3 DEF Verified
  <2>5. settle'[s].ok \in BOOLEAN
    BY DEF CheckoutTypeOK, Settlements
  <2>6. /\ settle'[s].o = settle[s].o
        /\ \A r \in Settlers \ {s} : settle'[r] = settle[r]
    BY <1>0 DEF SettleVerifyDone
  <2> QED
    BY <2>1, <2>2, <2>3, <2>4, <2>5, <2>6 DEF CauseKept
<1>3. RowKept' /\ AppliesKept' /\ PagesKept' /\ OrdersKept'
  BY <1>0 DEF SettleVerifyDone, RowKept, AmountsAddUp, AppliesKept, ApplyKept,
       PagesKept, PageKept, InProgress, OrdersKept, OrderKept
<1>4. BookingKept' /\ ChargeKept' /\ ShownKept' /\ OnceKept'
  BY <1>0 DEF SettleVerifyDone, BookingKept, ChargeKept, InProgress, ShownKept,
       OnceKept
<1> QED
  BY <1>1, <1>2, <1>3, <1>4

\* The transaction of reconcileBooking keeps every part of the invariant.
LEMMA SettleWriteKeeps ==
  ASSUME CheckoutTypeOK, CheckoutTypeOK', Kept, NEW s \in Settlers, SettleWrite(s)
  PROVE  Kept'
<1> USE CheckoutAssumption, QuoteBounds DEF Kept
<1>0. SettleWriteDone(s)
  BY SettleWriteEffect
<1>1. RowKept'
  BY <1>0 DEF SettleWriteDone, RowKept, AmountsAddUp
<1>2. AppliesKept'
  BY <1>0 DEF SettleWriteDone, AppliesKept, ApplyKept
<1>3. PagesKept'
  BY <1>0 DEF SettleWriteDone, PagesKept, PageKept, InProgress
<1>4. OrdersKept'
  BY <1>0 DEF SettleWriteDone, OrdersKept, OrderKept
<1>5. BookingKept'
  <2>1. settle[s].o \in Orders /\ razorpay[settle[s].o].state = "paid"
    BY <1>0 DEF SettleWriteDone, SettlesKept, SettleKept
  <2>2. cart.order # NoOrderYet /\ cart.status # "LOCKED"
    BY <2>1 DEF BookingKept
  <2>3. \A q \in Orders \ {settle[s].o} : paymentLog'[q] = paymentLog[q]
    BY <2>1, <1>0 DEF SettleWriteDone, CheckoutTypeOK
  <2>4. /\ cart'.order = cart.order /\ cart'.total = cart.total
        /\ cart'.discount = cart.discount /\ cart'.final = cart.final
        /\ cart'.status = cart.status \/ cart'.status \in {"CONFIRMED", "FAILED"}
        /\ UNCHANGED <<razorpay, page, order, twin, raced, checkoutFaults>>
    BY <1>0 DEF SettleWriteDone
  <2> QED
    BY <2>1, <2>2, <2>3, <2>4 DEF BookingKept
<1>6. SettlesKept'
  BY <1>0 DEF SettleWriteDone, SettlesKept, SettleKept
<1>7. ChargeKept'
  BY <1>0 DEF SettleWriteDone, ChargeKept, InProgress, Charge
<1>8. ShownKept'
  BY <1>0 DEF SettleWriteDone, ShownKept, Charge
<1>9. CauseKept'
  <2>1. settle[s].o \in Orders /\ razorpay[settle[s].o].state = "paid"
    BY <1>0 DEF SettleWriteDone, SettlesKept, SettleKept
  <2>2. cart.order # NoOrderYet /\ cart.status # "LOCKED"
    BY <2>1 DEF BookingKept
  <2>3. \A q \in Orders \ {settle[s].o} : paymentLog'[q] = paymentLog[q]
    BY <2>1, <1>0 DEF SettleWriteDone, CheckoutTypeOK
  <2>4. /\ cart'.order = cart.order /\ cart'.total = cart.total
        /\ cart'.discount = cart.discount /\ cart'.final = cart.final
        /\ cart'.status = cart.status \/ cart'.status \in {"CONFIRMED", "FAILED"}
        /\ UNCHANGED <<razorpay, page, order, twin, raced, checkoutFaults>>
    BY <1>0 DEF SettleWriteDone
  <2> SUFFICES ASSUME ~raced, checkoutFaults = 0
               PROVE  CauseKept'
    BY <2>4 DEF CauseKept
  <2>5. ASSUME paymentLog'[settle[s].o] = "MISMATCH"
        PROVE  razorpay[settle[s].o].amount \in Inexact \/ cart.final = 0
    <3>1. CASE paymentLog[settle[s].o] = "MISMATCH"
      BY <3>1, <2>1 DEF CauseKept
    <3>2. CASE paymentLog[settle[s].o] # "MISMATCH"
      <4>1. ~settle[s].ok
        BY <3>2, <2>1, <2>5, <1>0 DEF SettleWriteDone, CheckoutTypeOK
      <4> QED
        BY <4>1, <1>0 DEF SettleWriteDone, CauseKept
    <3> QED
      BY <3>1, <3>2
  <2>6. /\ settle'[s].pc = "done"
        /\ \A r \in Settlers \ {s} : settle'[r] = settle[r]
    BY <1>0 DEF SettleWriteDone
  <2>7. \A q \in Orders : paymentLog'[q] = "MISMATCH"
          => razorpay'[q].amount \in Inexact \/ cart'.final = 0
    BY <2>1, <2>3, <2>4, <2>5 DEF CauseKept
  <2> QED
    BY <2>4, <2>6, <2>7 DEF CauseKept
<1>10. OnceKept'
  <2>1. settle[s].o \in Orders /\ razorpay[settle[s].o].state = "paid"
    BY <1>0 DEF SettleWriteDone, SettlesKept, SettleKept
  <2>2. cart.order # NoOrderYet /\ cart.status # "LOCKED"
    BY <2>1 DEF BookingKept
  <2>3. \A q \in Orders \ {settle[s].o} : paymentLog'[q] = paymentLog[q]
    BY <2>1, <1>0 DEF SettleWriteDone, CheckoutTypeOK
  <2>4. /\ cart'.order = cart.order /\ cart'.total = cart.total
        /\ cart'.discount = cart.discount /\ cart'.final = cart.final
        /\ cart'.status = cart.status \/ cart'.status \in {"CONFIRMED", "FAILED"}
        /\ UNCHANGED <<razorpay, page, order, twin, raced, checkoutFaults>>
    BY <1>0 DEF SettleWriteDone
  <2> SUFFICES ASSUME ~twin
               PROVE  OnceKept'
    BY <2>4 DEF OnceKept
  <2>5. settle[s].o = cart.order
    BY <2>1 DEF OnceKept
  <2>6. paymentLog'[settle[s].o] # "none"
    BY <2>1, <1>0 DEF SettleWriteDone, CheckoutTypeOK
  <2>7. \A q \in Pages : order[q].pc = "idle"
    BY <2>2 DEF OnceKept, InProgress
  <2> QED
    BY <2>4, <2>5, <2>6, <2>7 DEF OnceKept, InProgress
<1> QED
  BY <1>1, <1>2, <1>3, <1>4, <1>5, <1>6, <1>7, <1>8, <1>9, <1>10

\* A reconcileBooking that dies keeps every part of the invariant.
LEMMA SettleDiesKeeps ==
  ASSUME CheckoutTypeOK, CheckoutTypeOK', Kept, NEW s \in Settlers, SettleDies(s)
  PROVE  Kept'
<1> USE CheckoutAssumption, QuoteBounds DEF Kept
<1>0. SettleDiesDone(s)
  BY SettleDiesEffect
<1>1. SettlesKept'
  BY <1>0 DEF SettleDiesDone, SettlesKept, SettleKept
<1>2. CauseKept'
  BY <1>0 DEF SettleDiesDone, CauseKept
<1>3. RowKept' /\ AppliesKept' /\ PagesKept' /\ OrdersKept'
  BY <1>0 DEF SettleDiesDone, RowKept, AmountsAddUp, AppliesKept, ApplyKept,
       PagesKept, PageKept, InProgress, OrdersKept, OrderKept
<1>4. BookingKept' /\ ChargeKept' /\ ShownKept' /\ OnceKept'
  BY <1>0 DEF SettleDiesDone, BookingKept, ChargeKept, InProgress, ShownKept,
       OnceKept
<1> QED
  BY <1>1, <1>2, <1>3, <1>4
-----------------------------------------------------------------------------
(* The theorems.                                                           *)

\* The inductive invariant.
CheckoutInv == CheckoutTypeOK /\ Kept

\* It holds at the beginning.
LEMMA CheckoutBegins == CheckoutInit => CheckoutInv
<1> SUFFICES ASSUME CheckoutInit
             PROVE  CheckoutInv
  OBVIOUS
<1>1. CheckoutTypeOK
  BY CheckoutTypeBegins
<1>2. PICK t \in {0, Quote}, f \in {0, Quote} :
        cart = [status |-> "LOCKED", total |-> t, coupon |-> FALSE,
                gift |-> FALSE, couponOff |-> 0, giftOff |-> 0, discount |-> 0,
                final |-> f, order |-> NoOrderYet]
  BY DEF CheckoutInit
<1>3. /\ cart.status = "LOCKED" /\ cart.order = NoOrderYet /\ cart.total \in {0, Quote}
      /\ cart.discount = 0 /\ cart.couponOff = 0 /\ cart.giftOff = 0
      /\ cart.final \in {0, Quote}
  BY <1>2
<1>4. /\ \A p \in Pages : /\ ~page[p].ready /\ page[p].total = 0
                          /\ page[p].modal = NoOrderYet /\ order[p].pc = "idle"
      /\ \A x \in Pages \X Discounts : apply[x].pc = "idle"
      /\ \A o \in Orders : razorpay[o].state = "none" /\ paymentLog[o] = "none"
      /\ \A s \in Settlers : settle[s].pc = "idle"
  BY DEF CheckoutInit, IdleApply
<1>5. RowKept /\ BookingKept
  BY <1>3, <1>4 DEF RowKept, AmountsAddUp, BookingKept
<1>6. AppliesKept /\ PagesKept /\ OrdersKept /\ SettlesKept
  BY <1>3, <1>4 DEF AppliesKept, ApplyKept, PagesKept, PageKept, OrdersKept,
       OrderKept,
                    SettlesKept, SettleKept, InProgress
<1>7. ChargeKept /\ ShownKept
  BY <1>3, <1>4 DEF ChargeKept, ShownKept, InProgress
<1>8. CauseKept /\ OnceKept
  BY <1>3, <1>4 DEF CauseKept, OnceKept, InProgress
<1> QED
  BY <1>1, <1>5, <1>6, <1>7, <1>8 DEF CheckoutInv, Kept

\* It says nothing but of the variables.
LEMMA CheckoutStays ==
  CheckoutInv /\ UNCHANGED checkoutVars => CheckoutInv'
<1> SUFFICES ASSUME CheckoutInv, UNCHANGED checkoutVars
             PROVE  CheckoutInv'
  OBVIOUS
<1> USE DEF checkoutVars, CheckoutInv, Kept
<1>1. CheckoutTypeOK'
  BY DEF CheckoutTypeOK
<1>2. RowKept' /\ BookingKept'
  BY DEF RowKept, AmountsAddUp, BookingKept
<1>3. AppliesKept' /\ PagesKept' /\ OrdersKept' /\ SettlesKept'
  BY DEF AppliesKept, ApplyKept, PagesKept, PageKept, OrdersKept, OrderKept,
         SettlesKept, SettleKept, InProgress
<1>4. ChargeKept' /\ ShownKept'
  BY DEF ChargeKept, ShownKept, InProgress, Charge
<1>5. CauseKept' /\ OnceKept'
  BY DEF CauseKept, OnceKept, InProgress
<1> QED
  BY <1>1, <1>2, <1>3, <1>4, <1>5

\* Every step keeps it.
LEMMA CheckoutStep == CheckoutInv /\ [CheckoutNext]_checkoutVars => CheckoutInv'
<1> SUFFICES ASSUME CheckoutInv, [CheckoutNext]_checkoutVars
             PROVE  CheckoutInv'
  OBVIOUS
<1>0. CheckoutTypeOK /\ Kept
  BY DEF CheckoutInv
<1>1. ASSUME NEW p \in Pages, PageLoad(p) \/ ModalCloses(p) \/ ModalPays(p)
      PROVE  CheckoutInv'
  <2>1. CheckoutTypeOK'
    BY <1>0, <1>1, PageKeepsType
  <2>2. Kept'
    BY <1>0, <1>1, <2>1, PageLoadKeeps, ModalClosesKeeps, ModalPaysKeeps
  <2> QED
    BY <2>1, <2>2 DEF CheckoutInv
<1>2. ASSUME NEW p \in Pages, NEW k \in Discounts, ApplyStep(p, k)
      PROVE  CheckoutInv'
  <2>1. CheckoutTypeOK'
    BY <1>0, <1>2, ApplyKeepsType
  <2>2. Kept'
    BY <1>0, <1>2, <2>1, ApplyReadKeeps, ApplyWriteKeeps, ApplyAnswerKeeps,
       ApplyFailsKeeps DEF ApplyStep
  <2> QED
    BY <2>1, <2>2 DEF CheckoutInv
<1>3. ASSUME NEW p \in Pages, PayStep(p)
      PROVE  CheckoutInv'
  <2>1. CheckoutTypeOK'
    BY <1>0, <1>3, PayKeepsType
  <2>2. Kept'
    BY <1>0, <1>3, <2>1, PayReadKeeps, PayPriceKeeps, PayUpdateKeeps,
         PayFailsKeeps,
       PayCreateKeeps DEF PayStep
  <2> QED
    BY <2>1, <2>2 DEF CheckoutInv
<1>4. ASSUME NEW s \in Settlers, SettleStep(s)
      PROVE  CheckoutInv'
  <2>1. CheckoutTypeOK'
    BY <1>0, <1>4, SettleKeepsType
  <2>2. Kept'
    BY <1>0, <1>4, <2>1, SettleStartKeeps, SettleBookingKeeps, SettleVerifyKeeps,
       SettleWriteKeeps, SettleDiesKeeps DEF SettleStep
  <2> QED
    BY <2>1, <2>2 DEF CheckoutInv
<1>5. CASE UNCHANGED checkoutVars
  BY <1>5, CheckoutStays
<1> QED
  BY <1>1, <1>2, <1>3, <1>4, <1>5 DEF CheckoutNext

\* The inductive invariant holds in every behaviour, for any number of tabs, calls,
\* orders and requests, and any prices.
THEOREM CheckoutInvariant == CheckoutSpec => []CheckoutInv
<1> QED
  BY CheckoutBegins, CheckoutStep, PTL DEF CheckoutSpec

\* The rows, the requests and the tabs have their types; in particular no amount
\* of the row is negative or above the quote.
THEOREM CheckoutTypes == CheckoutSpec => []CheckoutTypeOK
<1>1. CheckoutInv => CheckoutTypeOK
  BY DEF CheckoutInv
<1> QED
  BY <1>1, CheckoutInvariant, PTL

\* checkout/page.tsx handlePay and createRazorpayOrder: the modal asks for what the
\* page shows, unless a discount was applied beside another request or in another
\* tab, or the page had no total to show.
THEOREM ShownAmountIsCharged == CheckoutSpec => []ShownIsCharged
<1>1. CheckoutInv => ShownIsCharged
  <2> SUFFICES ASSUME CheckoutInv, NEW p \in Pages, page[p].modal # NoOrderYet,
                      ~raced, p \notin aged, page[p].total # 0
               PROVE  razorpay[page[p].modal].amount = page[p].shown
    BY DEF ShownIsCharged
  <2>1. page[p].ready /\ cart.order # NoOrderYet
    BY DEF CheckoutInv, Kept, PagesKept, PageKept
  <2>2. razorpay[page[p].modal].amount = Charge(cart)
    BY DEF CheckoutInv, Kept, ChargeKept
  <2>3. \A k \in Discounts : apply[<<p, k>>].pc # "answer"
    BY <2>1 DEF CheckoutInv, Kept, ChargeKept
  <2> QED
    BY <2>1, <2>2, <2>3 DEF CheckoutInv, Kept, ShownKept
<1> QED
  BY <1>1, CheckoutInvariant, PTL

\* discount.service.ts applyDiscounts: whichever request writes last, the row's
\* discount, its two columns and finalAmount belong together.
THEOREM RowAmountsAddUp == CheckoutSpec => []AmountsAddUp
<1>1. CheckoutInv => AmountsAddUp
  BY DEF CheckoutInv, Kept, RowKept
<1> QED
  BY <1>1, CheckoutInvariant, PTL

\* payments-reconciliation.service.ts: a paid booking is marked FAILED only after a
\* race of a discount, a failed call, an amount floats do not hold, or without a
\* finalAmount.
THEOREM PaidIsFailedWithCause == CheckoutSpec => []PaidFailedCause
<1>1. CheckoutInv => PaidFailedCause
  <2> SUFFICES ASSUME CheckoutInv, NEW o \in Orders, paymentLog[o] = "MISMATCH",
                      ~raced, ~(checkoutFaults > 0)
               PROVE  razorpay[o].amount \in Inexact \/ cart.final = 0
    BY DEF PaidFailedCause
  <2>1. checkoutFaults = 0
    BY CheckoutAssumption DEF CheckoutInv, CheckoutTypeOK
  <2> QED
    BY <2>1 DEF CheckoutInv, Kept, CauseKept
<1> QED
  BY <1>1, CheckoutInvariant, PTL

\* createRazorpayOrder: two orders of the booking are paid only if two were asked
\* for at once.
THEOREM PaidTwiceIsByTwins == CheckoutSpec => []PaidTwiceOnlyByTwins
<1>1. CheckoutInv => PaidTwiceOnlyByTwins
  <2> SUFFICES ASSUME CheckoutInv, ~twin, NEW o \in Orders, NEW q \in Orders,
                      razorpay[o].state = "paid", razorpay[q].state = "paid"
               PROVE  o = q
    BY DEF PaidTwiceOnlyByTwins
  <2> QED
    BY DEF CheckoutInv, Kept, OnceKept
<1> QED
  BY <1>1, CheckoutInvariant, PTL

\* A step that takes CONFIRMED from the row needs two orders asked for at once.
LEMMA ConfirmedStep ==
  ASSUME CheckoutInv, [CheckoutNext]_checkoutVars, ~twin,
         cart.status = "CONFIRMED"
  PROVE  cart'.status = "CONFIRMED"
<1>0. CheckoutTypeOK /\ Kept
  BY DEF CheckoutInv
<1>1. ASSUME NEW p \in Pages, PageLoad(p) \/ ModalCloses(p) \/ ModalPays(p)
      PROVE  cart'.status = "CONFIRMED"
  BY <1>1 DEF PageLoad, ModalCloses, ModalPays
<1>2. ASSUME NEW p \in Pages, NEW k \in Discounts, ApplyStep(p, k)
      PROVE  cart'.status = "CONFIRMED"
  <2>1. CASE ApplyWrite(p, k)
    BY <2>1, <1>0, ApplyWriteEffect DEF ApplyWriteDone
  <2> QED
    BY <1>2, <2>1 DEF ApplyStep, ApplyRead, ApplyAnswer, ApplyFails
<1>3. ASSUME NEW p \in Pages, PayStep(p)
      PROVE  cart'.status = "CONFIRMED"
  <2>1. order[p].pc = "idle"
    BY <1>0 DEF Kept, OnceKept, InProgress
  <2> QED
    BY <1>3, <2>1 DEF PayStep, PayRead, PayPrice, PayUpdate, PayFails, PayCreate
<1>4. ASSUME NEW s \in Settlers, SettleStep(s)
      PROVE  cart'.status = "CONFIRMED"
  <2>1. CASE SettleWrite(s)
    <3>1. SettleWriteDone(s)
      BY <2>1, <1>0, SettleWriteEffect
    <3>2. settle[s].o \in Orders /\ razorpay[settle[s].o].state = "paid"
      BY <1>0, <3>1 DEF SettleWriteDone, Kept, SettlesKept, SettleKept
    <3>3. settle[s].o = cart.order /\ paymentLog[cart.order] # "none"
      BY <1>0, <3>2 DEF Kept, OnceKept
    <3> QED
      BY <3>1, <3>3 DEF SettleWriteDone
  <2> QED
    BY <1>4, <2>1 DEF SettleStep, SettleStart, SettleBooking, SettleVerify,
         SettleDies
<1>5. CASE UNCHANGED checkoutVars
  BY <1>5 DEF checkoutVars
<1> QED
  BY <1>1, <1>2, <1>3, <1>4, <1>5 DEF CheckoutNext

\* reconcileBooking and createRazorpayOrder: CONFIRMED is overwritten only when two
\* orders were asked for at once.
THEOREM ConfirmedIsKept == CheckoutSpec => ConfirmedStays
<1>1. CheckoutInv /\ [CheckoutNext]_checkoutVars
        => [cart.status = "CONFIRMED" /\ cart'.status # "CONFIRMED" => twin]_checkoutVars
  BY ConfirmedStep
<1> QED
  BY <1>1, CheckoutInvariant, PTL DEF CheckoutSpec, ConfirmedStays
-----------------------------------------------------------------------------
(* Sums over finite sets.                                                  *)

\* What is due for the orders of S: the sum RevenueIsReceived speaks of.
Due(r, S) == Sets!MapThenSumSet(LAMBDA o : r[o].amount, S)

\* The element MapThenSumSet takes next.
Pick(S) == CHOOSE x \in S : TRUE

\* h is the recursive function by which MapThenSumSet sums the amounts of r over S.
DueIs(r, S, h) ==
  h = [s \in SUBSET S |-> IF s = {} THEN 0
                          ELSE r[Pick(s)].amount + h[s \ {Pick(s)}]]

\* Orders with their amounts.
Bills == [Orders -> [amount : Nat, state : {"none", "created", "paid"}]]

\* The sum is the value of the function its definition chooses.
LEMMA DueDef ==
  ASSUME NEW r, NEW S
  PROVE  Due(r, S) = (CHOOSE h : DueIs(r, S, h))[S]
BY DEF Due, Sets!MapThenSumSet, Sets!MapThenFoldSet, DueIs, Pick

\* A set of naturals that is not empty has a least element.
LEMMA LeastNatural ==
  ASSUME NEW N \in SUBSET Nat, N # {}
  PROVE  \E n \in N : \A m \in N : n <= m
<1>1. IsWellFoundedOn(OpToRel(<, Nat), Nat)
  BY NatLessThanWellFounded
<1>2. \E x \in N : \A y \in N : ~ (<<y, x>> \in OpToRel(<, Nat))
  <2> DEFINE R == OpToRel(<, Nat)
  <2>1. IsWellFoundedOn(R, Nat)
    BY <1>1
  <2> HIDE DEF R
  <2>2. \E x \in N : \A y \in N : ~ (<<y, x>> \in R)
    BY <2>1, WFMin
  <2> QED
    BY <2>2 DEF R
<1>3. PICK n \in N : \A m \in N : ~ (<<m, n>> \in OpToRel(<, Nat))
  BY <1>2
<1>4. \A m \in N : ~ (m < n)
  BY <1>3 DEF OpToRel
<1> QED
  BY <1>4

\* Among subsets of a finite set there is one none of whose elements can be spared:
\* a counterexample that is smallest.  The facts about sums rest on it, in place of
\* an induction over the set.
LEMMA SmallestSet ==
  ASSUME NEW S, IsFiniteSet(S), NEW B \in SUBSET (SUBSET S), B # {}
  PROVE  \E s \in B : \A x \in s : s \ {x} \notin B
<1> DEFINE N == {Cardinality(s) : s \in B}
<1>1. \A s \in B : IsFiniteSet(s) /\ Cardinality(s) \in Nat
  BY FS_Subset, FS_CardinalityType
<1>2. N \in SUBSET Nat /\ N # {}
  BY <1>1
<1>3. PICK n \in N : \A m \in N : n <= m
  <2> HIDE DEF N
  <2> QED
    BY <1>2, LeastNatural
<1>4. PICK s \in B : n = Cardinality(s)
  OBVIOUS
<1>5. ASSUME NEW x \in s, s \ {x} \in B
      PROVE  FALSE
  <2>1. Cardinality(s \ {x}) = Cardinality(s) - 1
    BY <1>1, FS_RemoveElement
  <2>2. n <= Cardinality(s \ {x})
    BY <1>3, <1>5
  <2> QED
    BY <2>1, <2>2, <1>1, <1>4
<1> QED
  BY <1>5

\* The element taken next is in the set.
LEMMA PickIn ==
  ASSUME NEW s, s # {}
  PROVE  Pick(s) \in s
BY DEF Pick

\* Two such functions agree where both are defined.
LEMMA DueUnique ==
  ASSUME NEW r, NEW S, NEW T, NEW g, NEW h, DueIs(r, S, g), DueIs(r, T, h),
         IsFiniteSet(S), NEW s \in SUBSET S, s \subseteq T
  PROVE  g[s] = h[s]
<1> DEFINE B == {t \in SUBSET S : t \subseteq T /\ g[t] # h[t]}
<1> SUFFICES ASSUME B # {}
             PROVE  FALSE
  OBVIOUS
<1>1. B \in SUBSET (SUBSET S)
  OBVIOUS
<1>2. PICK t \in B : \A x \in t : t \ {x} \notin B
  <2> HIDE DEF B
  <2> QED
    BY <1>1, SmallestSet
<1>3. /\ g[t] = IF t = {} THEN 0 ELSE r[Pick(t)].amount + g[t \ {Pick(t)}]
      /\ h[t] = IF t = {} THEN 0 ELSE r[Pick(t)].amount + h[t \ {Pick(t)}]
  BY DEF DueIs
<1>4. CASE t = {}
  BY <1>3, <1>4
<1>5. CASE t # {}
  <2>1. Pick(t) \in t
    BY <1>5, PickIn
  <2>2. g[t \ {Pick(t)}] = h[t \ {Pick(t)}]
    BY <1>2, <2>1
  <2> QED
    BY <1>3, <1>5, <2>2
<1> QED
  BY <1>4, <1>5

\* If there is such a function, the sum is its value.
LEMMA DueOf ==
  ASSUME NEW r, NEW S, NEW h, DueIs(r, S, h), IsFiniteSet(S), NEW s \in SUBSET S
  PROVE  Due(r, s) = h[s]
<1> DEFINE g == [t \in SUBSET s |-> h[t]]
<1>1. DueIs(r, s, g)
  <2>1. ASSUME NEW t \in SUBSET s
        PROVE  g[t] = IF t = {} THEN 0 ELSE r[Pick(t)].amount + g[t \ {Pick(t)}]
    <3>1. h[t] = IF t = {} THEN 0 ELSE r[Pick(t)].amount + h[t \ {Pick(t)}]
      BY DEF DueIs
    <3>2. g[t] = h[t] /\ g[t \ {Pick(t)}] = h[t \ {Pick(t)}]
      OBVIOUS
    <3> QED
      BY <3>1, <3>2
  <2> QED
    BY <2>1 DEF DueIs
<1> HIDE DEF g
<1>2. DueIs(r, s, CHOOSE k : DueIs(r, s, k))
  BY <1>1
<1> DEFINE k == CHOOSE k : DueIs(r, s, k)
<1>3. DueIs(r, s, k) /\ Due(r, s) = k[s]
  BY <1>2, DueDef
<1> HIDE DEF k
<1>4. IsFiniteSet(s)
  BY FS_Subset
<1>5. k[s] = h[s]
  BY <1>3, <1>4, DueUnique
<1> QED
  BY <1>3, <1>5

\* There is one for a set if there is one for every smaller set.
LEMMA DueRecursion ==
  ASSUME NEW r, NEW S, IsFiniteSet(S),
         \A t \in SUBSET S : t # S => \E h : DueIs(r, t, h)
  PROVE  \E h : DueIs(r, S, h)
<1> DEFINE first == IF S = {} THEN 0 ELSE r[Pick(S)].amount + Due(r, S \ {Pick(S)})
           h == [t \in SUBSET S |-> IF t = S THEN first ELSE Due(r, t)]
<1>1. ASSUME NEW t \in SUBSET S
      PROVE  h[t] = IF t = {} THEN 0 ELSE r[Pick(t)].amount + h[t \ {Pick(t)}]
  <2>0. t # {} => Pick(t) \in t /\ t \ {Pick(t)} # S /\ t \ {Pick(t)} \in SUBSET S
    BY PickIn
  <2>1. CASE t = S
    <3>1. t # {} => h[t \ {Pick(t)}] = Due(r, t \ {Pick(t)})
      BY <2>0
    <3>2. h[t] = first
      BY <2>1
    <3> QED
      BY <3>1, <3>2, <2>1
  <2>2. CASE t # S
    <3>1. PICK g : DueIs(r, t, g)
      BY <2>2
    <3>2. IsFiniteSet(t)
      BY FS_Subset
    <3>3. Due(r, t) = g[t]
      BY <3>1, <3>2, DueOf
    <3>4. t # {} => Due(r, t \ {Pick(t)}) = g[t \ {Pick(t)}]
      BY <3>1, <3>2, DueOf
    <3>5. g[t] = IF t = {} THEN 0 ELSE r[Pick(t)].amount + g[t \ {Pick(t)}]
      BY <3>1 DEF DueIs
    <3>6. h[t] = Due(r, t) /\ (t # {} => h[t \ {Pick(t)}] = Due(r, t \ {Pick(t)}))
      BY <2>0, <2>2
    <3> HIDE DEF h
    <3> QED
      BY <3>3, <3>4, <3>5, <3>6
  <2> QED
    BY <2>1, <2>2
<1>2. DueIs(r, S, h)
  <2> DEFINE e == [t \in SUBSET S |-> IF t = {} THEN 0
                          ELSE r[Pick(t)].amount + h[t \ {Pick(t)}]]
  <2>1. \A t \in SUBSET S : h[t] = e[t]
    BY <1>1
  <2>2. h = e
    BY <2>1
  <2> QED
    BY <2>2 DEF DueIs
<1> QED
  BY <1>2

\* There is one for every finite set.
LEMMA DueExists ==
  ASSUME NEW r, NEW S, IsFiniteSet(S)
  PROVE  \E h : DueIs(r, S, h)
<1> DEFINE B == {t \in SUBSET S : ~ \E h : DueIs(r, t, h)}
<1> SUFFICES ASSUME B # {}
             PROVE  FALSE
  OBVIOUS
<1>1. PICK t \in B : \A x \in t : t \ {x} \notin B
  <2>1. B \in SUBSET (SUBSET S)
    OBVIOUS
  <2> HIDE DEF B
  <2> QED
    BY <2>1, SmallestSet
<1>2. IsFiniteSet(t)
  BY FS_Subset
<1>3. ASSUME NEW u \in SUBSET t, u # t
      PROVE  \E h : DueIs(r, u, h)
  <2>1. PICK x \in t : x \notin u
    BY <1>3
  <2>2. PICK h : DueIs(r, t \ {x}, h)
    BY <1>1, <2>1
  <2>3. u \in SUBSET (t \ {x})
    BY <2>1
  <2> DEFINE g == [v \in SUBSET u |-> h[v]]
  <2>4. ASSUME NEW v \in SUBSET u
        PROVE  g[v] = IF v = {} THEN 0 ELSE r[Pick(v)].amount + g[v \ {Pick(v)}]
    <3>1. h[v] = IF v = {} THEN 0 ELSE r[Pick(v)].amount + h[v \ {Pick(v)}]
      BY <2>2, <2>3 DEF DueIs
    <3>2. g[v] = h[v] /\ g[v \ {Pick(v)}] = h[v \ {Pick(v)}]
      OBVIOUS
    <3> QED
      BY <3>1, <3>2
  <2>5. DueIs(r, u, g)
    BY <2>4 DEF DueIs
  <2> QED
    BY <2>5
<1>4. \E h : DueIs(r, t, h)
  BY <1>2, <1>3, DueRecursion
<1> QED
  BY <1>4

\* The sum as a recursion: nothing is due for no order.
LEMMA DueStep ==
  ASSUME NEW r, NEW S, IsFiniteSet(S)
  PROVE  /\ Due(r, {}) = 0
         /\ S # {} => Due(r, S) = r[Pick(S)].amount + Due(r, S \ {Pick(S)})
<1>1. PICK h : DueIs(r, S, h)
  BY DueExists
<1>2. \A s \in SUBSET S : Due(r, s) = h[s]
  BY <1>1, DueOf
<1>3. \A s \in SUBSET S : h[s] = IF s = {} THEN 0 ELSE r[Pick(s)].amount + h[s \ {Pick(s)}]
  BY <1>1 DEF DueIs
<1> QED
  BY <1>2, <1>3

\* The sum is a natural number.
LEMMA DueNat ==
  ASSUME NEW r \in Bills, NEW S \in SUBSET Orders, IsFiniteSet(S)
  PROVE  Due(r, S) \in Nat
<1> DEFINE B == {t \in SUBSET S : Due(r, t) \notin Nat}
<1> SUFFICES ASSUME B # {}
             PROVE  FALSE
  OBVIOUS
<1>1. PICK t \in B : \A x \in t : t \ {x} \notin B
  <2>1. B \in SUBSET (SUBSET S)
    OBVIOUS
  <2> HIDE DEF B
  <2> QED
    BY <2>1, SmallestSet
<1>2. IsFiniteSet(t)
  BY FS_Subset
<1>3. t # {}
  <2>1. Due(r, {}) = 0
    BY <1>2, DueStep
  <2> QED
    BY <1>1, <2>1
<1>4. Pick(t) \in t /\ Due(r, t \ {Pick(t)}) \in Nat
  BY <1>1, <1>3, PickIn
<1>5. r[Pick(t)].amount \in Nat
  BY <1>4 DEF Bills
<1> QED
  BY <1>1, <1>2, <1>3, <1>4, <1>5, DueStep

\* The sum depends on the amounts of its orders alone.
LEMMA DueSame ==
  ASSUME NEW r, NEW q, NEW S, IsFiniteSet(S),
         \A x \in S : r[x].amount = q[x].amount
  PROVE  Due(r, S) = Due(q, S)
<1> DEFINE B == {t \in SUBSET S : Due(r, t) # Due(q, t)}
<1> SUFFICES ASSUME B # {}
             PROVE  FALSE
  OBVIOUS
<1>1. PICK t \in B : \A x \in t : t \ {x} \notin B
  <2>1. B \in SUBSET (SUBSET S)
    OBVIOUS
  <2> HIDE DEF B
  <2> QED
    BY <2>1, SmallestSet
<1>2. IsFiniteSet(t)
  BY FS_Subset
<1>3. t # {}
  BY <1>1, <1>2, DueStep
<1>4. Pick(t) \in t /\ Due(r, t \ {Pick(t)}) = Due(q, t \ {Pick(t)})
  BY <1>1, <1>3, PickIn
<1>5. r[Pick(t)].amount = q[Pick(t)].amount
  BY <1>4
<1> QED
  BY <1>1, <1>2, <1>3, <1>4, <1>5, DueStep

\* Any order may be taken out of the sum first.
LEMMA DueWithout ==
  ASSUME NEW r \in Bills, NEW S \in SUBSET Orders, IsFiniteSet(S), NEW y \in S
  PROVE  Due(r, S) = r[y].amount + Due(r, S \ {y})
<1> DEFINE Adds(t, z) == Due(r, t) = r[z].amount + Due(r, t \ {z})
           B == {t \in SUBSET S : \E z \in t : ~ Adds(t, z)}
<1> SUFFICES ASSUME B # {}
             PROVE  FALSE
  OBVIOUS
<1>1. PICK t \in B : \A x \in t : t \ {x} \notin B
  <2>1. B \in SUBSET (SUBSET S)
    OBVIOUS
  <2> HIDE DEF B
  <2> QED
    BY <2>1, SmallestSet
<1>2. PICK z \in t : ~ Adds(t, z)
  BY <1>1
<1> DEFINE x == Pick(t)
<1>3. x \in t
  BY <1>2, PickIn
<1>4. IsFiniteSet(t) /\ IsFiniteSet(t \ {x}) /\ t \in SUBSET Orders
  BY FS_Subset
<1>5. Due(r, t) = r[x].amount + Due(r, t \ {x})
  BY <1>2, <1>4, DueStep
<1> HIDE DEF x
<1>6. x # z
  BY <1>2, <1>5
<1>7. /\ Due(r, t \ {x}) = r[z].amount + Due(r, (t \ {x}) \ {z})
      /\ Due(r, t \ {z}) = r[x].amount + Due(r, (t \ {z}) \ {x})
  BY <1>1, <1>2, <1>3, <1>6
<1>8. (t \ {x}) \ {z} = (t \ {z}) \ {x}
  OBVIOUS
<1>9. /\ r[x].amount \in Nat /\ r[z].amount \in Nat
      /\ Due(r, (t \ {x}) \ {z}) \in Nat
  <2>1. IsFiniteSet((t \ {x}) \ {z})
    BY <1>4, FS_Subset
  <2> QED
    BY <1>3, <1>4, <2>1, DueNat DEF Bills
<1> QED
  BY <1>2, <1>5, <1>7, <1>8, <1>9
-----------------------------------------------------------------------------
(* Revenue.                                                                *)

\* The orders whose payment was verified.
Received == {o \in Orders : paymentLog[o] = "VERIFIED"}

\* They are finitely many, and their amounts naturals.
LEMMA ReceivedFinite ==
  ASSUME CheckoutTypeOK
  PROVE  /\ IsFiniteSet(Received) /\ Received \in SUBSET Orders
         /\ razorpay \in Bills
<1>1. IsFiniteSet(Orders)
  <2>1. MaxOrders \in Int
    BY CheckoutAssumption
  <2> QED
    BY <2>1, FS_Interval DEF Orders
<1>2. IsFiniteSet(Received)
  BY <1>1, FS_Subset DEF Received
<1>3. razorpay \in Bills
  BY QuoteBounds DEF CheckoutTypeOK, Bills, Amounts
<1> QED
  BY <1>2, <1>3 DEF Received

\* RevenueIsReceived in terms of the sum.
LEMMA RevenueDue == RevenueIsReceived <=> revenue = Due(razorpay, Received)
BY DEF RevenueIsReceived, Due, Received

\* The same after a step.
LEMMA RevenueDueNext ==
  revenue' = Due(razorpay', Received') => RevenueIsReceived'
<1>1. (revenue = Due(razorpay, Received))' => RevenueIsReceived'
  BY RevenueDue, PTL
<1> QED
  BY <1>1

\* Steps that log nothing leave the amounts of logged payments alone.
LEMMA RevenueUntouched ==
  ASSUME CheckoutTypeOK, RevenueIsReceived, UNCHANGED <<paymentLog, revenue>>,
         \A o \in Received : razorpay'[o].amount = razorpay[o].amount
  PROVE  RevenueIsReceived'
<1>1. revenue = Due(razorpay, Received) /\ IsFiniteSet(Received)
  BY RevenueDue, ReceivedFinite
<1>2. Due(razorpay', Received) = Due(razorpay, Received)
  BY <1>1, DueSame
<1>3. Received' = Received
  BY DEF Received
<1>4. revenue' = Due(razorpay', Received')
  BY <1>1, <1>2, <1>3
<1> QED
  BY <1>4, RevenueDueNext

\* The transaction adds to the revenue what it logs as verified, once.
LEMMA SettleWriteRevenue ==
  ASSUME CheckoutInv, RevenueIsReceived, CheckoutTypeOK', NEW s \in Settlers,
         SettleWrite(s)
  PROVE  RevenueIsReceived'
<1> DEFINE o == settle[s].o
<1>0. CheckoutTypeOK /\ Kept /\ SettleWriteDone(s)
  BY SettleWriteEffect DEF CheckoutInv
<1>1. /\ o \in Orders
      /\ settle[s].ok => settle[s].final = razorpay[o].amount
      /\ paymentLog \in [Orders -> {"none", "VERIFIED", "MISMATCH"}]
      /\ UNCHANGED razorpay
  BY <1>0 DEF SettleWriteDone, Kept, SettlesKept, SettleKept, CheckoutTypeOK
<1>2. CASE paymentLog[o] # "none"
  BY <1>0, <1>2, RevenueUntouched DEF SettleWriteDone
<1>3. CASE paymentLog[o] = "none" /\ ~settle[s].ok
  <2>1. /\ paymentLog' = [paymentLog EXCEPT ![o] = "MISMATCH"]
        /\ revenue' = revenue /\ razorpay' = razorpay
    BY <1>0, <1>3 DEF SettleWriteDone
  <2>2. Received' = Received
    BY <1>1, <1>3, <2>1 DEF Received
  <2>3. revenue' = Due(razorpay', Received')
    BY <2>1, <2>2, RevenueDue
  <2> QED
    BY <2>3, RevenueDueNext
<1>4. CASE paymentLog[o] = "none" /\ settle[s].ok
  <2>1. /\ paymentLog' = [paymentLog EXCEPT ![o] = "VERIFIED"]
        /\ revenue' = revenue + settle[s].final /\ razorpay' = razorpay
    BY <1>0, <1>4 DEF SettleWriteDone
  <2>2. Received' = Received \cup {o} /\ o \notin Received
    BY <1>1, <1>4, <2>1 DEF Received
  <2>3. IsFiniteSet(Received') /\ Received' \in SUBSET Orders /\ razorpay \in Bills
    BY <1>0, <1>1, <2>2, ReceivedFinite, FS_AddElement
  <2>4. Due(razorpay, Received') = razorpay[o].amount + Due(razorpay, Received' \ {o})
    BY <2>2, <2>3, DueWithout
  <2>5. Received' \ {o} = Received
    BY <2>2
  <2>6. revenue = Due(razorpay, Received) /\ revenue \in Nat /\ razorpay[o].amount \in Nat
    BY <1>0, <1>1, <2>3, RevenueDue DEF CheckoutTypeOK, Bills
  <2>7. revenue' = Due(razorpay', Received')
    <3> HIDE DEF o
    <3>1. revenue' = revenue + razorpay[o].amount
      BY <1>1, <1>4, <2>1
    <3>2. Due(razorpay', Received') = razorpay[o].amount + revenue
      BY <2>1, <2>4, <2>5, <2>6
    <3> QED
      BY <3>1, <3>2, <2>6
  <2> QED
    BY <2>7, RevenueDueNext
<1> QED
  BY <1>2, <1>3, <1>4

\* Every step keeps the revenue what was received.
LEMMA RevenueStep ==
  ASSUME CheckoutInv, RevenueIsReceived, CheckoutInv', [CheckoutNext]_checkoutVars
  PROVE  RevenueIsReceived'
<1>0. CheckoutTypeOK /\ Kept /\ CheckoutTypeOK'
  BY DEF CheckoutInv
<1>1. ASSUME NEW p \in Pages, ModalPays(p)
      PROVE  RevenueIsReceived'
  <2>1. ModalPaysDone(p)
    BY <1>0, <1>1, ModalPaysEffect
  <2> QED
    BY <1>0, <2>1, RevenueUntouched DEF ModalPaysDone, Received
<1>2. ASSUME NEW p \in Pages, NEW o \in Orders, PayCreate(p, o)
      PROVE  RevenueIsReceived'
  <2>1. PayCreateDone(p, o)
    BY <1>0, <1>2, PayCreateEffect
  <2>2. o \notin Received
    BY <1>0, <2>1 DEF PayCreateDone, Kept, BookingKept, Received
  <2> QED
    BY <1>0, <2>1, <2>2, RevenueUntouched DEF PayCreateDone, Received
<1>3. ASSUME NEW s \in Settlers, SettleWrite(s)
      PROVE  RevenueIsReceived'
  BY <1>0, <1>3, SettleWriteRevenue
<1>4. CASE UNCHANGED <<paymentLog, revenue, razorpay>>
  BY <1>0, <1>4, RevenueUntouched
<1>5. ASSUME NEW p \in Pages, PageLoad(p) \/ ModalCloses(p)
      PROVE  UNCHANGED <<paymentLog, revenue, razorpay>>
  BY <1>5 DEF PageLoad, ModalCloses
<1>6. ASSUME NEW p \in Pages, NEW k \in Discounts, ApplyStep(p, k)
      PROVE  UNCHANGED <<paymentLog, revenue, razorpay>>
  BY <1>6 DEF ApplyStep, ApplyRead, ApplyWrite, ApplyAnswer, ApplyFails
<1>7. ASSUME NEW p \in Pages, PayRead(p) \/ PayPrice(p) \/ PayUpdate(p) \/ PayFails(p)
      PROVE  UNCHANGED <<paymentLog, revenue, razorpay>>
  BY <1>7 DEF PayRead, PayPrice, PayUpdate, PayFails
<1>8. ASSUME NEW s \in Settlers,
             (\E o \in Orders : SettleStart(s, o)) \/ SettleBooking(s) \/ SettleVerify(s)
               \/ SettleDies(s)
      PROVE  UNCHANGED <<paymentLog, revenue, razorpay>>
  BY <1>8 DEF SettleStart, SettleBooking, SettleVerify, SettleDies
<1>9. CASE UNCHANGED checkoutVars
  BY <1>9, <1>4 DEF checkoutVars
<1> QED
  BY <1>1, <1>2, <1>3, <1>4, <1>5, <1>6, <1>7, <1>8, <1>9
     DEF CheckoutNext, PayStep, SettleStep

\* payments-reconciliation.service.ts reconcileBooking: the tenant's revenue is the
\* sum of the payments that were verified, however often and however concurrently a
\* payment is handed in.
THEOREM RevenueIsWhatWasReceived == CheckoutSpec => []RevenueIsReceived
<1>1. CheckoutInit => RevenueIsReceived
  <2> SUFFICES ASSUME CheckoutInit
               PROVE  RevenueIsReceived
    OBVIOUS
  <2>1. Received = {} /\ revenue = 0
    BY DEF CheckoutInit, Received
  <2>2. Due(razorpay, {}) = 0
    BY FS_EmptySet, DueStep
  <2> QED
    BY <2>1, <2>2, RevenueDue
<1>2. CheckoutInv /\ RevenueIsReceived /\ [CheckoutNext]_checkoutVars
        => RevenueIsReceived'
  BY CheckoutStep, RevenueStep
<1> QED
  BY <1>1, <1>2, CheckoutInvariant, PTL DEF CheckoutSpec
=============================================================================
