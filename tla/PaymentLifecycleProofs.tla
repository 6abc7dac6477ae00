----------------------- MODULE PaymentLifecycleProofs -----------------------
(***************************************************************************)
(* Proofs about PaymentLifecycle, for any number of bookings, orders,      *)
(* handlers and faults, up to its refinement of PaymentPromise; and about  *)
(* the circuit breaker of OrderCircuit, for any number of requests at once *)
(* and any threshold, window and cooldown.                                 *)
(***************************************************************************)
EXTENDS PaymentRefinement, OrderCircuit, TLAPS

\* Razorpay has captured the payment of order o, an order of booking b.
PaidFor(o, b) == o \in Orders /\ gateway[o].b = b /\ gateway[o].pay = "captured"

\* What Razorpay's side never contradicts
GatewayOK ==
  \A o \in Orders :
    /\ gateway[o].pay = "none" <=> gateway[o].b = NoBooking
    /\ gateway[o].events # {} => gateway[o].pay = "captured"
    /\ gateway[o].events \cap {"processed", "failed"} # {} => gateway[o].refund # "none"
    /\ gateway[o].refund # "none" => gateway[o].pay = "captured" /\ ledger[o].paid > 0

\* A request that is about to store its order is the only one with that order.
OrderReqOK ==
  \A c \in OrderReqs :
    /\ orderReq[c].pc # "idle" => orderReq[c].b \in Bookings
    /\ orderReq[c].pc = "update" =>
         /\ orderReq[c].o \in Orders
         /\ gateway[orderReq[c].o].b = orderReq[c].b
         /\ gateway[orderReq[c].o].pay = "created"
         /\ \A d \in OrderReqs \ {c} : orderReq[d].pc = "update" =>
                                         orderReq[d].o # orderReq[c].o

\* A booking's order is its own, and its payment is captured and booked.
RowOK ==
  \A b \in Bookings :
    /\ row[b].order # 0 => gateway[row[b].order].b = b
    /\ row[b].payment # 0 => PaidFor(row[b].payment, b) /\ ledger[row[b].payment].paid > 0

\* A webhook handler works on an event Razorpay has sent.
HookOK ==
  \A h \in Hooks : hook[h].pc # "idle" => /\ hook[h].o \in Orders
                                          /\ hook[h].kind \in gateway[hook[h].o].events

\* What the reconciliation worker knows about the booking in its hands
ReconOK ==
  /\ recon.pc \in {"next", "fetch", "ledger", "sync", "read", "write"} =>
       \A t \in recon.todo : t.o \in Orders /\ gateway[t.o].b = t.b
  /\ recon.pc \in {"fetch", "ledger", "sync", "read", "write", "refund", "reread", "rewrite"} =>
       recon.b \in Bookings /\ recon.o \in Orders /\ gateway[recon.o].b = recon.b
  /\ recon.pc \in {"ledger", "sync", "refund", "reread", "rewrite"} =>
       gateway[recon.o].pay = "captured"
  /\ recon.pc \in {"read", "write"} /\ recon.found => gateway[recon.o].pay = "captured"
  /\ recon.pc \in {"sync", "refund", "reread", "rewrite"} => ledger[recon.o].paid > 0
  /\ recon.pc \in {"reread", "rewrite"} /\ recon.found => gateway[recon.o].refund # "none"

\* What the admin's refund knows
AdminOK ==
  admin.pc # "idle" => /\ admin.b \in Bookings
                       /\ PaidFor(admin.o, admin.b)
                       /\ ledger[admin.o].paid > 0

\* The inductive invariant
PayInv ==
  /\ TypeOK
  /\ GatewayOK
  /\ OrderReqOK
  /\ RowOK
  /\ HookOK
  /\ ReconOK
  /\ AdminOK
  /\ ConfirmedIsPaid
  /\ RefundIsBooked

----------------------------------------------------------------------------
(* What the updates of a record keep of its type *)

\* What a createRazorpayOrder handler moves to keeps the type.
LEMMA OrderReqUpdate ==
  ASSUME NEW x \in OrderReqType
  PROVE  /\ IdleOrderReq \in OrderReqType
         /\ \A b \in Bookings : [x EXCEPT !.pc = "create", !.b = b] \in OrderReqType
         /\ \A o \in Orders : [x EXCEPT !.pc = "update", !.o = o] \in OrderReqType
BY DEF OrderReqType, IdleOrderReq

\* What becomes of an order at Razorpay keeps the type.
LEMMA GatewayUpdate ==
  ASSUME NEW x \in GatewayType
  PROVE  /\ \A b \in Bookings : [x EXCEPT !.b = b, !.pay = "created"] \in GatewayType
         /\ [x EXCEPT !.pay = "open"] \in GatewayType
         /\ \A noted \in BOOLEAN : Captured(x, noted) \in GatewayType
         /\ \A result \in {"processed", "failed"} : Settled(x, result) \in GatewayType
         /\ [x EXCEPT !.refund = "created"] \in GatewayType
BY DEF GatewayType, Captured, Settled

\* What the writers of a booking with an order make of it keeps the type.
LEMMA RowUpdate ==
  ASSUME NEW x \in RowType, NEW o \in Orders
  PROVE  /\ \A s \in Statuses : [x EXCEPT !.status = s] \in RowType
         /\ [x EXCEPT !.status = "PAYMENT_IN_PROGRESS", !.order = o] \in RowType
         /\ [x EXCEPT !.status = "REFUND_INITIATED", !.payment = o] \in RowType
         /\ Confirmed(x, o) \in RowType
BY DEF RowType, Statuses, Confirmed

\* An update of the status alone keeps the type.
LEMMA RowStatus ==
  ASSUME NEW x \in RowType, NEW s \in Statuses
  PROVE  LET y == [x EXCEPT !.status = s]
         IN  y \in RowType /\ y.status = s /\ y.order = x.order /\ y.payment = x.payment
BY DEF RowType

\* What the writers that release a lock make of a booking keeps the type.
LEMMA RowRelease ==
  ASSUME NEW x \in RowType
  PROVE  /\ [x EXCEPT !.lock = "RELEASED"] \in RowType
         /\ \A s \in Statuses : [Released(x) EXCEPT !.status = s] \in RowType
         /\ Released(x) \in RowType /\ SweptRow(x) \in RowType
<1>1. \A s \in Statuses : [x EXCEPT !.status = s] \in RowType
  BY DEF RowType
<1>2. \A s \in Statuses :
        [x EXCEPT !.lock = "RELEASED", !.seat = "EXPIRED", !.status = s] \in RowType
  BY DEF RowType
<1>3. /\ [x EXCEPT !.lock = "RELEASED"] \in RowType
      /\ (IF x.status = "LOCKED" THEN "EXPIRED" ELSE x.status) \in Statuses
  BY DEF RowType, Statuses
<1>4. Released(x) \in RowType
  <2>1. (IF x.lock = "LOCKED" THEN "RELEASED" ELSE x.lock)
          \in {"LOCKED", "CONFIRMED", "RELEASED"}
    BY DEF RowType
  <2> QED
    BY <2>1 DEF RowType, Released
<1>5. \A s \in Statuses : [Released(x) EXCEPT !.status = s] \in RowType
  BY <1>4 DEF RowType
<1> QED
  BY <1>2, <1>3, <1>4, <1>5 DEF SweptRow

\* A booking whose payment never came keeps the type.
LEMMA AbandonedRow ==
  ASSUME NEW x \in RowType
  PROVE  /\ Abandoned(x) \in RowType /\ Abandoned(x).status = "FAILED"
         /\ Abandoned(x).order = x.order /\ Abandoned(x).payment = x.payment
<1>1. Abandoned(x) \in RowType
  <2>1. \A y \in RowType : [y EXCEPT !.status = "FAILED", !.givenUp = "yes"] \in RowType
    BY DEF RowType, Statuses
  <2> QED
    BY <2>1, RowRelease DEF Abandoned
<1>2. Released(x).order = x.order /\ Released(x).payment = x.payment
  BY DEF Released, RowType
<1> QED
  BY <1>1, <1>2 DEF Abandoned, Released, RowType

\* A handler that takes up an event keeps the type.
LEMMA HookBegin ==
  ASSUME NEW x \in HookType, NEW pc \in {"insert", "resolve"},
         NEW kind \in {"captured", "processed", "failed"}, NEW o \in Orders
  PROVE  [x EXCEPT !.pc = pc, !.kind = kind, !.o = o] \in HookType
BY DEF HookType

\* A handler that goes on with its event keeps the type.
LEMMA HookAdvance ==
  ASSUME NEW x \in HookType
  PROVE  /\ \A pc \in {"read", "commit", "settle"} :
              LET z == [x EXCEPT !.pc = pc]
              IN  z \in HookType /\ z.kind = x.kind /\ z.o = x.o
         /\ \A s \in Statuses :
              LET z == [x EXCEPT !.pc = "write", !.seen = s]
              IN  z \in HookType /\ z.kind = x.kind /\ z.o = x.o
BY DEF HookType

\* A handler that has answered keeps the type.
LEMMA HookDone == IdleHook \in HookType /\ IdleHook.pc = "idle"
BY DEF HookType, IdleHook

\* What the reconciliation worker moves to keeps the type.
LEMMA ReconUpdate ==
  ASSUME NEW x \in ReconType, NEW todo \in SUBSET [b: Bookings, o: Orders \cup {0}]
  PROVE  /\ IdleRecon \in ReconType
         /\ \A pc \in {"next", "sweep"} :
              /\ [x EXCEPT !.pc = pc, !.todo = todo] \in ReconType
              /\ [IdleRecon EXCEPT !.pc = pc, !.todo = todo] \in ReconType
         /\ [x EXCEPT !.todo = todo] \in ReconType
         /\ \A pc \in {"fetch", "refund"}, b \in Bookings, o \in Orders \cup {0} :
              [x EXCEPT !.pc = pc, !.todo = todo, !.b = b, !.o = o] \in ReconType
         /\ \A pc \in {"ledger", "read", "reread"}, found \in BOOLEAN :
              [x EXCEPT !.pc = pc, !.found = found] \in ReconType
         /\ \A pc \in {"sync", "read"} : [x EXCEPT !.pc = pc] \in ReconType
         /\ \A pc \in {"write", "rewrite"}, s \in Statuses :
              [x EXCEPT !.pc = pc, !.seen = s] \in ReconType
<1> DEFINE Todos == SUBSET [b: Bookings, o: Orders \cup {0}]
<1>1. todo \in Todos /\ {} \in Todos
  OBVIOUS
<1> HIDE DEF Todos
<1> USE <1>1 DEF ReconType, IdleRecon
<1>2. ReconType = [pc: {"idle", "next", "fetch", "ledger", "sync", "read", "write", "sweep",
                        "refund", "reread", "rewrite"},
                   todo: Todos, b: Bookings \cup {NoBooking},
                   o: Orders \cup {0}, found: BOOLEAN, seen: Statuses \cup {"none"}]
  BY DEF Todos
<1> HIDE DEF ReconType
<1> USE <1>2
<1>3. IdleRecon \in ReconType
  OBVIOUS
<1>4. \A y \in ReconType, pc \in {"next", "sweep"} :
        [y EXCEPT !.pc = pc, !.todo = todo] \in ReconType
  OBVIOUS
<1>5. [x EXCEPT !.todo = todo] \in ReconType
  OBVIOUS
<1>6. \A pc \in {"fetch", "refund"}, b \in Bookings, o \in Orders \cup {0} :
        [x EXCEPT !.pc = pc, !.todo = todo, !.b = b, !.o = o] \in ReconType
  OBVIOUS
<1>7. \A pc \in {"ledger", "read", "reread"}, found \in BOOLEAN :
        [x EXCEPT !.pc = pc, !.found = found] \in ReconType
  OBVIOUS
<1>8. \A pc \in {"sync", "read"} : [x EXCEPT !.pc = pc] \in ReconType
  OBVIOUS
<1>9. \A pc \in {"write", "rewrite"}, s \in Statuses :
        [x EXCEPT !.pc = pc, !.seen = s] \in ReconType
  OBVIOUS
<1> QED
  BY ONLY <1>3, <1>4, <1>5, <1>6, <1>7, <1>8, <1>9, x \in ReconType

\* What becomes of the ledger of a payment keeps the type.
LEMMA LedgerUpdate ==
  ASSUME NEW x \in LedgerType
  PROVE  /\ PaymentRow(x) \in LedgerType /\ PaymentRow(x).paid > 0
         /\ LateRow(x) \in LedgerType /\ LateRow(x).paid > 0
         /\ \A result \in {"SUCCESS", "FAILED"} :
              /\ [x EXCEPT !.refund = x.refund \cup {result}] \in LedgerType
              /\ [x EXCEPT !.refund = x.refund \cup {result}].paid = x.paid
<1>1. PaymentRow(x) \in LedgerType /\ PaymentRow(x).paid > 0
  BY DEF LedgerType, PaymentRow
<1>2. LateRow(x) \in LedgerType /\ LateRow(x).paid > 0
  BY <1>1 DEF LedgerType, LateRow
<1>3. \A result \in {"SUCCESS", "FAILED"} :
        /\ [x EXCEPT !.refund = x.refund \cup {result}] \in LedgerType
        /\ [x EXCEPT !.refund = x.refund \cup {result}].paid = x.paid
  BY DEF LedgerType
<1> QED
  BY <1>1, <1>2, <1>3

\* What no step takes back: an order's booking, its payment, its refund, the
\* events about it and its row in the ledger
Growth ==
  \A o \in Orders :
    /\ gateway[o].b # NoBooking => gateway'[o].b = gateway[o].b
    /\ gateway[o].pay = "captured" => gateway'[o].pay = "captured"
    /\ gateway[o].refund # "none" => gateway'[o].refund # "none"
    /\ gateway[o].events \subseteq gateway'[o].events
    /\ ledger[o].paid > 0 => ledger'[o].paid > 0

----------------------------------------------------------------------------
\* Everything starts idle and unpaid.
LEMMA InitPayInv == Init => PayInv
<1> SUFFICES ASSUME Init PROVE PayInv
  OBVIOUS
<1> USE NoBookingAssumption, PaymentBoundsAssumption
         DEF Init, IdleOrderReq, IdleHook, IdleRecon, IdleAdmin, Orders
<1>1. TypeOK
  BY DEF TypeOK, RowType, GatewayType, OrderReqType, HookType, ReconType, AdminType, LedgerType,
         Statuses
<1>2. GatewayOK /\ OrderReqOK /\ RowOK /\ HookOK /\ ReconOK /\ AdminOK
  BY DEF GatewayOK, OrderReqOK, RowOK, HookOK, ReconOK, AdminOK, PaidFor
<1>3. ConfirmedIsPaid /\ RefundIsBooked
  BY DEF ConfirmedIsPaid, RefundIsBooked
<1> QED
  BY <1>1, <1>2, <1>3 DEF PayInv

\* An actor that does not move keeps what it knows while Razorpay and the
\* ledger only grow; so do the bookings that no one writes.
LEMMA GrowthKeeps ==
  ASSUME PayInv, Growth
  PROVE  /\ hook' = hook => HookOK'
         /\ recon' = recon => ReconOK'
         /\ admin' = admin => AdminOK'
         /\ row' = row => RowOK' /\ ConfirmedIsPaid'
<1> USE NoBookingAssumption DEF PayInv, TypeOK, Growth
<1>1. ASSUME hook' = hook PROVE HookOK'
  BY <1>1 DEF HookOK
<1>2. ASSUME recon' = recon PROVE ReconOK'
  BY <1>2 DEF ReconOK, ReconType
<1>3. ASSUME admin' = admin PROVE AdminOK'
  BY <1>3 DEF AdminOK, PaidFor
<1>4. ASSUME row' = row PROVE RowOK'
  BY <1>4 DEF RowOK, PaidFor, RowType
<1>5. ASSUME row' = row PROVE ConfirmedIsPaid'
  BY <1>5 DEF ConfirmedIsPaid
<1> QED
  BY <1>1, <1>2, <1>3, <1>4, <1>5

\* The refunds of the bookings, likewise
LEMMA RefundsKeep ==
  ASSUME PayInv, Growth, GatewayOK',
         \A b \in Bookings : row'[b].status = "REFUNDED" =>
           \/ row[b].status = "REFUNDED"
           \/ \E o \in Orders : gateway[o].b = b /\ gateway[o].refund # "none"
  PROVE  RefundIsBooked'
BY NoBookingAssumption DEF PayInv, GatewayOK, RefundIsBooked, Growth

\* A step that leaves Razorpay and the ledger alone keeps what it does not
\* touch.
LEMMA QuietKeeps ==
  ASSUME PayInv, UNCHANGED <<gateway, ledger>>
  PROVE  /\ Growth /\ GatewayOK'
         /\ orderReq' = orderReq => OrderReqOK'
         /\ row' = row => RefundIsBooked'
BY DEF PayInv, Growth, GatewayOK, OrderReqOK, RefundIsBooked

\* Whoever writes a booking keeps its order, or stores one of its own; keeps
\* its payment, or notes one that is captured and booked; and may call it
\* CONFIRMED only when it is paid, REFUNDED only when a refund was accepted.
LEMMA RowWrite ==
  ASSUME PayInv, Growth, GatewayOK',
         NEW b \in Bookings, NEW x \in RowType,
         row' = [row EXCEPT ![b] = x],
         x.order = row[b].order \/ (x.order \in Orders /\ gateway'[x.order].b = b),
         x.status = "PAYMENT_IN_PROGRESS" => x.order # 0,
         \/ x.payment = row[b].payment
         \/ /\ x.payment \in Orders /\ ledger'[x.payment].paid > 0
            /\ gateway'[x.payment].b = b /\ gateway'[x.payment].pay = "captured",
         x.status = "CONFIRMED" =>
           \/ row[b].status = "CONFIRMED"
           \/ \E o \in Orders : /\ gateway'[o].b = b /\ gateway'[o].pay = "captured"
                               /\ ledger'[o].paid > 0,
         x.status = "REFUNDED" =>
           \/ row[b].status = "REFUNDED"
           \/ \E o \in Orders : gateway[o].b = b /\ gateway[o].refund # "none"
  PROVE  /\ row' \in [Bookings -> RowType]
         /\ \A a \in Bookings : row'[a].status = "PAYMENT_IN_PROGRESS" => row'[a].order # 0
         /\ RowOK' /\ ConfirmedIsPaid' /\ RefundIsBooked'
<1>1. row \in [Bookings -> RowType]
  BY DEF PayInv, TypeOK
<1>2. /\ row' \in [Bookings -> RowType] /\ row'[b] = x
      /\ \A a \in Bookings \ {b} : row'[a] = row[a]
  BY <1>1
<1>3. \A a \in Bookings : row'[a].status = "PAYMENT_IN_PROGRESS" => row'[a].order # 0
  BY <1>2 DEF PayInv, TypeOK
<1>4. ASSUME NEW a \in Bookings
      PROVE  /\ row[a].order # 0 => gateway'[row[a].order].b = a
             /\ row[a].payment # 0 =>
                  /\ row[a].payment \in Orders /\ ledger'[row[a].payment].paid > 0
                  /\ gateway'[row[a].payment].b = a
                  /\ gateway'[row[a].payment].pay = "captured"
  <2>1. ASSUME row[a].order # 0 PROVE gateway'[row[a].order].b = a
    <3>1. row[a].order \in Orders
      BY <1>1, <2>1 DEF RowType
    <3> QED
      BY <2>1, <3>1, NoBookingAssumption DEF PayInv, RowOK, Growth
  <2> QED
    BY <2>1, NoBookingAssumption DEF PayInv, RowOK, PaidFor, Growth
<1>5. RowOK'
  <2> SUFFICES ASSUME NEW a \in Bookings
               PROVE  /\ row'[a].order # 0 => gateway'[row'[a].order].b = a
                      /\ row'[a].payment # 0 =>
                           /\ row'[a].payment \in Orders /\ ledger'[row'[a].payment].paid > 0
                           /\ gateway'[row'[a].payment].b = a
                           /\ gateway'[row'[a].payment].pay = "captured"
    BY DEF RowOK, PaidFor
  <2>1. CASE a = b
    BY <1>2, <1>4, <2>1
  <2>2. CASE a # b
    BY <1>2, <1>4, <2>2
  <2> QED
    BY <2>1, <2>2
<1>6. ConfirmedIsPaid'
  BY <1>2, NoBookingAssumption DEF PayInv, ConfirmedIsPaid, Growth
<1>7. RefundIsBooked'
  BY <1>2, RefundsKeep
<1> QED
  BY <1>2, <1>3, <1>5, <1>6, <1>7

\* What follows when only the sets of the clock and the crons change
LEMMA ClockKeeps ==
  ASSUME PayInv,
         \/ \E b \in Bookings : Lapse(b) \/ Age(b) \/ ExpiryRead(b)
         \/ CleanupList \/ SweepList \/ CronAbort
  PROVE  PayInv'
<1>1. /\ UNCHANGED <<row, ledger, recorded, gateway, orderReq, hook, recon, admin>>
      /\ (overdue \cup stale \cup expiring \cup cleaning \cup sweeping)' \subseteq Bookings
      /\ faults' \in Nat
  BY DEF PayInv, TypeOK, Lapse, Age, ExpiryRead, CleanupList, SweepList, CronAbort
<1>2. TypeOK'
  BY <1>1 DEF PayInv, TypeOK
<1> QED
  BY <1>1, <1>2, GrowthKeeps, QuietKeeps DEF PayInv

\* createRazorpayOrder reads, or fails.
LEMMA OrderReadKeeps ==
  ASSUME PayInv, NEW c \in OrderReqs,
         OrderFail(c) \/ \E b \in Bookings : OrderRead(c, b)
  PROVE  PayInv'
<1> USE DEF PayInv
<1>1. UNCHANGED <<row, overdue, stale, ledger, recorded, gateway, hook,
                  recon, admin, expiring, cleaning, sweeping>>
  BY DEF OrderFail, OrderRead
<1>2. PICK x \in OrderReqType :
        /\ orderReq' = [orderReq EXCEPT ![c] = x] /\ faults' \in Nat
        /\ x.pc \in {"idle", "create"}
        /\ x.pc = "create" => x.b \in Bookings
  <2>1. CASE OrderFail(c)
    <3>1. IdleOrderReq \in OrderReqType /\ IdleOrderReq.pc = "idle"
      BY DEF OrderReqType, IdleOrderReq
    <3>2. orderReq' = [orderReq EXCEPT ![c] = IdleOrderReq] /\ faults' \in Nat
      BY <2>1 DEF OrderFail, TypeOK
    <3> HIDE DEF PayInv
    <3> QED
      BY <3>1, <3>2
  <2>2. ASSUME NEW b \in Bookings, OrderRead(c, b)
        PROVE  \E x \in OrderReqType :
                 /\ orderReq' = [orderReq EXCEPT ![c] = x] /\ faults' \in Nat
                 /\ x.pc \in {"idle", "create"}
                 /\ x.pc = "create" => x.b \in Bookings
    <3> DEFINE x == [orderReq[c] EXCEPT !.pc = "create", !.b = b]
    <3>1. x \in OrderReqType /\ orderReq' = [orderReq EXCEPT ![c] = x] /\ faults' \in Nat
      BY <2>2, OrderReqUpdate DEF OrderRead, TypeOK
    <3>2. x.pc = "create" /\ x.b = b
      BY DEF TypeOK, OrderReqType
    <3> QED
      BY <3>1, <3>2
  <2> QED
    BY <2>1, <2>2
<1>3. TypeOK'
  BY <1>1, <1>2 DEF TypeOK
<1>4. /\ orderReq'[c].pc # "update"
      /\ orderReq'[c].pc # "idle" => orderReq'[c].b \in Bookings
      /\ \A d \in OrderReqs \ {c} : orderReq'[d] = orderReq[d]
  <2>1. orderReq \in [OrderReqs -> OrderReqType]
    BY DEF TypeOK
  <2>2. orderReq'[c] = x /\ \A d \in OrderReqs \ {c} : orderReq'[d] = orderReq[d]
    BY <1>2, <2>1
  <2> QED
    BY <1>2, <2>2
<1>5. OrderReqOK'
  BY <1>1, <1>4 DEF OrderReqOK
<1> QED
  BY <1>1, <1>3, <1>5, GrowthKeeps, QuietKeeps

\* A new order belongs to no booking yet, and no other request has it.
LEMMA OrderCreateKeeps ==
  ASSUME PayInv, NEW c \in OrderReqs, NEW o \in Orders, OrderCreate(c, o)
  PROVE  PayInv'
<1> USE NoBookingAssumption DEF PayInv, OrderCreate
<1>1. UNCHANGED <<row, overdue, stale, ledger, recorded, hook,
                  recon, admin, expiring, cleaning, sweeping, faults>>
  OBVIOUS
<1>2. orderReq[c].b \in Bookings
  BY DEF OrderReqOK
<1>3. TypeOK'
  BY <1>2, OrderReqUpdate, GatewayUpdate DEF TypeOK
<1>4. Growth /\ GatewayOK'
  BY <1>2 DEF TypeOK, GatewayType, Growth, GatewayOK
<1>5. OrderReqOK'
  BY <1>2 DEF TypeOK, OrderReqType, GatewayType, GatewayOK, OrderReqOK
<1> QED
  BY <1>1, <1>3, <1>4, <1>5, GrowthKeeps, RefundsKeep

\* The order that is stored is this booking's, and no one else stores it.
LEMMA OrderUpdateKeeps ==
  ASSUME PayInv, NEW c \in OrderReqs, OrderUpdate(c)
  PROVE  PayInv'
<1> DEFINE b == orderReq[c].b
           o == orderReq[c].o
           x == [row[b] EXCEPT !.status = "PAYMENT_IN_PROGRESS", !.order = o]
<1> USE DEF PayInv
<1>1. UNCHANGED <<overdue, stale, ledger, recorded, hook,
                  recon, admin, expiring, cleaning, sweeping, faults>>
  BY DEF OrderUpdate
<1>2. /\ b \in Bookings /\ o \in Orders /\ o # 0
      /\ gateway[o].b = b /\ gateway[o].pay = "created"
      /\ \A d \in OrderReqs \ {c} : orderReq[d].pc = "update" => orderReq[d].o # o
  BY PaymentBoundsAssumption DEF OrderUpdate, OrderReqOK, Orders
<1>3. row' = [row EXCEPT ![b] = x]
  BY DEF OrderUpdate
<1>4. /\ x \in RowType /\ x.status = "PAYMENT_IN_PROGRESS"
      /\ x.order = o /\ x.payment = row[b].payment
  <2>1. row[b] \in RowType
    BY <1>2 DEF TypeOK
  <2>2. x \in RowType
    BY <1>2, <2>1, RowUpdate
  <2> QED
    BY <2>1, <2>2 DEF RowType
<1>5. gateway' = [gateway EXCEPT ![o].pay = "open"]
  BY DEF OrderUpdate
<1>6. orderReq' = [orderReq EXCEPT ![c] = IdleOrderReq]
  BY DEF OrderUpdate
<1> HIDE DEF b, o, x
<1>7. gateway' \in [Orders -> GatewayType] /\ orderReq' \in [OrderReqs -> OrderReqType]
  BY <1>2, <1>5, <1>6, GatewayUpdate, OrderReqUpdate DEF TypeOK
<1>8. Growth /\ GatewayOK' /\ gateway'[o].b = b
  BY <1>1, <1>2, <1>5, NoBookingAssumption DEF TypeOK, GatewayType, Growth, GatewayOK
<1>9. OrderReqOK'
  BY <1>2, <1>5, <1>6 DEF TypeOK, OrderReqType, GatewayType, OrderReqOK, IdleOrderReq
<1>10. /\ row' \in [Bookings -> RowType]
       /\ \A a \in Bookings : row'[a].status = "PAYMENT_IN_PROGRESS" => row'[a].order # 0
       /\ RowOK' /\ ConfirmedIsPaid' /\ RefundIsBooked'
  BY <1>2, <1>3, <1>4, <1>8, RowWrite
<1>11. TypeOK'
  BY <1>1, <1>7, <1>10 DEF TypeOK
<1> QED
  BY <1>1, <1>8, <1>9, <1>10, <1>11, GrowthKeeps

\* A payment is captured; its event comes with it.
LEMMA PayKeeps ==
  ASSUME PayInv, NEW o \in Orders, Pay(o)
  PROVE  PayInv'
<1> USE NoBookingAssumption DEF PayInv
<1>1. /\ UNCHANGED <<row, overdue, stale, ledger, recorded, orderReq, hook,
                     recon, admin, expiring, cleaning, sweeping, faults>>
      /\ gateway[o].pay = "open"
  BY DEF Pay
<1>2. PICK noted \in BOOLEAN : gateway' = [gateway EXCEPT ![o] = Captured(@, noted)]
  BY DEF Pay
<1>3. /\ gateway'[o].b = gateway[o].b /\ gateway'[o].refund = gateway[o].refund
      /\ gateway'[o].pay = "captured"
      /\ gateway'[o].events = gateway[o].events \cup {"captured"}
      /\ \A p \in Orders \ {o} : gateway'[p] = gateway[p]
  BY <1>2 DEF TypeOK, GatewayType, Captured
<1>4. TypeOK'
  BY <1>1, <1>2, GatewayUpdate DEF TypeOK
<1>5. Growth /\ GatewayOK' /\ OrderReqOK'
  BY <1>1, <1>3 DEF Growth, GatewayOK, OrderReqOK
<1> QED
  BY <1>1, <1>4, <1>5, GrowthKeeps, RefundsKeep

\* A refund is settled; its event comes with it.
LEMMA SettleRefundKeeps ==
  ASSUME PayInv, NEW o \in Orders, SettleRefund(o)
  PROVE  PayInv'
<1> USE NoBookingAssumption DEF PayInv
<1>1. /\ UNCHANGED <<row, overdue, stale, ledger, recorded, orderReq, hook,
                     recon, admin, expiring, cleaning, sweeping, faults>>
      /\ gateway[o].refund = "created"
  BY DEF SettleRefund
<1>2. PICK result \in {"processed", "failed"} :
        gateway' = [gateway EXCEPT ![o] = Settled(@, result)]
  BY DEF SettleRefund
<1>3. /\ gateway'[o].b = gateway[o].b /\ gateway'[o].pay = gateway[o].pay
      /\ gateway'[o].refund = result
      /\ gateway'[o].events = gateway[o].events \cup {result}
      /\ \A p \in Orders \ {o} : gateway'[p] = gateway[p]
  BY <1>2 DEF TypeOK, GatewayType, Settled
<1>4. TypeOK'
  BY <1>1, <1>2, GatewayUpdate DEF TypeOK
<1>5. Growth /\ OrderReqOK'
  BY <1>1, <1>3 DEF Growth, OrderReqOK
<1>6. GatewayOK'
  BY <1>1, <1>3 DEF GatewayOK
<1> QED
  BY <1>1, <1>4, <1>5, <1>6, GrowthKeeps, RefundsKeep

\* Razorpay accepts a refund of a captured payment that the ledger knows.
LEMMA AcceptRefundKeeps ==
  ASSUME PayInv, NEW o \in Orders, AcceptRefund(o), ledger[o].paid > 0,
         UNCHANGED <<row, ledger, orderReq>>
  PROVE  /\ gateway' \in [Orders -> GatewayType]
         /\ Growth /\ GatewayOK' /\ OrderReqOK' /\ gateway'[o].refund # "none"
         /\ RefundIsBooked'
<1> USE NoBookingAssumption DEF PayInv, AcceptRefund, Refundable
<1>1. gateway' \in [Orders -> GatewayType]
  BY GatewayUpdate DEF TypeOK
<1>2. /\ gateway'[o] = [gateway[o] EXCEPT !.refund = "created"]
      /\ \A p \in Orders \ {o} : gateway'[p] = gateway[p]
  BY DEF TypeOK
<1>3. /\ gateway'[o].b = gateway[o].b /\ gateway'[o].pay = gateway[o].pay
      /\ gateway'[o].refund = "created" /\ gateway'[o].events = gateway[o].events
  BY <1>2 DEF TypeOK, GatewayType
<1>4. Growth /\ GatewayOK' /\ OrderReqOK'
  BY <1>2, <1>3 DEF Growth, GatewayOK, OrderReqOK
<1> QED
  BY <1>1, <1>3, <1>4, RefundsKeep

----------------------------------------------------------------------------
(* The webhook *)

\* A webhook handler that moves to x still works on an event Razorpay sent.
LEMMA HookMoves ==
  ASSUME PayInv, Growth, NEW h \in Hooks, NEW x \in HookType,
         hook' = [hook EXCEPT ![h] = x],
         x.pc # "idle" => x.o \in Orders /\ x.kind \in gateway[x.o].events
  PROVE  hook' \in [Hooks -> HookType] /\ HookOK'
<1>1. hook \in [Hooks -> HookType]
  BY DEF PayInv, TypeOK
<1>2. hook' \in [Hooks -> HookType] /\ hook'[h] = x /\ \A g \in Hooks \ {h} : hook'[g] = hook[g]
  BY <1>1
<1> QED
  BY <1>2 DEF PayInv, HookOK, Growth

\* A handler's steps that write nothing but itself and the event's row
LEMMA HookReadKeeps ==
  ASSUME PayInv, NEW h \in Hooks,
         \/ HookInsert(h) \/ HookRead(h) \/ HookCommit(h) \/ HookResolve(h) \/ HookAbort(h)
         \/ \E o \in Orders : \E kind \in gateway[o].events : Deliver(h, o, kind)
  PROVE  PayInv'
<1> DEFINE y == hook[h]
<1>1. /\ UNCHANGED <<row, overdue, stale, ledger, gateway, orderReq,
                     recon, admin, expiring, cleaning, sweeping>>
      /\ Growth
  BY DEF HookInsert, HookRead, HookCommit, HookResolve, HookAbort, Deliver, Growth
<1>2. /\ y \in HookType /\ IdleHook \in HookType /\ IdleHook.pc = "idle"
      /\ y.pc # "idle" => y.o \in Orders /\ y.kind \in gateway[y.o].events
  BY HookDone DEF PayInv, TypeOK, HookOK
<1>3. \E x \in HookType :
        /\ hook' = [hook EXCEPT ![h] = x]
        /\ x.pc # "idle" => x.o \in Orders /\ x.kind \in gateway[x.o].events
  <2>1. CASE HookInsert(h)
    <3> DEFINE x == [y EXCEPT !.pc = "read"]
    <3>1. x \in HookType /\ x.o = y.o /\ x.kind = y.kind
      BY <1>2, HookAdvance
    <3>2. y.pc # "idle" /\ \/ hook' = [hook EXCEPT ![h] = x]
                           \/ hook' = [hook EXCEPT ![h] = IdleHook]
      BY <2>1 DEF HookInsert
    <3> HIDE DEF x, y
    <3> QED
      BY <1>2, <3>1, <3>2
  <2>2. CASE HookRead(h)
    <3> DEFINE s == row[gateway[y.o].b].status
               x == [y EXCEPT !.pc = "write", !.seen = s]
    <3>1. y.pc # "idle" /\ hook' = [hook EXCEPT ![h] = x]
      BY <2>2 DEF HookRead
    <3>2. gateway[y.o].b \in Bookings
      BY <1>2, <3>1 DEF PayInv, TypeOK, GatewayType, GatewayOK
    <3>3. s \in Statuses
      BY <3>2 DEF PayInv, TypeOK, RowType
    <3> HIDE DEF s
    <3>4. x \in HookType /\ x.o = y.o /\ x.kind = y.kind
      BY <1>2, <3>3, HookAdvance
    <3> HIDE DEF x, y
    <3> QED
      BY <1>2, <3>1, <3>4
  <2>3. CASE HookCommit(h) \/ HookAbort(h)
    BY <1>2, <2>3 DEF HookCommit, HookAbort
  <2>4. CASE HookResolve(h)
    <3> DEFINE x == [y EXCEPT !.pc = "settle"]
    <3>1. x \in HookType /\ x.o = y.o /\ x.kind = y.kind
      BY <1>2, HookAdvance
    <3>2. y.pc # "idle" /\ \/ hook' = [hook EXCEPT ![h] = x]
                           \/ hook' = [hook EXCEPT ![h] = IdleHook]
      BY <2>4 DEF HookResolve
    <3> HIDE DEF x, y
    <3> QED
      BY <1>2, <3>1, <3>2
  <2>5. ASSUME NEW o \in Orders, NEW kind \in gateway[o].events, Deliver(h, o, kind)
        PROVE  \E x \in HookType :
                 /\ hook' = [hook EXCEPT ![h] = x]
                 /\ x.pc # "idle" => x.o \in Orders /\ x.kind \in gateway[x.o].events
    <3>1. PICK pc \in {"insert", "resolve"} :
            hook' = [hook EXCEPT ![h] = [hook[h] EXCEPT !.pc = pc, !.kind = kind, !.o = o]]
      BY <2>5 DEF Deliver
    <3>2. hook[h] \in HookType /\ kind \in {"captured", "processed", "failed"}
      BY <1>2 DEF PayInv, TypeOK, GatewayType
    <3> DEFINE x == [hook[h] EXCEPT !.pc = pc, !.kind = kind, !.o = o]
    <3>3. x \in HookType /\ x.o = o /\ x.kind = kind
      <4>1. x \in HookType
        BY <3>2, HookBegin
      <4> QED
        BY <3>2, <4>1 DEF HookType
    <3>4. hook' = [hook EXCEPT ![h] = x]
      BY <3>1
    <3> HIDE DEF x
    <3> QED
      BY <3>3, <3>4
  <2> QED
    BY <2>1, <2>2, <2>3, <2>4, <2>5
<1>4. hook' \in [Hooks -> HookType] /\ HookOK'
  BY <1>1, <1>3, HookMoves
<1>5. recorded' \subseteq Orders /\ faults' \in Nat
  <2>1. faults' \in Nat
    <3>1. faults' \in {faults, faults + 1}
      BY DEF HookInsert, HookRead, HookCommit, HookResolve, HookAbort, Deliver
    <3> QED
      BY <3>1 DEF PayInv, TypeOK
  <2>2. recorded' = recorded \/ (y.pc # "idle" /\ recorded' = recorded \cup {y.o})
    BY DEF HookInsert, HookRead, HookCommit, HookResolve, HookAbort, Deliver
  <2> QED
    BY <1>2, <2>1, <2>2 DEF PayInv, TypeOK
<1>6. TypeOK'
  BY <1>1, <1>4, <1>5 DEF PayInv, TypeOK
<1> QED
  BY <1>1, <1>4, <1>6, GrowthKeeps, QuietKeeps DEF PayInv

\* A ledger row more for a captured payment
LEMMA LedgerGrows ==
  ASSUME PayInv, NEW o \in Orders, NEW l \in LedgerType, UNCHANGED gateway,
         ledger' = [ledger EXCEPT ![o] = l], ledger[o].paid > 0 => l.paid > 0
  PROVE  /\ ledger' \in [Orders -> LedgerType] /\ ledger'[o] = l
         /\ Growth /\ GatewayOK' /\ (orderReq' = orderReq => OrderReqOK')
<1>1. ledger \in [Orders -> LedgerType]
  BY DEF PayInv, TypeOK
<1>2. /\ ledger' \in [Orders -> LedgerType] /\ ledger'[o] = l
      /\ \A p \in Orders \ {o} : ledger'[p] = ledger[p]
  BY <1>1
<1>3. Growth /\ GatewayOK'
  BY <1>2 DEF PayInv, Growth, GatewayOK
<1> QED
  BY <1>2, <1>3 DEF PayInv, OrderReqOK

\* What a confirmation writes
LEMMA ConfirmedRow ==
  ASSUME NEW x \in RowType, NEW o \in Orders
  PROVE  /\ Confirmed(x, o) \in RowType /\ Confirmed(x, o).status = "CONFIRMED"
         /\ Confirmed(x, o).order = x.order /\ Confirmed(x, o).payment = o
<1>1. Confirmed(x, o) \in RowType
  BY RowUpdate
<1>2. /\ Confirmed(x, o).status = "CONFIRMED"
      /\ Confirmed(x, o).order = x.order /\ Confirmed(x, o).payment = o
  BY DEF RowType, Confirmed
<1> QED
  BY <1>1, <1>2

\* processPaymentSuccess confirms what Razorpay has captured, and books it in
\* the same step.
LEMMA HookWriteKeeps ==
  ASSUME PayInv, NEW h \in Hooks, HookWrite(h)
  PROVE  PayInv'
<1> DEFINE o == hook[h].o
           b == gateway[o].b
<1>1. UNCHANGED <<overdue, stale, recorded, gateway, orderReq,
                  recon, admin, expiring, cleaning, sweeping, faults>>
  BY DEF HookWrite
<1>2. /\ o \in Orders /\ hook[h].kind \in gateway[o].events /\ hook[h] \in HookType
  BY DEF HookWrite, PayInv, HookOK, TypeOK
<1>3. gateway[o].pay = "captured" /\ b \in Bookings
  BY <1>2 DEF PayInv, TypeOK, GatewayType, GatewayOK
<1>4. row[b] \in RowType /\ ledger[o] \in LedgerType
  BY <1>2, <1>3 DEF PayInv, TypeOK
<1>5. \/ /\ row' = [row EXCEPT ![b] = Confirmed(row[b], o)]
         /\ ledger' = [ledger EXCEPT ![o] = PaymentRow(ledger[o])]
      \/ row' = row /\ ledger' = [ledger EXCEPT ![o] = LateRow(ledger[o])]
      \/ row' = row /\ ledger' = ledger
  BY DEF HookWrite
<1>6. hook' = [hook EXCEPT ![h].pc = "commit"]
  BY DEF HookWrite
<1> HIDE DEF o, b
<1>7. /\ ledger' \in [Orders -> LedgerType] /\ Growth /\ GatewayOK' /\ OrderReqOK'
      /\ row' # row => ledger'[o].paid > 0
  <2>1. CASE ledger' = [ledger EXCEPT ![o] = PaymentRow(ledger[o])]
    BY <1>1, <1>2, <1>4, <2>1, LedgerUpdate, LedgerGrows
  <2>2. CASE ledger' = [ledger EXCEPT ![o] = LateRow(ledger[o])]
    BY <1>1, <1>2, <1>4, <2>2, LedgerUpdate, LedgerGrows
  <2>3. CASE row' = row /\ ledger' = ledger
    BY <1>1, <2>3, QuietKeeps DEF PayInv, TypeOK
  <2> QED
    BY <1>5, <2>1, <2>2, <2>3
<1>8. /\ row' \in [Bookings -> RowType]
      /\ \A a \in Bookings : row'[a].status = "PAYMENT_IN_PROGRESS" => row'[a].order # 0
      /\ RowOK' /\ ConfirmedIsPaid' /\ RefundIsBooked'
  <2>1. CASE row' = row
    <3>1. RefundIsBooked'
      BY <1>7, <2>1, RefundsKeep
    <3>2. RowOK' /\ ConfirmedIsPaid'
      BY <1>7, <2>1, GrowthKeeps
    <3> QED
      BY <2>1, <3>1, <3>2 DEF PayInv, TypeOK
  <2>2. CASE row' = [row EXCEPT ![b] = Confirmed(row[b], o)] /\ row' # row
    <3> DEFINE x == Confirmed(row[b], o)
    <3>1. /\ x \in RowType /\ x.status = "CONFIRMED"
          /\ x.order = row[b].order /\ x.payment = o
      BY <1>2, <1>4, ConfirmedRow
    <3>2. gateway'[o].b = b /\ gateway'[o].pay = "captured" /\ ledger'[o].paid > 0
      BY <1>1, <1>3, <1>7, <2>2 DEF b
    <3>3. row' = [row EXCEPT ![b] = x]
      BY <2>2
    <3> HIDE DEF x
    <3> QED
      BY <1>2, <1>3, <1>7, <3>1, <3>2, <3>3, RowWrite
  <2> QED
    BY <1>5, <2>1, <2>2
<1>9. hook' \in [Hooks -> HookType] /\ HookOK'
  <2> DEFINE x == [hook[h] EXCEPT !.pc = "commit"]
  <2>1. x \in HookType /\ x.o = o /\ x.kind = hook[h].kind
    BY <1>2, HookAdvance DEF o
  <2>2. hook' = [hook EXCEPT ![h] = x]
    BY <1>6
  <2> HIDE DEF x
  <2> QED
    BY <1>2, <1>7, <2>1, <2>2, HookMoves
<1>10. TypeOK'
  BY <1>1, <1>7, <1>8, <1>9 DEF PayInv, TypeOK
<1> QED
  BY <1>1, <1>7, <1>8, <1>9, <1>10, GrowthKeeps DEF PayInv

\* A refund event settles the booking of a refund Razorpay has accepted.
LEMMA HookSettleKeeps ==
  ASSUME PayInv, NEW h \in Hooks, HookSettle(h)
  PROVE  PayInv'
<1> DEFINE o == hook[h].o
           b == gateway[o].b
           s == IF hook[h].kind = "processed" THEN "REFUNDED" ELSE "REFUND_FAILED"
           x == [row[b] EXCEPT !.status = s]
<1>1. UNCHANGED <<overdue, stale, ledger, recorded, gateway, orderReq,
                  recon, admin, expiring, cleaning, sweeping, faults>>
  BY DEF HookSettle
<1>2. o \in Orders /\ hook[h].kind \in gateway[o].events
  BY DEF HookSettle, PayInv, HookOK
<1>3. /\ b \in Bookings
      /\ s = "REFUNDED" => gateway[o].refund # "none"
  BY <1>2 DEF PayInv, TypeOK, GatewayType, GatewayOK
<1>4. row' = [row EXCEPT ![b] = x] /\ hook' = [hook EXCEPT ![h] = IdleHook]
  BY DEF HookSettle
<1>5. s \in {"REFUNDED", "REFUND_FAILED"}
  OBVIOUS
<1> HIDE DEF s
<1>6. /\ x \in RowType /\ x.status = s
      /\ x.order = row[b].order /\ x.payment = row[b].payment
  <2>1. row[b] \in RowType /\ s \in Statuses
    BY <1>3, <1>5 DEF PayInv, TypeOK, Statuses
  <2> HIDE DEF b
  <2> QED
    BY <2>1, RowStatus
<1> HIDE DEF x
<1>7. Growth /\ GatewayOK' /\ OrderReqOK'
  BY <1>1, QuietKeeps
<1>8. /\ row' \in [Bookings -> RowType]
      /\ \A a \in Bookings : row'[a].status = "PAYMENT_IN_PROGRESS" => row'[a].order # 0
      /\ RowOK' /\ ConfirmedIsPaid' /\ RefundIsBooked'
  BY <1>2, <1>3, <1>4, <1>5, <1>6, <1>7, RowWrite
<1>9. hook' \in [Hooks -> HookType] /\ HookOK'
  BY <1>4, <1>7, HookDone, HookMoves
<1>10. TypeOK'
  BY <1>1, <1>8, <1>9 DEF PayInv, TypeOK
<1> QED
  BY <1>1, <1>7, <1>8, <1>9, <1>10, GrowthKeeps DEF PayInv

----------------------------------------------------------------------------
(* The reconciliation worker *)

\* The worker's steps that write nothing but its own state keep its type,
LEMMA ReconTyped ==
  ASSUME PayInv,
         \/ ReconStart \/ ReconFetch \/ ReconLedger \/ ReconRead \/ SweepStart
         \/ RefundThrows \/ RefundRead \/ ReconEnd \/ ReconAbort
         \/ \E t \in recon.todo : ReconPick(t) \/ RefundPick(t)
  PROVE  recon' \in ReconType
<1> DEFINE Todos == SUBSET [b: Bookings, o: Orders \cup {0}]
<1>1. recon \in ReconType /\ recon.todo \in Todos /\ row \in [Bookings -> RowType]
  BY DEF PayInv, TypeOK, ReconType
<1>2. CASE ReconStart
  <2> DEFINE T == {[b |-> b, o |-> row[b].order] :
                     b \in {b \in stale : row[b].status = "PAYMENT_IN_PROGRESS"}}
  <2>1. T \in Todos
    BY <1>1 DEF PayInv, TypeOK, RowType
  <2>2. recon' = [recon EXCEPT !.pc = "next", !.todo = T]
    BY <1>2 DEF ReconStart
  <2> HIDE DEF T
  <2> QED
    BY <1>1, <2>1, <2>2, ReconUpdate
<1>3. CASE ReconFetch
  BY <1>1, <1>3, ReconUpdate DEF ReconFetch
<1>4. CASE ReconLedger
  BY <1>1, <1>4, ReconUpdate DEF ReconLedger
<1>5. CASE ReconRead
  <2>1. recon.b \in Bookings
    BY <1>5 DEF ReconRead, PayInv, ReconOK
  <2>2. row[recon.b].status \in Statuses
    BY <1>1, <2>1 DEF RowType
  <2> QED
    BY <1>1, <1>5, <2>2, ReconUpdate DEF ReconRead
<1>6. CASE SweepStart
  <2> DEFINE T == {[b |-> b, o |-> 0] :
                     b \in {b \in Bookings : row[b].status = "REFUND_INITIATED"}}
  <2>1. T \in Todos
    OBVIOUS
  <2>2. recon' = [recon EXCEPT !.pc = "sweep", !.todo = T]
    BY <1>6 DEF SweepStart
  <2> HIDE DEF T
  <2> QED
    BY <1>1, <2>1, <2>2, ReconUpdate
<1>7. CASE RefundThrows
  BY <1>1, <1>7, ReconUpdate DEF RefundThrows
<1>8. CASE RefundRead
  <2>1. recon.b \in Bookings
    BY <1>8 DEF RefundRead, PayInv, ReconOK
  <2>2. row[recon.b].status \in Statuses
    BY <1>1, <2>1 DEF RowType
  <2> QED
    BY <1>1, <1>8, <2>2, ReconUpdate DEF RefundRead
<1>9. CASE ReconEnd
  BY <1>1, <1>9, ReconUpdate DEF ReconEnd
<1>10. CASE ReconAbort
  BY <1>1, <1>10, ReconUpdate DEF ReconAbort, Going
<1>11. ASSUME NEW t \in recon.todo, ReconPick(t) \/ RefundPick(t)
       PROVE  recon' \in ReconType
  <2>1. recon.todo \ {t} \in Todos /\ t.b \in Bookings /\ t.o \in Orders \cup {0}
    BY <1>1
  <2>2. row[t.b].payment \in Orders \cup {0}
    BY <1>1, <2>1 DEF RowType
  <2>3. CASE ReconPick(t)
    BY <1>1, <2>1, <2>3, ReconUpdate DEF ReconPick
  <2>4. CASE RefundPick(t)
    BY <1>1, <2>1, <2>2, <2>4, ReconUpdate DEF RefundPick
  <2> QED
    BY <1>11, <2>3, <2>4
<1> QED
  BY <1>2, <1>3, <1>4, <1>5, <1>6, <1>7, <1>8, <1>9, <1>10, <1>11

\* and what it knows.
LEMMA ReconReadKeeps ==
  ASSUME PayInv,
         \/ ReconStart \/ ReconFetch \/ ReconLedger \/ ReconRead \/ SweepStart
         \/ RefundThrows \/ RefundRead \/ ReconEnd \/ ReconAbort
         \/ \E t \in recon.todo : ReconPick(t) \/ RefundPick(t)
  PROVE  PayInv'
<1>1. UNCHANGED <<row, overdue, stale, ledger, recorded, gateway, orderReq,
                  hook, admin, expiring, cleaning, sweeping>>
  BY DEF ReconStart, ReconFetch, ReconLedger, ReconRead, SweepStart, RefundThrows,
         RefundRead, ReconEnd, ReconAbort, ReconPick, RefundPick
<1>2. faults' \in Nat
  <2>1. faults' \in {faults, faults + 1}
    BY DEF ReconStart, ReconFetch, ReconLedger, ReconRead, SweepStart, RefundThrows,
           RefundRead, ReconEnd, ReconAbort, ReconPick, RefundPick
  <2> QED
    BY <2>1 DEF PayInv, TypeOK
<1>3. TypeOK'
  BY <1>1, <1>2, ReconTyped DEF PayInv, TypeOK
<1>4. ReconOK'
  <2> USE <1>1 DEF PayInv, TypeOK, ReconType
  <2>1. CASE ReconStart
    BY <2>1 DEF ReconStart, ReconOK, RowOK, RowType
  <2>2. CASE ReconFetch \/ ReconLedger \/ ReconRead \/ SweepStart
    BY <2>2 DEF ReconFetch, ReconLedger, ReconRead, SweepStart, ReconOK
  <2>3. CASE RefundThrows
    BY <2>3 DEF RefundThrows, ReconOK
  <2>4. CASE RefundRead
    BY <2>4 DEF RefundRead, ReconOK
  <2>5. CASE ReconEnd
    BY <2>5 DEF ReconEnd, ReconOK, IdleRecon
  <2>6. CASE ReconAbort
    <3>1. CASE recon' = IdleRecon
      BY <3>1 DEF ReconOK, IdleRecon
    <3>3. CASE recon' = Going("sweep")
      <4>1. recon'.pc = "sweep"
        BY ONLY <3>3 DEF IdleRecon, Going
      <4> QED
        BY <4>1 DEF ReconOK
    <3>2. CASE /\ recon.pc \in {"fetch", "ledger", "sync", "read", "write"}
               /\ recon' = Going("next")
      BY <3>2 DEF ReconOK, IdleRecon, Going
    <3> QED
      BY <2>6, <3>1, <3>2, <3>3 DEF ReconAbort
  <2>7. ASSUME NEW t \in recon.todo, ReconPick(t)
        PROVE  ReconOK'
    BY <2>7 DEF ReconPick, ReconOK
  <2>8. ASSUME NEW t \in recon.todo, RefundPick(t)
        PROVE  ReconOK'
    <3>1. t.b \in Bookings
      OBVIOUS
    <3>2. CASE recon'.pc = "sweep"
      BY <3>2 DEF ReconOK
    <3>3. CASE recon'.pc # "sweep"
      <4>1. /\ recon'.pc = "refund" /\ recon'.b = t.b
            /\ recon'.o = row[t.b].payment /\ row[t.b].payment # 0
        BY <2>8, <3>3 DEF RefundPick
      <4>2. PaidFor(recon'.o, t.b) /\ ledger[recon'.o].paid > 0
        BY <3>1, <4>1 DEF RowOK
      <4> QED
        BY <3>1, <4>1, <4>2 DEF ReconOK, PaidFor
    <3> QED
      BY <3>2, <3>3
  <2> QED
    BY <2>1, <2>2, <2>3, <2>4, <2>5, <2>6, <2>7, <2>8
<1> QED
  BY <1>1, <1>3, <1>4, GrowthKeeps, QuietKeeps DEF PayInv

\* Razorpay accepts the worker's refund.
LEMMA RefundCallKeeps == PayInv /\ RefundCall => PayInv'
<1> SUFFICES ASSUME PayInv, RefundCall PROVE PayInv'
  OBVIOUS
<1>1. UNCHANGED <<row, overdue, stale, ledger, recorded, orderReq,
                  hook, admin, expiring, cleaning, sweeping, faults>>
  BY DEF RefundCall
<1>2. recon.o \in Orders /\ ledger[recon.o].paid > 0 /\ AcceptRefund(recon.o)
  BY DEF RefundCall, PayInv, ReconOK
<1>3. recon' = [recon EXCEPT !.pc = "reread", !.found = TRUE] /\ recon.pc = "refund"
  BY DEF RefundCall
<1>4. /\ gateway' \in [Orders -> GatewayType]
      /\ Growth /\ GatewayOK' /\ OrderReqOK' /\ gateway'[recon.o].refund # "none"
      /\ RefundIsBooked'
  BY <1>1, <1>2, AcceptRefundKeeps
<1>5. recon' \in ReconType
  <2>1. recon \in ReconType /\ recon.todo \in SUBSET [b: Bookings, o: Orders \cup {0}]
    BY DEF PayInv, TypeOK, ReconType
  <2> QED
    BY <1>3, <2>1, ReconUpdate
<1>6. TypeOK'
  BY <1>1, <1>4, <1>5 DEF PayInv, TypeOK
<1>7. ReconOK'
  <2>1. /\ recon'.pc = "reread" /\ recon'.b = recon.b /\ recon'.o = recon.o
    BY <1>3 DEF PayInv, TypeOK, ReconType
  <2>2. /\ recon.b \in Bookings /\ gateway[recon.o].b = recon.b
        /\ gateway[recon.o].pay = "captured"
    BY <1>3 DEF PayInv, ReconOK
  <2>3. /\ gateway'[recon.o].b = recon.b /\ gateway'[recon.o].pay = "captured"
    BY <1>2, <1>4, <2>2, NoBookingAssumption DEF Growth
  <2> QED
    BY <1>1, <1>2, <1>4, <2>1, <2>2, <2>3 DEF ReconOK
<1> QED
  BY <1>1, <1>4, <1>6, <1>7, GrowthKeeps DEF PayInv

\* Going on, the worker keeps its list and forgets the booking in its hands.
LEMMA GoingKeeps ==
  ASSUME PayInv, Growth, NEW pc \in {"next", "sweep"}, recon' = Going(pc),
         pc = "next" => recon.pc \in {"sync", "write"}
  PROVE  recon' \in ReconType /\ ReconOK'
<1>1. recon \in ReconType /\ recon.todo \in SUBSET [b: Bookings, o: Orders \cup {0}]
  BY DEF PayInv, TypeOK, ReconType
<1>2. recon' \in ReconType
  BY <1>1, ReconUpdate DEF Going
<1>3. recon'.pc = pc /\ recon'.todo = recon.todo
  BY DEF Going, IdleRecon
<1>4. CASE pc = "sweep"
  BY <1>2, <1>3, <1>4 DEF ReconOK
<1>5. CASE pc = "next"
  <2>1. \A t \in recon.todo : t.o \in Orders /\ t.b \in Bookings /\ gateway[t.o].b = t.b
    BY <1>1, <1>5 DEF PayInv, ReconOK
  <2>2. \A t \in recon.todo : gateway'[t.o].b = t.b
    BY <2>1, NoBookingAssumption DEF Growth
  <2> QED
    BY <1>2, <1>3, <1>5, <2>1, <2>2 DEF ReconOK
<1> QED
  BY <1>2, <1>4, <1>5

\* A payment the ledger knows confirms the booking.
LEMMA ReconSyncKeeps == PayInv /\ ReconSync => PayInv'
<1> SUFFICES ASSUME PayInv, ReconSync PROVE PayInv'
  OBVIOUS
<1> DEFINE b == recon.b
           x == [row[b] EXCEPT !.status = "CONFIRMED"]
<1>1. /\ UNCHANGED <<overdue, stale, ledger, recorded, gateway, orderReq,
                     hook, admin, expiring, cleaning, sweeping, faults>>
      /\ recon' = Going("next") /\ recon.pc = "sync"
      /\ row' = row \/ row' = [row EXCEPT ![b] = x]
  BY DEF ReconSync
<1>2. /\ b \in Bookings /\ recon.o \in Orders /\ gateway[recon.o].b = b
      /\ gateway[recon.o].pay = "captured" /\ ledger[recon.o].paid > 0
  BY <1>1 DEF PayInv, ReconOK
<1>3. Growth /\ GatewayOK' /\ OrderReqOK'
  BY <1>1, QuietKeeps
<1> HIDE DEF b
<1>4. /\ row' \in [Bookings -> RowType]
      /\ \A a \in Bookings : row'[a].status = "PAYMENT_IN_PROGRESS" => row'[a].order # 0
      /\ RowOK' /\ ConfirmedIsPaid' /\ RefundIsBooked'
  <2>1. CASE row' = row
    BY <1>1, <1>3, <2>1, GrowthKeeps, QuietKeeps DEF PayInv, TypeOK
  <2>2. CASE row' = [row EXCEPT ![b] = x]
    <3>1. row[b] \in RowType /\ "CONFIRMED" \in Statuses
      BY <1>2 DEF PayInv, TypeOK, Statuses
    <3>2. /\ x \in RowType /\ x.status = "CONFIRMED"
          /\ x.order = row[b].order /\ x.payment = row[b].payment
      BY <3>1, RowStatus
    <3> HIDE DEF x
    <3> QED
      BY <1>1, <1>2, <1>3, <2>2, <3>2, RowWrite
  <2> QED
    BY <1>1, <2>1, <2>2
<1>5. recon' \in ReconType /\ ReconOK'
  BY <1>1, <1>3, GoingKeeps
<1>6. TypeOK'
  BY <1>1, <1>4, <1>5 DEF PayInv, TypeOK
<1> QED
  BY <1>1, <1>3, <1>4, <1>5, <1>6, GrowthKeeps DEF PayInv

\* The worker confirms, recovers or abandons a booking.
LEMMA ReconWriteKeeps == PayInv /\ ReconWrite => PayInv'
<1> SUFFICES ASSUME PayInv, ReconWrite PROVE PayInv'
  OBVIOUS
<1> DEFINE b == recon.b
           o == recon.o
<1>1. /\ UNCHANGED <<overdue, stale, recorded, gateway, orderReq,
                     hook, admin, expiring, cleaning, sweeping, faults>>
      /\ recon' = Going("next") /\ recon.pc = "write"
  BY DEF ReconWrite
<1>2. /\ b \in Bookings /\ o \in Orders /\ gateway[o].b = b
      /\ recon.found => gateway[o].pay = "captured"
  BY <1>1 DEF PayInv, ReconOK
<1>3. row[b] \in RowType /\ ledger[o] \in LedgerType
  BY <1>2 DEF PayInv, TypeOK
<1>4. PICK x \in RowType :
        /\ \/ row' = [row EXCEPT ![b] = x] /\ x.status = "CONFIRMED" /\ x.payment = o
              /\ recon.found /\ ledger' = [ledger EXCEPT ![o] = PaymentRow(ledger[o])]
           \/ row' = [row EXCEPT ![b] = x] /\ x.status = "REFUND_INITIATED" /\ x.payment = o
              /\ recon.found /\ ledger' = [ledger EXCEPT ![o] = LateRow(ledger[o])]
           \/ row' = [row EXCEPT ![b] = x] /\ x.status = "FAILED"
              /\ x.payment = row[b].payment /\ ledger' = ledger
           \/ row' = row /\ ledger' = ledger
        /\ x.order = row[b].order
  <2> DEFINE y == [row[b] EXCEPT !.status = "REFUND_INITIATED", !.payment = o]
  <2>1. /\ y \in RowType /\ y.status = "REFUND_INITIATED"
        /\ y.payment = o /\ y.order = row[b].order
    <3>1. y \in RowType
      BY <1>2, <1>3, RowUpdate
    <3> QED
      BY <1>3, <3>1 DEF RowType
  <2>2. /\ Confirmed(row[b], o) \in RowType /\ Confirmed(row[b], o).status = "CONFIRMED"
        /\ Confirmed(row[b], o).payment = o /\ Confirmed(row[b], o).order = row[b].order
    BY <1>2, <1>3, ConfirmedRow
  <2>3. /\ Abandoned(row[b]) \in RowType /\ Abandoned(row[b]).status = "FAILED"
        /\ Abandoned(row[b]).payment = row[b].payment
        /\ Abandoned(row[b]).order = row[b].order
    BY <1>3, AbandonedRow
  <2>4. \/ row' = [row EXCEPT ![b] = Confirmed(row[b], o)]
           /\ recon.found /\ ledger' = [ledger EXCEPT ![o] = PaymentRow(ledger[o])]
        \/ row' = [row EXCEPT ![b] = y]
           /\ recon.found /\ ledger' = [ledger EXCEPT ![o] = LateRow(ledger[o])]
        \/ row' = [row EXCEPT ![b] = Abandoned(row[b])] /\ ledger' = ledger
        \/ row' = row /\ ledger' = ledger
    BY DEF ReconWrite
  <2> HIDE DEF y, b, o
  <2> QED
    BY <2>1, <2>2, <2>3, <2>4
<1> HIDE DEF b, o
<1>5. /\ ledger' \in [Orders -> LedgerType] /\ Growth /\ GatewayOK' /\ OrderReqOK'
      /\ ledger' # ledger => ledger'[o].paid > 0
  <2>1. CASE ledger' = [ledger EXCEPT ![o] = PaymentRow(ledger[o])]
    BY <1>1, <1>2, <1>3, <2>1, LedgerUpdate, LedgerGrows
  <2>2. CASE ledger' = [ledger EXCEPT ![o] = LateRow(ledger[o])]
    BY <1>1, <1>2, <1>3, <2>2, LedgerUpdate, LedgerGrows
  <2>3. CASE ledger' = ledger
    BY <1>1, <2>3, QuietKeeps DEF PayInv, TypeOK
  <2> QED
    BY <1>4, <2>1, <2>2, <2>3
<1>6. ledger' = [ledger EXCEPT ![o] = PaymentRow(ledger[o])]
        \/ ledger' = [ledger EXCEPT ![o] = LateRow(ledger[o])] => ledger'[o].paid > 0
  BY <1>1, <1>2, <1>3, LedgerUpdate, LedgerGrows
<1>7. /\ row' \in [Bookings -> RowType]
      /\ \A a \in Bookings : row'[a].status = "PAYMENT_IN_PROGRESS" => row'[a].order # 0
      /\ RowOK' /\ ConfirmedIsPaid' /\ RefundIsBooked'
  <2>1. CASE row' = row
    BY <1>5, <2>1, GrowthKeeps, RefundsKeep DEF PayInv, TypeOK
  <2>2. CASE row' = [row EXCEPT ![b] = x] /\ x.payment = row[b].payment
             /\ x.status = "FAILED"
    BY <1>2, <1>4, <1>5, <2>2, RowWrite
  <2>3. CASE row' = [row EXCEPT ![b] = x] /\ x.payment = o /\ recon.found
             /\ ledger'[o].paid > 0 /\ x.status \in {"CONFIRMED", "REFUND_INITIATED"}
    <3>1. gateway'[o].b = b /\ gateway'[o].pay = "captured"
      BY <1>1, <1>2, <2>3
    <3> QED
      BY <1>2, <1>4, <1>5, <2>3, <3>1, RowWrite
  <2> QED
    BY <1>4, <1>6, <2>1, <2>2, <2>3
<1>8. recon' \in ReconType /\ ReconOK'
  BY <1>1, <1>5, GoingKeeps
<1>9. TypeOK'
  BY <1>1, <1>5, <1>7, <1>8 DEF PayInv, TypeOK
<1> QED
  BY <1>1, <1>5, <1>7, <1>8, <1>9, GrowthKeeps DEF PayInv

\* The worker notes what became of a refund.
LEMMA RefundWriteKeeps == PayInv /\ RefundWrite => PayInv'
<1> SUFFICES ASSUME PayInv, RefundWrite PROVE PayInv'
  OBVIOUS
<1> DEFINE b == recon.b
           o == recon.o
           s == IF recon.found THEN "REFUNDED" ELSE "REFUND_FAILED"
           x == [row[b] EXCEPT !.status = s]
           result == IF recon.found THEN "SUCCESS" ELSE "FAILED"
           l == [ledger[o] EXCEPT !.refund = ledger[o].refund \cup {result}]
<1>1. /\ UNCHANGED <<overdue, stale, recorded, gateway, orderReq,
                     hook, admin, expiring, cleaning, sweeping, faults>>
      /\ recon' = Going("sweep") /\ recon.pc = "rewrite"
      /\ row' = row \/ row' = [row EXCEPT ![b] = x]
      /\ ledger' = [ledger EXCEPT ![o] = l]
  BY DEF RefundWrite
<1>2. /\ b \in Bookings /\ o \in Orders /\ gateway[o].b = b
      /\ s = "REFUNDED" => gateway[o].refund # "none"
  BY <1>1 DEF PayInv, ReconOK
<1>3. row[b] \in RowType /\ ledger[o] \in LedgerType
  BY <1>2 DEF PayInv, TypeOK
<1>4. result \in {"SUCCESS", "FAILED"} /\ s \in {"REFUNDED", "REFUND_FAILED"} /\ s \in Statuses
  BY DEF Statuses
<1> HIDE DEF s, result, b, o
<1>5. l \in LedgerType /\ l.paid = ledger[o].paid
  BY <1>3, <1>4, LedgerUpdate
<1>6. /\ x \in RowType /\ x.status = s
      /\ x.order = row[b].order /\ x.payment = row[b].payment
  BY <1>3, <1>4, RowStatus
<1> HIDE DEF x, l
<1>7. ledger' \in [Orders -> LedgerType] /\ Growth /\ GatewayOK' /\ OrderReqOK'
  BY <1>1, <1>2, <1>5, LedgerGrows
<1>8. /\ row' \in [Bookings -> RowType]
      /\ \A a \in Bookings : row'[a].status = "PAYMENT_IN_PROGRESS" => row'[a].order # 0
      /\ RowOK' /\ ConfirmedIsPaid' /\ RefundIsBooked'
  <2>1. CASE row' = row
    BY <1>7, <2>1, GrowthKeeps, RefundsKeep DEF PayInv, TypeOK
  <2>2. CASE row' = [row EXCEPT ![b] = x]
    BY <1>2, <1>4, <1>6, <1>7, <2>2, RowWrite
  <2> QED
    BY <1>1, <2>1, <2>2
<1>9. recon' \in ReconType /\ ReconOK'
  BY <1>1, <1>7, GoingKeeps
<1>10. TypeOK'
  BY <1>1, <1>7, <1>8, <1>9 DEF PayInv, TypeOK
<1> QED
  BY <1>1, <1>7, <1>8, <1>9, <1>10, GrowthKeeps DEF PayInv

----------------------------------------------------------------------------
(* The admin's refund and the sweeps *)

\* The admin's handler reads a confirmed booking, or gives up.
LEMMA AdminReadKeeps ==
  ASSUME PayInv, AdminAbort \/ \E b \in Bookings : AdminRead(b)
  PROVE  PayInv'
<1>1. UNCHANGED <<row, overdue, stale, ledger, recorded, gateway, orderReq,
                  hook, recon, expiring, cleaning, sweeping>>
  BY DEF AdminAbort, AdminRead
<1>2. faults' \in {faults, faults + 1}
  BY DEF AdminAbort, AdminRead
<1>3. admin' \in AdminType /\ AdminOK'
  <2>1. CASE AdminAbort
    BY <2>1 DEF AdminAbort, IdleAdmin, AdminType, AdminOK
  <2>2. ASSUME NEW b \in Bookings, AdminRead(b)
        PROVE  admin' \in AdminType /\ AdminOK'
    <3>1. /\ PaidFor(row[b].payment, b) /\ ledger[row[b].payment].paid > 0
      BY <2>2 DEF AdminRead, PayInv, RowOK
    <3>2. admin' = [pc |-> "call", b |-> b, o |-> row[b].payment]
      BY <2>2 DEF AdminRead
    <3> QED
      BY <1>1, <3>1, <3>2 DEF AdminType, AdminOK, PaidFor
  <2> QED
    BY <2>1, <2>2
<1>4. TypeOK'
  BY <1>1, <1>2, <1>3 DEF PayInv, TypeOK
<1>5. Growth /\ GatewayOK' /\ OrderReqOK'
  BY <1>1, QuietKeeps
<1> QED
  BY <1>1, <1>3, <1>4, <1>5, GrowthKeeps, RefundsKeep DEF PayInv

\* Razorpay accepts the admin's refund.
LEMMA AdminCallKeeps == PayInv /\ AdminCall => PayInv'
<1> SUFFICES ASSUME PayInv, AdminCall PROVE PayInv'
  OBVIOUS
<1>1. /\ UNCHANGED <<row, overdue, stale, ledger, recorded, orderReq,
                     hook, recon, expiring, cleaning, sweeping, faults>>
      /\ admin' = [admin EXCEPT !.pc = "update"] /\ admin.pc = "call"
      /\ AcceptRefund(admin.o)
  BY DEF AdminCall
<1>2. /\ admin.b \in Bookings /\ PaidFor(admin.o, admin.b) /\ admin.o \in Orders
      /\ ledger[admin.o].paid > 0
  BY <1>1 DEF PayInv, AdminOK, PaidFor
<1>3. /\ gateway' \in [Orders -> GatewayType]
      /\ Growth /\ GatewayOK' /\ OrderReqOK' /\ RefundIsBooked'
  BY <1>1, <1>2, AcceptRefundKeeps
<1>4. admin' \in AdminType /\ admin'.b = admin.b /\ admin'.o = admin.o
  BY <1>1 DEF PayInv, TypeOK, AdminType
<1>5. AdminOK'
  <2>1. gateway'[admin.o].b = admin.b /\ gateway'[admin.o].pay = "captured"
    BY <1>2, <1>3, NoBookingAssumption DEF Growth, PaidFor
  <2> QED
    BY <1>1, <1>2, <1>4, <2>1 DEF AdminOK, PaidFor
<1>6. TypeOK'
  BY <1>1, <1>3, <1>4 DEF PayInv, TypeOK
<1> QED
  BY <1>1, <1>3, <1>5, <1>6, GrowthKeeps DEF PayInv

\* A step that calls one booking EXPIRED or REFUND_INITIATED, and
\* leaves Razorpay and the ledger alone
LEMMA PlainWrite ==
  ASSUME PayInv, UNCHANGED <<gateway, ledger>>, NEW b \in Bookings, NEW x \in RowType,
         row' = [row EXCEPT ![b] = x],
         x.status \in {"EXPIRED", "REFUND_INITIATED"},
         x.order = row[b].order, x.payment = row[b].payment
  PROVE  /\ row' \in [Bookings -> RowType]
         /\ \A a \in Bookings : row'[a].status = "PAYMENT_IN_PROGRESS" => row'[a].order # 0
         /\ Growth /\ GatewayOK' /\ RowOK' /\ ConfirmedIsPaid' /\ RefundIsBooked'
<1>1. Growth /\ GatewayOK'
  BY QuietKeeps
<1> QED
  BY <1>1, RowWrite

\* The admin's handler notes the refund.
LEMMA AdminUpdateKeeps == PayInv /\ AdminUpdate => PayInv'
<1> SUFFICES ASSUME PayInv, AdminUpdate PROVE PayInv'
  OBVIOUS
<1> DEFINE b == admin.b
           x == [row[b] EXCEPT !.status = "REFUND_INITIATED"]
<1>1. /\ UNCHANGED <<overdue, stale, ledger, recorded, gateway, orderReq,
                     hook, recon, expiring, cleaning, sweeping, faults>>
      /\ admin' = [admin EXCEPT !.pc = "release"] /\ admin.pc = "update"
      /\ row' = [row EXCEPT ![b] = x]
  BY DEF AdminUpdate
<1>2. b \in Bookings /\ row[b] \in RowType
  BY <1>1 DEF PayInv, TypeOK, AdminOK
<1> HIDE DEF b
<1>3. x \in RowType /\ x.status = "REFUND_INITIATED"
      /\ x.order = row[b].order /\ x.payment = row[b].payment
  BY <1>2, RowStatus DEF Statuses
<1> HIDE DEF x
<1>4. /\ row' \in [Bookings -> RowType]
      /\ \A a \in Bookings : row'[a].status = "PAYMENT_IN_PROGRESS" => row'[a].order # 0
      /\ Growth /\ GatewayOK' /\ RowOK' /\ ConfirmedIsPaid' /\ RefundIsBooked'
  BY <1>1, <1>2, <1>3, PlainWrite
<1>5. admin' \in AdminType /\ AdminOK'
  <2>1. admin' \in AdminType /\ admin'.b = admin.b /\ admin'.o = admin.o
    BY <1>1 DEF PayInv, TypeOK, AdminType
  <2> QED
    BY <1>1, <2>1 DEF PayInv, AdminOK, PaidFor
<1>6. TypeOK'
  BY <1>1, <1>4, <1>5 DEF PayInv, TypeOK
<1> QED
  BY <1>1, <1>4, <1>5, <1>6, GrowthKeeps, QuietKeeps DEF PayInv

\* The admin's handler releases the seats.
LEMMA AdminReleaseKeeps == PayInv /\ AdminRelease => PayInv'
<1> SUFFICES ASSUME PayInv, AdminRelease PROVE PayInv'
  OBVIOUS
<1> DEFINE b == admin.b
           x == [row[b] EXCEPT !.lock = "RELEASED"]
<1>1. /\ UNCHANGED <<overdue, stale, ledger, recorded, gateway, orderReq,
                     hook, recon, expiring, cleaning, sweeping, faults>>
      /\ admin' = IdleAdmin /\ admin.pc = "release"
      /\ row' = [row EXCEPT ![b] = x]
  BY DEF AdminRelease
<1>2. b \in Bookings /\ row[b] \in RowType
  BY <1>1 DEF PayInv, TypeOK, AdminOK
<1> HIDE DEF b
<1>3. x \in RowType
  BY <1>2, RowRelease
<1>4. x.status = row[b].status /\ x.order = row[b].order /\ x.payment = row[b].payment
  BY <1>2 DEF RowType
<1> HIDE DEF x
<1>5. /\ row' \in [Bookings -> RowType]
      /\ \A a \in Bookings : /\ row'[a].status = row[a].status
                             /\ row'[a].order = row[a].order
                             /\ row'[a].payment = row[a].payment
  BY <1>1, <1>2, <1>3, <1>4 DEF PayInv, TypeOK
<1>6. admin' \in AdminType /\ AdminOK'
  BY <1>1 DEF IdleAdmin, AdminType, AdminOK
<1>7. TypeOK'
  BY <1>1, <1>5, <1>6 DEF PayInv, TypeOK
<1>8. RowOK' /\ ConfirmedIsPaid' /\ RefundIsBooked'
  BY <1>1, <1>5 DEF PayInv, RowOK, PaidFor, ConfirmedIsPaid, RefundIsBooked
<1> QED
  BY <1>1, <1>6, <1>7, <1>8, GrowthKeeps, QuietKeeps DEF PayInv

\* An expiry by id expires the booking.
LEMMA ExpireKeeps ==
  ASSUME PayInv, NEW b \in Bookings, ExpiryWrite(b) \/ CleanupWrite(b)
  PROVE  PayInv'
<1>1. /\ UNCHANGED <<overdue, stale, ledger, recorded, gateway, orderReq,
                     hook, recon, admin, sweeping, faults>>
      /\ expiring' \subseteq Bookings /\ cleaning' \subseteq Bookings
  BY DEF ExpiryWrite, CleanupWrite, PayInv, TypeOK
<1>2. row[b] \in RowType
  BY DEF PayInv, TypeOK
<1>3. PICK x \in RowType :
        /\ row' = [row EXCEPT ![b] = x] /\ x.status = "EXPIRED"
        /\ x.order = row[b].order /\ x.payment = row[b].payment
  <2>1. CASE ExpiryWrite(b)
    <3> DEFINE x == [Released(row[b]) EXCEPT !.status = "EXPIRED"]
    <3>1. x \in RowType
      BY <1>2, RowRelease DEF Statuses
    <3>2. x.status = "EXPIRED" /\ x.order = row[b].order /\ x.payment = row[b].payment
      BY <1>2 DEF Released, RowType
    <3>3. row' = [row EXCEPT ![b] = x]
      BY <2>1 DEF ExpiryWrite
    <3> HIDE DEF x
    <3> QED
      BY <3>1, <3>2, <3>3
  <2>2. CASE CleanupWrite(b)
    <3> DEFINE x == [row[b] EXCEPT !.status = "EXPIRED"]
    <3>1. "EXPIRED" \in Statuses
      BY DEF Statuses
    <3>2. /\ x \in RowType /\ x.status = "EXPIRED"
          /\ x.order = row[b].order /\ x.payment = row[b].payment
      BY <1>2, <3>1, RowStatus
    <3>3. row' = [row EXCEPT ![b] = x]
      BY <2>2 DEF CleanupWrite
    <3> HIDE DEF x
    <3> QED
      BY <3>2, <3>3
  <2> QED
    BY <2>1, <2>2
<1>4. /\ row' \in [Bookings -> RowType]
      /\ \A a \in Bookings : row'[a].status = "PAYMENT_IN_PROGRESS" => row'[a].order # 0
      /\ Growth /\ GatewayOK' /\ RowOK' /\ ConfirmedIsPaid' /\ RefundIsBooked'
  BY <1>1, <1>3, PlainWrite
<1>5. TypeOK'
  BY <1>1, <1>4 DEF PayInv, TypeOK
<1> QED
  BY <1>1, <1>4, <1>5, GrowthKeeps, QuietKeeps DEF PayInv

\* The batch of releaseExpiredLocks expires bookings and confirms none.
LEMMA SweepWriteKeeps == PayInv /\ SweepWrite => PayInv'
<1> SUFFICES ASSUME PayInv, SweepWrite PROVE PayInv'
  OBVIOUS
<1>1. /\ UNCHANGED <<overdue, stale, ledger, recorded, gateway, orderReq,
                     hook, recon, admin, expiring, cleaning, faults>>
      /\ sweeping' = {}
      /\ row' = [b \in Bookings |-> IF b \in sweeping THEN SweptRow(row[b]) ELSE row[b]]
  BY DEF SweepWrite
<1>2. ASSUME NEW b \in Bookings
      PROVE  /\ row'[b] \in RowType
             /\ row'[b].order = row[b].order /\ row'[b].payment = row[b].payment
             /\ row'[b].status \in {row[b].status, "EXPIRED"}
  <2>1. row[b] \in RowType
    BY DEF PayInv, TypeOK
  <2>2. /\ SweptRow(row[b]) \in RowType
        /\ SweptRow(row[b]).order = row[b].order
        /\ SweptRow(row[b]).payment = row[b].payment
        /\ SweptRow(row[b]).status \in {row[b].status, "EXPIRED"}
    <3>1. SweptRow(row[b]) \in RowType
      BY <2>1, RowRelease
    <3> QED
      BY <2>1, <3>1 DEF RowType, SweptRow
  <2>3. row'[b] = IF b \in sweeping THEN SweptRow(row[b]) ELSE row[b]
    BY <1>1
  <2> QED
    BY <2>1, <2>2, <2>3
<1>3. row' \in [Bookings -> RowType]
  BY <1>1, <1>2
<1>4. Growth /\ GatewayOK' /\ OrderReqOK'
  BY <1>1, QuietKeeps
<1>5. RowOK'
  BY <1>1, <1>2 DEF PayInv, RowOK, PaidFor
<1>6. ConfirmedIsPaid'
  BY <1>1, <1>2 DEF PayInv, ConfirmedIsPaid
<1>7. RefundIsBooked'
  BY <1>2, <1>4, RefundsKeep
<1>8. TypeOK'
  BY <1>1, <1>2, <1>3 DEF PayInv, TypeOK
<1> QED
  BY <1>1, <1>4, <1>5, <1>6, <1>7, <1>8, GrowthKeeps DEF PayInv

----------------------------------------------------------------------------
\* PayInv is inductive: whatever the webhooks, the worker, the admin and the
\* sweeps do to a booking, on whatever stale reads, they keep it.
THEOREM PaymentInvariant == Spec => []PayInv
<1>1. PayInv /\ [Next]_vars => PayInv'
  <2> SUFFICES ASSUME PayInv, [Next]_vars PROVE PayInv'
    OBVIOUS
  <2>1. CASE UNCHANGED vars
    BY <2>1 DEF vars, PayInv, TypeOK, GatewayOK, OrderReqOK, RowOK, HookOK, ReconOK,
                AdminOK, PaidFor, ConfirmedIsPaid, RefundIsBooked
  <2>2. ASSUME NEW b \in Bookings, Lapse(b) \/ Age(b) \/ AdminRead(b)
        PROVE  PayInv'
    BY <2>2, ClockKeeps, AdminReadKeeps
  <2>3. ASSUME NEW o \in Orders, Pay(o) \/ SettleRefund(o)
        PROVE  PayInv'
    BY <2>3, PayKeeps, SettleRefundKeeps
  <2>4. ASSUME NEW c \in OrderReqs,
               OrderStep(c) \/ OrderFail(c) \/ \E b \in Bookings : OrderRead(c, b)
        PROVE  PayInv'
    BY <2>4, OrderReadKeeps, OrderCreateKeeps, OrderUpdateKeeps DEF OrderStep
  <2>5. ASSUME NEW h \in Hooks, HookStep(h) \/ HookAbort(h)
        PROVE  PayInv'
    BY <2>5, HookReadKeeps, HookWriteKeeps, HookSettleKeeps DEF HookStep
  <2>6. ASSUME NEW h \in Hooks, NEW o \in Orders, NEW kind \in gateway[o].events,
               Deliver(h, o, kind)
        PROVE  PayInv'
    BY <2>6, HookReadKeeps
  <2>7. CASE ReconStep \/ ReconAbort
    BY <2>7, ReconReadKeeps, ReconSyncKeeps, ReconWriteKeeps, RefundCallKeeps,
       RefundWriteKeeps DEF ReconStep
  <2>8. CASE AdminCall \/ AdminUpdate \/ AdminRelease \/ AdminAbort
    BY <2>8, AdminCallKeeps, AdminUpdateKeeps, AdminReleaseKeeps, AdminReadKeeps
  <2>9. CASE CronStep \/ CronAbort
    BY <2>9, ClockKeeps, ExpireKeeps, SweepWriteKeeps DEF CronStep
  <2> QED
    BY <2>1, <2>2, <2>3, <2>4, <2>5, <2>6, <2>7, <2>8, <2>9 DEF Next
<1> QED
  BY <1>1, InitPayInv, PTL DEF Spec

\* The types are right, for any number of bookings, orders, handlers and faults.
THEOREM TypesCorrect == Spec => []TypeOK
BY PaymentInvariant, PTL DEF PayInv

\* A CONFIRMED booking is paid and in the ledger, whoever confirmed it.
THEOREM ConfirmedBookingIsPaid == Spec => []ConfirmedIsPaid
BY PaymentInvariant, PTL DEF PayInv

\* Money goes back only for a payment the ledger knows, and a REFUNDED booking
\* had a refund accepted.
THEOREM RefundsAreBooked == Spec => []RefundIsBooked
BY PaymentInvariant, PTL DEF PayInv

----------------------------------------------------------------------------
(* The seats of a confirmed booking *)

\* The statuses of a booking that is over unpaid
Over == {"EXPIRED", "CANCELLED", "FAILED"}

\* The seats are this booking's for good.
Held(b) == row[b].lock = "CONFIRMED" /\ row[b].seat = "CONFIRMED"

\* A webhook handler that has read EXPIRED has a forfeited booking in hand.
HooksInHand ==
  \A h \in Hooks : hook[h].pc = "write" /\ hook[h].seen = "EXPIRED" =>
                     Forfeited(gateway[hook[h].o].b)

\* What the sweeps, the handlers, the worker and the admin have in hand was
\* overdue, given up or refunded when they took it up.
HandsOK ==
  /\ sweeping \subseteq overdue /\ expiring \subseteq overdue /\ cleaning \subseteq overdue
  /\ HooksInHand
  /\ recon.pc = "write" /\ recon.seen \in Over => Forfeited(recon.b)
  /\ admin.pc \in {"update", "release"} => gateway[admin.o].refund # "none"

\* A booking that is over, or whose lock is released, has been forfeited; one
\* with a payment in the ledger has been, or it holds its seats.
SeatsOK ==
  /\ \A b \in Bookings : (row[b].lock = "RELEASED" \/ row[b].status \in Over) => Forfeited(b)
  /\ \A o \in Orders : ledger[o].paid > 0 =>
       /\ gateway[o].b \in Bookings
       /\ Forfeited(gateway[o].b) \/ Held(gateway[o].b)

\* What no step takes back: time, the booking of an order, and its refund
Ages ==
  /\ overdue \subseteq overdue'
  /\ \A o \in Orders :
       /\ gateway[o].b # NoBooking => gateway'[o].b = gateway[o].b
       /\ gateway[o].refund # "none" => gateway'[o].refund # "none"

\* The five ways a step may treat the seats of a booking: they are left alone,
\* they are confirmed with it, the booking is over, its locks are swept, or
\* released by the admin.
SeatMove(b) ==
  /\ row[b].givenUp = "yes" => row'[b].givenUp = "yes"
  /\ row'[b].status \in Over => row[b].status \in Over \/ Forfeited(b)'
  /\ \/ /\ row'[b].lock = row[b].lock /\ row'[b].seat = row[b].seat
        /\ row'[b].status = "CONFIRMED" =>
             row[b].status = "CONFIRMED" \/ Forfeited(b) \/ Held(b)
     \/ /\ row'[b].lock = IF row[b].lock = "LOCKED" THEN "CONFIRMED" ELSE row[b].lock
        /\ row'[b].seat = "CONFIRMED"
     \/ /\ row'[b].status # "CONFIRMED" /\ row'[b].seat = row[b].seat
        /\ row'[b].lock = row[b].lock \/ Forfeited(b)'
     \/ /\ b \in sweeping
        /\ row'[b].status \in {row[b].status, "EXPIRED"}
     \/ /\ admin.pc = "release" /\ admin.b = b
        /\ row'[b].status = row[b].status /\ row'[b].seat = row[b].seat

\* A payment is booked for a booking that was forfeited, or whose seats are
\* confirmed with it.
PaidMove ==
  \A o \in Orders : ledger'[o].paid > 0 =>
    \/ ledger[o].paid > 0
    \/ /\ gateway'[o].b \in Bookings
       /\ \/ Forfeited(gateway[o].b)'
          \/ /\ row'[gateway'[o].b].lock \in {"CONFIRMED", "RELEASED"}
             /\ row'[gateway'[o].b].seat = "CONFIRMED"

\* What every step does
SeatStep == Ages /\ HandsOK' /\ PaidMove /\ \A b \in Bookings : SeatMove(b)

\* What ConfirmedKeepsSeats says of one step
KeepsSeats ==
  \A b \in Bookings : ~Seatless(b) /\ Seatless(b)' =>
    IF row[b].status = "CONFIRMED"
    THEN \/ b \in sweeping \cap overdue
         \/ admin.pc = "release" /\ admin.b = b
    ELSE Forfeited(b)

\* What has been forfeited stays so.
LEMMA ForfeitedStays ==
  ASSUME Ages, \A b \in Bookings : SeatMove(b), NEW b \in Bookings, Forfeited(b)
  PROVE  Forfeited(b)'
<1>1. row[b].givenUp = "yes" => row'[b].givenUp = "yes"
  BY DEF SeatMove
<1> QED
  BY <1>1, NoBookingAssumption DEF Forfeited, Ages

\* The five ways release only what is forfeited and keep the seats.
LEMMA MovesKeepSeats ==
  ASSUME PayInv, HandsOK, SeatsOK, SeatStep
  PROVE  SeatsOK' /\ KeepsSeats
<1>1. Ages /\ \A b \in Bookings : SeatMove(b)
  BY DEF SeatStep
<1>2. ASSUME NEW b \in Bookings, Forfeited(b) PROVE Forfeited(b)'
  BY <1>1, <1>2, ForfeitedStays
<1>3. ASSUME NEW b \in Bookings, b \in sweeping \/ (admin.pc = "release" /\ admin.b = b)
      PROVE  Forfeited(b)
  <2>1. admin.pc = "release" => PaidFor(admin.o, admin.b) /\ gateway[admin.o].refund # "none"
    BY DEF PayInv, AdminOK, HandsOK
  <2> QED
    BY <1>3, <2>1 DEF HandsOK, Forfeited, PaidFor
<1>4. ASSUME NEW b \in Bookings, row'[b].lock = "RELEASED" \/ row'[b].status \in Over
      PROVE  Forfeited(b)'
  <2>1. (row[b].lock = "RELEASED" \/ row[b].status \in Over) => Forfeited(b)'
    BY <1>2 DEF SeatsOK
  <2>2. SeatMove(b) /\ (b \in sweeping \/ (admin.pc = "release" /\ admin.b = b) => Forfeited(b)')
    BY <1>1, <1>2, <1>3
  <2> QED
    BY <1>4, <2>1, <2>2 DEF SeatMove
<1>5. ASSUME NEW b \in Bookings, Held(b) PROVE Forfeited(b)' \/ Held(b)'
  <2>1. SeatMove(b) /\ (b \in sweeping \/ (admin.pc = "release" /\ admin.b = b) => Forfeited(b)')
    BY <1>1, <1>2, <1>3
  <2> QED
    BY <1>5, <2>1 DEF SeatMove, Held
<1>6. ASSUME NEW o \in Orders, ledger'[o].paid > 0
      PROVE  /\ gateway'[o].b \in Bookings
             /\ Forfeited(gateway[o].b)' \/ Held(gateway[o].b)'
  <2>1. CASE ledger[o].paid > 0
    <3> DEFINE b == gateway[o].b
    <3>1. b \in Bookings /\ (Forfeited(b) \/ Held(b))
      BY <2>1 DEF SeatsOK
    <3>2. gateway'[o].b = b
      BY <1>1, <3>1, NoBookingAssumption DEF Ages
    <3>3. ASSUME NEW a \in Bookings, Forfeited(a) \/ Held(a), gateway'[o].b = a
          PROVE  Forfeited(gateway[o].b)' \/ Held(gateway[o].b)'
      <4>1. Forfeited(a)' \/ Held(a)'
        BY <1>2, <1>5, <3>3
      <4> QED
        BY <3>3, <4>1 DEF Forfeited, Held
    <3> QED
      BY <3>1, <3>2, <3>3
  <2>2. CASE ~(ledger[o].paid > 0)
    <3>1. /\ gateway'[o].b \in Bookings
          /\ \/ Forfeited(gateway[o].b)'
             \/ /\ row'[gateway'[o].b].lock \in {"CONFIRMED", "RELEASED"}
                /\ row'[gateway'[o].b].seat = "CONFIRMED"
      BY <1>6, <2>2 DEF SeatStep, PaidMove
    <3>2. row'[gateway'[o].b].lock = "RELEASED" => Forfeited(gateway[o].b)'
      <4>1. ASSUME NEW a \in Bookings, gateway'[o].b = a, row'[a].lock = "RELEASED"
            PROVE  Forfeited(gateway[o].b)'
        <5>1. Forfeited(a)'
          BY <1>4, <4>1
        <5> QED
          BY <4>1, <5>1 DEF Forfeited
      <4> QED
        BY <3>1, <4>1
    <3> QED
      BY <3>1, <3>2 DEF Held
  <2> QED
    BY <2>1, <2>2
<1>7. ASSUME NEW b \in Bookings, ~Seatless(b), Seatless(b)'
      PROVE  IF row[b].status = "CONFIRMED"
             THEN b \in sweeping \cap overdue \/ (admin.pc = "release" /\ admin.b = b)
             ELSE Forfeited(b)
  <2>1. row[b].lock \in {"LOCKED", "CONFIRMED", "RELEASED"}
    BY DEF PayInv, TypeOK, RowType
  <2>2. row'[b].status = "CONFIRMED" /\ {row'[b].lock, row'[b].seat} # {"CONFIRMED"}
    BY <1>7 DEF Seatless
  <2>3. CASE /\ row'[b].lock = row[b].lock /\ row'[b].seat = row[b].seat
             /\ row'[b].status = "CONFIRMED" =>
                  row[b].status = "CONFIRMED" \/ Forfeited(b) \/ Held(b)
    BY <1>7, <2>2, <2>3 DEF Seatless, Held
  <2>4. CASE /\ row'[b].lock = IF row[b].lock = "LOCKED" THEN "CONFIRMED" ELSE row[b].lock
             /\ row'[b].seat = "CONFIRMED"
    <3>1. row[b].lock = "RELEASED"
      BY <2>1, <2>2, <2>4
    <3> QED
      BY <1>7, <3>1 DEF Seatless, SeatsOK
  <2>5. CASE b \in sweeping /\ row'[b].status \in {row[b].status, "EXPIRED"}
    BY <2>2, <2>5 DEF HandsOK
  <2>6. CASE admin.pc = "release" /\ admin.b = b /\ row'[b].status = row[b].status
    BY <2>2, <2>6
  <2> QED
    BY <1>1, <2>2, <2>3, <2>4, <2>5, <2>6 DEF SeatMove
<1> QED
  BY <1>4, <1>6, <1>7 DEF SeatsOK, KeepsSeats

\* A step that writes one booking
LEMMA OneSeatMove ==
  ASSUME PayInv, NEW b \in Bookings, NEW x, row' = [row EXCEPT ![b] = x],
         row[b].givenUp = "yes" => x.givenUp = "yes",
         x.status \in Over => row[b].status \in Over \/ Forfeited(b)',
         \/ /\ x.lock = row[b].lock /\ x.seat = row[b].seat
            /\ x.status = "CONFIRMED" =>
                 row[b].status = "CONFIRMED" \/ Forfeited(b) \/ Held(b)
         \/ /\ x.lock = IF row[b].lock = "LOCKED" THEN "CONFIRMED" ELSE row[b].lock
            /\ x.seat = "CONFIRMED"
         \/ /\ x.status # "CONFIRMED" /\ x.seat = row[b].seat
            /\ x.lock = row[b].lock \/ Forfeited(b)'
         \/ /\ admin.pc = "release" /\ admin.b = b
            /\ x.status = row[b].status /\ x.seat = row[b].seat
  PROVE  \A a \in Bookings : SeatMove(a)
<1>1. row'[b] = x /\ \A a \in Bookings \ {b} : row'[a] = row[a]
  BY DEF PayInv, TypeOK
<1>2. SeatMove(b)
  BY <1>1 DEF SeatMove
<1>3. \A a \in Bookings \ {b} : SeatMove(a)
  BY <1>1 DEF SeatMove
<1> QED
  BY <1>2, <1>3

\* A step that writes no booking
LEMMA NoSeatMove ==
  ASSUME UNCHANGED row
  PROVE  \A a \in Bookings : SeatMove(a)
BY DEF SeatMove

\* What a writer of one booking makes of its lock, its seat and its history
LEMMA RowSeats ==
  ASSUME NEW x \in RowType, NEW o \in Orders
  PROVE  /\ \A s : LET y == [x EXCEPT !.status = s]
                   IN  /\ y.status = s /\ y.lock = x.lock /\ y.seat = x.seat
                       /\ y.givenUp = x.givenUp
         /\ LET y == [x EXCEPT !.status = "PAYMENT_IN_PROGRESS", !.order = o]
            IN  /\ y.status = "PAYMENT_IN_PROGRESS" /\ y.lock = x.lock /\ y.seat = x.seat
                /\ y.givenUp = x.givenUp
         /\ LET y == [x EXCEPT !.status = "REFUND_INITIATED", !.payment = o]
            IN  /\ y.status = "REFUND_INITIATED" /\ y.lock = x.lock /\ y.seat = x.seat
                /\ y.givenUp = x.givenUp
         /\ LET y == Confirmed(x, o)
            IN  /\ y.status = "CONFIRMED" /\ y.seat = "CONFIRMED" /\ y.givenUp = x.givenUp
                /\ y.lock = IF x.lock = "LOCKED" THEN "CONFIRMED" ELSE x.lock
         /\ LET y == [x EXCEPT !.lock = "RELEASED"]
            IN  /\ y.status = x.status /\ y.seat = x.seat /\ y.givenUp = x.givenUp
         /\ LET y == Abandoned(x)
            IN  y.status = "FAILED" /\ y.seat = x.seat /\ y.givenUp = "yes"
         /\ LET y == [Released(x) EXCEPT !.status = "EXPIRED"]
            IN  y.status = "EXPIRED" /\ y.seat = x.seat /\ y.givenUp = x.givenUp
         /\ SweptRow(x).status \in {x.status, "EXPIRED"} /\ SweptRow(x).givenUp = x.givenUp
BY DEF RowType, Confirmed, Abandoned, Released, SweptRow

\* The booking of an order that a handler works on
LEMMA HookBooking ==
  ASSUME PayInv, NEW h \in Hooks, hook[h].pc # "idle"
  PROVE  /\ hook[h].o \in Orders /\ gateway[hook[h].o].b \in Bookings
         /\ gateway[hook[h].o].pay = "captured"
         /\ row[gateway[hook[h].o].b] \in RowType
<1>1. hook[h].o \in Orders /\ gateway[hook[h].o].pay = "captured"
  BY DEF PayInv, HookOK, GatewayOK
<1> QED
  BY <1>1 DEF PayInv, GatewayOK, TypeOK, GatewayType

\* What handlers have in hand stays forfeited.
LEMMA HandsStay ==
  ASSUME PayInv, HandsOK, Ages, \A b \in Bookings : SeatMove(b),
         \A h \in Hooks : \/ hook'[h] = hook[h]
                          \/ hook'[h].pc # "write" \/ hook'[h].seen # "EXPIRED"
                          \/ Forfeited(gateway[hook[h].o].b)'
  PROVE  HooksInHand'
<1>1. ASSUME NEW h \in Hooks, hook'[h] = hook[h],
             hook[h].pc = "write" /\ hook[h].seen = "EXPIRED"
      PROVE  Forfeited(gateway[hook[h].o].b)'
  <2>1. /\ hook[h].o \in Orders /\ gateway[hook[h].o].b \in Bookings
        /\ Forfeited(gateway[hook[h].o].b)
    BY <1>1, HookBooking DEF HandsOK, HooksInHand
  <2>2. ASSUME NEW a \in Bookings, a = gateway[hook[h].o].b
        PROVE  Forfeited(gateway[hook[h].o].b)'
    <3>1. Forfeited(a)'
      BY <2>1, <2>2, ForfeitedStays
    <3>2. gateway'[hook'[h].o].b = a
      BY <1>1, <2>1, <2>2, NoBookingAssumption DEF Ages
    <3> QED
      BY <3>1, <3>2 DEF Forfeited
  <2> QED
    BY <2>1, <2>2
<1> QED
  BY <1>1 DEF HooksInHand

\* A step after which the sweeps, the worker and the admin have in hand what
\* they had
LEMMA AsideSeats ==
  ASSUME PayInv, HandsOK, Ages, \A b \in Bookings : SeatMove(b), PaidMove, HooksInHand',
         UNCHANGED <<overdue, recon, admin, expiring, cleaning, sweeping>>
  PROVE  SeatStep
<1>1. admin.pc \in {"update", "release"} => gateway'[admin.o].refund # "none"
  BY DEF PayInv, AdminOK, PaidFor, HandsOK, Ages
<1>2. recon.pc = "write" /\ recon.seen \in Over => Forfeited(recon.b)'
  <2> SUFFICES ASSUME recon.pc = "write", recon.seen \in Over PROVE Forfeited(recon.b)'
    OBVIOUS
  <2>1. recon.b \in Bookings /\ Forfeited(recon.b)
    BY DEF PayInv, ReconOK, HandsOK
  <2>2. ASSUME NEW a \in Bookings, a = recon.b PROVE Forfeited(recon.b)'
    <3>1. Forfeited(a)'
      BY <2>1, <2>2, ForfeitedStays
    <3> QED
      BY <2>2, <3>1 DEF Forfeited
  <2> QED
    BY <2>1, <2>2
<1> QED
  BY <1>1, <1>2 DEF SeatStep, HandsOK

\* The clock goes on and the sweeps read.
LEMMA ClockSeats ==
  ASSUME PayInv, HandsOK,
         \/ \E b \in Bookings : Lapse(b) \/ Age(b) \/ ExpiryRead(b)
         \/ CleanupList \/ SweepList \/ CronAbort
  PROVE  SeatStep
<1>1. /\ UNCHANGED <<row, gateway, ledger, hook, recon, admin>>
      /\ overdue \subseteq overdue'
  BY DEF Lapse, Age, ExpiryRead, CleanupList, SweepList, CronAbort
<1>2. sweeping' \subseteq overdue' /\ expiring' \subseteq overdue' /\ cleaning' \subseteq overdue'
  BY DEF HandsOK, Lapse, Age, ExpiryRead, CleanupList, SweepList, CronAbort
<1>3. Ages /\ (\A b \in Bookings : SeatMove(b)) /\ PaidMove
  BY <1>1, NoSeatMove DEF Ages, PaidMove
<1>4. HooksInHand'
  BY <1>1, <1>3, HandsStay
<1>5. Forfeited(recon.b) => Forfeited(recon.b)'
  BY <1>1 DEF Forfeited
<1> QED
  BY <1>1, <1>2, <1>3, <1>4, <1>5 DEF SeatStep, HandsOK

\* Orders are made and paid, and refunds settled.
LEMMA OrderSeats ==
  ASSUME PayInv, HandsOK,
         \/ \E o \in Orders : Pay(o) \/ SettleRefund(o)
         \/ \E c \in OrderReqs : \/ OrderStep(c) \/ OrderFail(c)
                                 \/ \E b \in Bookings : OrderRead(c, b)
  PROVE  SeatStep
<1>1. UNCHANGED <<overdue, ledger, hook, recon, admin, expiring, cleaning, sweeping>>
  BY DEF Pay, SettleRefund, OrderStep, OrderUpdate, OrderCreate, OrderFail, OrderRead
<1>2. gateway \in [Orders -> GatewayType]
  BY DEF PayInv, TypeOK
<1>3. PaidMove
  BY <1>1 DEF PaidMove
<1> SUFFICES Ages /\ \A b \in Bookings : SeatMove(b)
  BY <1>1, <1>3, HandsStay, AsideSeats
<1>4. CASE \E o \in Orders : Pay(o)
  <2>1. UNCHANGED row
    BY <1>4 DEF Pay
  <2>2. ASSUME NEW o \in Orders, NEW noted \in BOOLEAN,
               gateway' = [gateway EXCEPT ![o] = Captured(gateway[o], noted)]
        PROVE  Ages
    <3>1. /\ gateway'[o].b = gateway[o].b /\ gateway'[o].refund = gateway[o].refund
          /\ \A p \in Orders \ {o} : gateway'[p] = gateway[p]
      BY <1>2, <2>2 DEF Captured, GatewayType
    <3> QED
      BY <1>1, <3>1 DEF Ages
  <2>3. Ages
    BY <1>4, <2>2 DEF Pay
  <2> QED
    BY <2>1, <2>3, NoSeatMove
<1>5. CASE \E o \in Orders : SettleRefund(o)
  <2>1. UNCHANGED row
    BY <1>5 DEF SettleRefund
  <2>2. ASSUME NEW o \in Orders, NEW result \in {"processed", "failed"},
               gateway' = [gateway EXCEPT ![o] = Settled(gateway[o], result)]
        PROVE  Ages
    <3>1. /\ gateway'[o].b = gateway[o].b /\ gateway'[o].refund # "none"
          /\ \A p \in Orders \ {o} : gateway'[p] = gateway[p]
      BY <1>2, <2>2 DEF Settled, GatewayType
    <3> QED
      BY <1>1, <3>1 DEF Ages
  <2>3. Ages
    BY <1>5, <2>2 DEF SettleRefund
  <2> QED
    BY <2>1, <2>3, NoSeatMove
<1>6. ASSUME NEW c \in OrderReqs,
             OrderFail(c) \/ \E b \in Bookings : OrderRead(c, b)
      PROVE  Ages /\ \A b \in Bookings : SeatMove(b)
  <2>1. UNCHANGED <<row, gateway>>
    BY <1>6 DEF OrderFail, OrderRead
  <2> QED
    BY <1>1, <2>1, NoSeatMove DEF Ages
<1>7. ASSUME NEW c \in OrderReqs, NEW o \in Orders, OrderCreate(c, o)
      PROVE  Ages /\ \A b \in Bookings : SeatMove(b)
  <2>1. UNCHANGED row
    BY <1>7 DEF OrderCreate
  <2>2. gateway[o].b = NoBooking /\ gateway[o].refund = "none"
    BY <1>7 DEF OrderCreate, PayInv, GatewayOK
  <2>3. \A p \in Orders \ {o} : gateway'[p] = gateway[p]
    BY <1>2, <1>7 DEF OrderCreate
  <2>4. Ages
    BY <1>1, <2>2, <2>3 DEF Ages
  <2> QED
    BY <2>1, <2>4, NoSeatMove
<1>8. ASSUME NEW c \in OrderReqs, OrderUpdate(c)
      PROVE  Ages /\ \A b \in Bookings : SeatMove(b)
  <2> DEFINE b == orderReq[c].b
             o == orderReq[c].o
             x == [row[b] EXCEPT !.status = "PAYMENT_IN_PROGRESS", !.order = o]
  <2>1. b \in Bookings /\ o \in Orders /\ row[b] \in RowType
    BY <1>8 DEF OrderUpdate, PayInv, OrderReqOK, TypeOK
  <2>2. row' = [row EXCEPT ![b] = x] /\ gateway' = [gateway EXCEPT ![o].pay = "open"]
    BY <1>8 DEF OrderUpdate
  <2>3. /\ x.status = "PAYMENT_IN_PROGRESS" /\ x.lock = row[b].lock /\ x.seat = row[b].seat
        /\ x.givenUp = row[b].givenUp
    BY <2>1, RowSeats
  <2>4. Ages
    BY <1>1, <1>2, <2>1, <2>2 DEF Ages, GatewayType
  <2> HIDE DEF x, b, o
  <2>5. \A a \in Bookings : SeatMove(a)
    BY <2>1, <2>2, <2>3, OneSeatMove DEF Over
  <2> QED
    BY <2>4, <2>5
<1> QED
  BY <1>4, <1>5, <1>6, <1>7, <1>8 DEF OrderStep

\* The webhook handlers
LEMMA HookSeats ==
  ASSUME PayInv, HandsOK, SeatsOK, NEW h \in Hooks,
         \/ HookStep(h) \/ HookAbort(h)
         \/ \E o \in Orders : \E kind \in gateway[o].events : Deliver(h, o, kind)
  PROVE  SeatStep
<1>1. /\ UNCHANGED <<overdue, gateway, recon, admin, expiring, cleaning, sweeping>>
      /\ \A g \in Hooks \ {h} : hook'[g] = hook[g]
  BY DEF HookStep, HookInsert, HookRead, HookWrite, HookCommit, HookResolve, HookSettle,
         HookAbort, Deliver, PayInv, TypeOK
<1>2. Ages
  BY <1>1 DEF Ages
<1> DEFINE o == hook[h].o
           b == gateway[o].b
<1>3. hook[h].pc # "idle" => b \in Bookings /\ o \in Orders /\ row[b] \in RowType
  BY HookBooking
<1>4. hook[h] \in HookType /\ ledger \in [Orders -> LedgerType]
  BY DEF PayInv, TypeOK
<1>5. CASE HookWrite(h)
  <2>1. hook[h].pc = "write" /\ hook'[h].pc # "write"
    BY <1>4, <1>5 DEF HookWrite, PayInv, TypeOK, HookType
  <2>2. CASE /\ row' = [row EXCEPT ![b] = Confirmed(row[b], o)]
             /\ ledger' = [ledger EXCEPT ![o] = PaymentRow(ledger[o])]
    <3> DEFINE x == Confirmed(row[b], o)
    <3>1. /\ x.lock = IF row[b].lock = "LOCKED" THEN "CONFIRMED" ELSE row[b].lock
          /\ x.seat = "CONFIRMED" /\ x.status = "CONFIRMED" /\ x.givenUp = row[b].givenUp
      BY <1>3, <2>1, RowSeats
    <3>2. row' = [row EXCEPT ![b] = x] /\ x.lock \in {"CONFIRMED", "RELEASED"}
      BY <1>3, <2>1, <2>2, <3>1 DEF RowType
    <3> HIDE DEF x
    <3>3. \A a \in Bookings : SeatMove(a)
      BY <1>3, <2>1, <3>1, <3>2, OneSeatMove DEF Over
    <3>4. row'[b] = x
      BY <1>3, <2>1, <3>2 DEF PayInv, TypeOK
    <3>5. \A p \in Orders \ {o} : ledger'[p] = ledger[p]
      BY <1>4, <2>2
    <3>6. PaidMove
      BY <1>1, <1>3, <2>1, <3>1, <3>2, <3>4, <3>5 DEF PaidMove
    <3> QED
      BY <1>1, <1>2, <2>1, <3>3, <3>6, HandsStay, AsideSeats
  <2>3. CASE /\ hook[h].seen = "EXPIRED" /\ row' = row
             /\ ledger' = [ledger EXCEPT ![o] = LateRow(ledger[o])]
    <3>1. \A a \in Bookings : SeatMove(a)
      BY <2>3, NoSeatMove
    <3>2. PICK p \in Orders : p = hook[h].o
      BY <1>3, <2>1
    <3>3. Forfeited(gateway[p].b)' /\ gateway'[p].b \in Bookings
      BY <1>1, <1>3, <2>1, <2>3, <3>2 DEF HandsOK, HooksInHand, Forfeited
    <3>4. \A q \in Orders \ {p} : ledger'[q] = ledger[q]
      BY <1>4, <2>3, <3>2
    <3>5. PaidMove
      BY <3>3, <3>4 DEF PaidMove
    <3> QED
      BY <1>1, <1>2, <2>1, <3>1, <3>5, HandsStay, AsideSeats
  <2>4. CASE UNCHANGED <<row, ledger>>
    BY <1>1, <1>2, <2>1, <2>4, NoSeatMove, HandsStay, AsideSeats DEF PaidMove
  <2> QED
    BY <1>5, <2>2, <2>3, <2>4 DEF HookWrite
<1>6. CASE HookSettle(h)
  <2> DEFINE s == IF hook[h].kind = "processed" THEN "REFUNDED" ELSE "REFUND_FAILED"
             x == [row[b] EXCEPT !.status = s]
  <2>1. /\ row' = [row EXCEPT ![b] = x] /\ hook[h].pc = "settle" /\ UNCHANGED ledger
        /\ hook'[h].pc # "write"
    BY <1>6 DEF HookSettle, PayInv, TypeOK, IdleHook
  <2>2. /\ x.status \in {"REFUNDED", "REFUND_FAILED"} /\ x.lock = row[b].lock
        /\ x.seat = row[b].seat /\ x.givenUp = row[b].givenUp
    BY <1>3, <2>1, RowSeats
  <2>3. PaidMove
    BY <2>1 DEF PaidMove
  <2> HIDE DEF x, b
  <2>4. \A a \in Bookings : SeatMove(a)
    BY <1>3, <2>1, <2>2, OneSeatMove DEF Over
  <2> QED
    BY <1>1, <1>2, <2>1, <2>3, <2>4, HandsStay, AsideSeats
<1>7. CASE HookRead(h)
  <2>1. /\ UNCHANGED <<row, ledger>> /\ hook[h].pc = "read"
        /\ hook'[h].seen = row[b].status /\ hook'[h].o = hook[h].o
    BY <1>4, <1>7 DEF HookRead, PayInv, TypeOK, HookType
  <2>2. hook'[h].seen = "EXPIRED" => Forfeited(gateway[hook[h].o].b)'
    <3>1. hook'[h].seen = "EXPIRED" => Forfeited(b)
      BY <1>3, <2>1 DEF SeatsOK, Over
    <3> QED
      BY <1>1, <2>1, <3>1 DEF Forfeited
  <2>3. (\A a \in Bookings : SeatMove(a)) /\ PaidMove
    BY <2>1, NoSeatMove DEF PaidMove
  <2>4. HooksInHand'
    BY <1>1, <1>2, <2>2, <2>3, HandsStay
  <2> QED
    BY <1>1, <1>2, <2>3, <2>4, AsideSeats
<1>8. ASSUME UNCHANGED <<row, ledger>>, hook'[h].pc # "write" PROVE SeatStep
  <2>1. (\A a \in Bookings : SeatMove(a)) /\ PaidMove
    BY <1>8, NoSeatMove DEF PaidMove
  <2>2. HooksInHand'
    BY <1>1, <1>2, <1>8, <2>1, HandsStay
  <2> QED
    BY <1>1, <1>2, <2>1, <2>2, AsideSeats
<1>9. CASE HookInsert(h) \/ HookCommit(h) \/ HookResolve(h) \/ HookAbort(h)
  <2>1. hook'[h].pc # "write" /\ UNCHANGED <<row, ledger>>
    BY <1>4, <1>9 DEF HookInsert, HookCommit, HookResolve, HookAbort, IdleHook,
                      PayInv, TypeOK, HookType
  <2> QED
    BY <1>8, <2>1
<1>10. ASSUME NEW p \in Orders, NEW kind \in gateway[p].events, Deliver(h, p, kind)
       PROVE  SeatStep
  <2>1. hook'[h].pc # "write" /\ UNCHANGED <<row, ledger>>
    BY <1>4, <1>10 DEF Deliver, PayInv, TypeOK, HookType
  <2> QED
    BY <1>8, <2>1
<1> QED
  BY <1>5, <1>6, <1>7, <1>9, <1>10 DEF HookStep

\* The worker: a step that leaves the others with what they have in hand
LEMMA WorkerSeats ==
  ASSUME PayInv, HandsOK, Ages, \A b \in Bookings : SeatMove(b), PaidMove,
         UNCHANGED <<overdue, hook, admin, expiring, cleaning, sweeping>>,
         recon'.pc = "write" /\ recon'.seen \in Over => Forfeited(recon.b)'
  PROVE  SeatStep
<1>1. admin.pc \in {"update", "release"} => gateway'[admin.o].refund # "none"
  BY DEF PayInv, AdminOK, PaidFor, HandsOK, Ages
<1>2. HooksInHand'
  BY HandsStay
<1> QED
  BY <1>1, <1>2 DEF SeatStep, HandsOK

\* The reconciliation worker reads, or asks for a refund.
LEMMA ReconReadSeats ==
  ASSUME PayInv, HandsOK, SeatsOK,
         \/ ReconStart \/ ReconFetch \/ ReconLedger \/ ReconRead \/ SweepStart
         \/ RefundThrows \/ RefundRead \/ ReconEnd \/ ReconAbort \/ RefundCall
         \/ \E t \in recon.todo : ReconPick(t) \/ RefundPick(t)
  PROVE  SeatStep
<1>1. UNCHANGED <<row, overdue, ledger, hook, admin, expiring, cleaning, sweeping>>
  BY DEF ReconStart, ReconFetch, ReconLedger, ReconRead, SweepStart, RefundThrows,
         RefundRead, ReconEnd, ReconAbort, RefundCall, ReconPick, RefundPick
<1>2. recon \in ReconType /\ gateway \in [Orders -> GatewayType]
  BY DEF PayInv, TypeOK
<1>3. Ages
  <2>1. CASE RefundCall
    <3>1. gateway' = [gateway EXCEPT ![recon.o].refund = "created"]
      BY <2>1 DEF RefundCall, AcceptRefund
    <3> QED
      BY <1>1, <1>2, <3>1 DEF Ages, GatewayType
  <2>2. CASE ~RefundCall
    <3>1. gateway' = gateway
      BY <2>2 DEF ReconStart, ReconFetch, ReconLedger, ReconRead, SweepStart,
                  RefundThrows, RefundRead, ReconEnd, ReconAbort, ReconPick, RefundPick
    <3> QED
      BY <1>1, <3>1 DEF Ages
  <2> QED
    BY <2>1, <2>2
<1>4. (\A b \in Bookings : SeatMove(b)) /\ PaidMove
  BY <1>1, NoSeatMove DEF PaidMove
<1>5. CASE recon'.pc # "write"
  BY <1>1, <1>3, <1>4, <1>5, WorkerSeats
<1>6. CASE ReconRead
  <2>1. /\ recon.pc = "read" /\ recon'.seen = row[recon.b].status /\ recon'.b = recon.b
        /\ UNCHANGED gateway
    BY <1>2, <1>6 DEF ReconRead, ReconType
  <2>2. recon.b \in Bookings
    BY <2>1 DEF PayInv, ReconOK
  <2>3. recon'.seen \in Over => Forfeited(recon.b)
    BY <2>1, <2>2 DEF SeatsOK
  <2>4. recon'.seen \in Over => Forfeited(recon.b)'
    BY <1>1, <2>1, <2>3 DEF Forfeited
  <2> QED
    BY <1>1, <1>3, <1>4, <2>4, WorkerSeats
<1>7. ASSUME NEW t \in recon.todo, ReconPick(t) \/ RefundPick(t)
      PROVE  SeatStep
  <2>1. recon'.pc # "write"
    BY <1>2, <1>7 DEF ReconPick, RefundPick, ReconType
  <2> QED
    BY <1>5, <2>1
<1>8. CASE ReconStart \/ ReconFetch \/ ReconLedger \/ SweepStart
  <2>1. recon'.pc # "write"
    BY <1>2, <1>8 DEF ReconStart, ReconFetch, ReconLedger, SweepStart, ReconType
  <2> QED
    BY <1>5, <2>1
<1>9. CASE RefundThrows \/ RefundRead \/ RefundCall
  <2>1. recon'.pc # "write"
    BY <1>2, <1>9 DEF RefundThrows, RefundRead, RefundCall, ReconType
  <2> QED
    BY <1>5, <2>1
<1>10. CASE ReconEnd \/ ReconAbort
  <2>1. recon'.pc # "write"
    <3>1. recon' = IdleRecon \/ \E pc \in {"next", "sweep"} : recon' = Going(pc)
      BY <1>10 DEF ReconEnd, ReconAbort
    <3>2. ASSUME NEW pc \in {"next", "sweep"}, recon' = Going(pc) PROVE recon'.pc # "write"
      BY <3>2 DEF Going, IdleRecon
    <3> QED
      BY <3>1, <3>2 DEF IdleRecon
  <2> QED
    BY <1>5, <2>1
<1> QED
  BY <1>6, <1>7, <1>8, <1>9, <1>10

\* The worker writes.
LEMMA ReconWriteSeats ==
  ASSUME PayInv, HandsOK, SeatsOK, ReconSync \/ ReconWrite \/ RefundWrite
  PROVE  SeatStep
<1>1. /\ UNCHANGED <<overdue, gateway, hook, admin, expiring, cleaning, sweeping>>
      /\ recon.pc \in {"sync", "write", "rewrite"}
  BY DEF ReconSync, ReconWrite, RefundWrite
<1>2. PICK b \in Bookings, o \in Orders :
        /\ recon.b = b /\ recon.o = o
        /\ row[b] \in RowType /\ gateway[o].b = b /\ ledger \in [Orders -> LedgerType]
  BY <1>1 DEF PayInv, TypeOK, ReconOK
<1>3. Ages
  BY <1>1 DEF Ages
<1>4. recon'.pc # "write"
  <2>1. PICK pc \in {"next", "sweep"} : recon' = Going(pc)
    BY DEF ReconSync, ReconWrite, RefundWrite
  <2>2. recon'.pc = pc
    BY <2>1 DEF Going, IdleRecon
  <2> QED
    BY <2>2
<1> SUFFICES (\A a \in Bookings : SeatMove(a)) /\ PaidMove
  BY <1>1, <1>3, <1>4, WorkerSeats
<1>5. CASE ReconSync
  <2> DEFINE x == [row[b] EXCEPT !.status = "CONFIRMED"]
  <2>1. (row' = [row EXCEPT ![b] = x] \/ row' = row) /\ recon.pc = "sync" /\ UNCHANGED ledger
    BY <1>2, <1>5 DEF ReconSync
  <2>2. /\ x.lock = row[b].lock /\ x.seat = row[b].seat /\ x.status = "CONFIRMED"
        /\ x.givenUp = row[b].givenUp
    BY <1>2, RowSeats
  <2>3. Forfeited(b) \/ Held(b)
    BY <1>2, <2>1 DEF PayInv, ReconOK, SeatsOK
  <2> HIDE DEF x
  <2>4. CASE row' = [row EXCEPT ![b] = x]
    BY <1>2, <2>1, <2>2, <2>3, <2>4, OneSeatMove DEF PaidMove, Over
  <2>5. CASE row' = row
    BY <2>1, <2>5, NoSeatMove DEF PaidMove
  <2> QED
    BY <2>1, <2>4, <2>5
<1>6. CASE /\ ReconWrite /\ row' = [row EXCEPT ![b] = Confirmed(row[b], o)]
           /\ ledger' = [ledger EXCEPT ![o] = PaymentRow(ledger[o])]
  <2> DEFINE x == Confirmed(row[b], o)
  <2>1. /\ x.lock = IF row[b].lock = "LOCKED" THEN "CONFIRMED" ELSE row[b].lock
        /\ x.seat = "CONFIRMED" /\ x.status = "CONFIRMED" /\ x.givenUp = row[b].givenUp
    BY <1>2, RowSeats
  <2>2. row' = [row EXCEPT ![b] = x] /\ x.lock \in {"CONFIRMED", "RELEASED"}
    BY <1>2, <1>6, <2>1 DEF RowType
  <2> HIDE DEF x
  <2>3. \A a \in Bookings : SeatMove(a)
    BY <1>2, <2>1, <2>2, OneSeatMove DEF Over
  <2>4. row'[b] = x /\ \A p \in Orders \ {o} : ledger'[p] = ledger[p]
    BY <1>2, <1>6, <2>2 DEF PayInv, TypeOK
  <2>5. PaidMove
    BY <1>1, <1>2, <2>1, <2>2, <2>4 DEF PaidMove
  <2> QED
    BY <2>3, <2>5
<1>7. CASE /\ ReconWrite /\ recon.pc = "write" /\ recon.seen \in Over
           /\ row' = [row EXCEPT ![b] = [row[b] EXCEPT !.status = "REFUND_INITIATED",
                                                       !.payment = o]]
           /\ ledger' = [ledger EXCEPT ![o] = LateRow(ledger[o])]
  <2> DEFINE x == [row[b] EXCEPT !.status = "REFUND_INITIATED", !.payment = o]
  <2>1. /\ x.status = "REFUND_INITIATED" /\ x.lock = row[b].lock /\ x.seat = row[b].seat
        /\ x.givenUp = row[b].givenUp
    BY <1>2, RowSeats
  <2>2. row' = [row EXCEPT ![b] = x]
    BY <1>7
  <2>3. Forfeited(b)
    BY <1>2, <1>7 DEF HandsOK
  <2>4. \A p \in Orders \ {o} : ledger'[p] = ledger[p]
    BY <1>2, <1>7
  <2> HIDE DEF x
  <2>5. \A a \in Bookings : SeatMove(a)
    BY <1>2, <2>1, <2>2, OneSeatMove DEF Over
  <2>6. Forfeited(b)'
    BY <1>2, <1>3, <2>3, <2>5, ForfeitedStays
  <2>7. Forfeited(gateway[o].b)' /\ gateway'[o].b \in Bookings
    BY <1>1, <1>2, <2>3, <2>6 DEF Forfeited
  <2>8. PaidMove
    BY <2>4, <2>7 DEF PaidMove
  <2> QED
    BY <2>5, <2>8
<1>8. CASE ReconWrite /\ row' = [row EXCEPT ![b] = Abandoned(row[b])] /\ UNCHANGED ledger
  <2> DEFINE x == Abandoned(row[b])
  <2>1. x.status = "FAILED" /\ x.seat = row[b].seat /\ x.givenUp = "yes"
    BY <1>2, RowSeats
  <2>2. row' = [row EXCEPT ![b] = x]
    BY <1>8
  <2> HIDE DEF x
  <2>3. row'[b].givenUp = "yes"
    BY <1>2, <2>1, <2>2 DEF PayInv, TypeOK
  <2>4. Forfeited(b)'
    BY <1>1, <1>8, <2>3 DEF Forfeited, ReconWrite
  <2>5. \A a \in Bookings : SeatMove(a)
    BY <1>2, <2>1, <2>2, <2>4, OneSeatMove
  <2> QED
    BY <1>8, <2>5 DEF PaidMove
<1>9. CASE UNCHANGED <<row, ledger>>
  BY <1>9, NoSeatMove DEF PaidMove
<1>10. CASE RefundWrite
  <2> DEFINE s == IF recon.found THEN "REFUNDED" ELSE "REFUND_FAILED"
             x == [row[b] EXCEPT !.status = s]
  <2>1. row' = [row EXCEPT ![b] = x] \/ row' = row
    BY <1>2, <1>10 DEF RefundWrite
  <2>2. /\ x.status \in {"REFUNDED", "REFUND_FAILED"} /\ x.lock = row[b].lock
        /\ x.seat = row[b].seat /\ x.givenUp = row[b].givenUp
    BY <1>2, RowSeats
  <2>3. \A p \in Orders : ledger'[p].paid = ledger[p].paid
    BY <1>2, <1>10 DEF RefundWrite, LedgerType
  <2>4. PaidMove
    BY <2>3 DEF PaidMove
  <2> HIDE DEF x
  <2>5. CASE row' = [row EXCEPT ![b] = x]
    BY <1>2, <2>2, <2>4, <2>5, OneSeatMove DEF Over
  <2> QED
    BY <2>1, <2>4, <2>5, NoSeatMove
<1>11. CASE ReconWrite
  BY <1>2, <1>6, <1>7, <1>8, <1>9, <1>11 DEF ReconWrite, Over
<1> QED
  BY <1>5, <1>10, <1>11

\* The admin's refund
LEMMA AdminSeats ==
  ASSUME PayInv, HandsOK,
         \/ AdminCall \/ AdminUpdate \/ AdminRelease \/ AdminAbort
         \/ \E b \in Bookings : AdminRead(b)
  PROVE  SeatStep
<1>1. UNCHANGED <<overdue, ledger, hook, recon, expiring, cleaning, sweeping>>
  BY DEF AdminCall, AdminUpdate, AdminRelease, AdminAbort, AdminRead
<1>2. gateway \in [Orders -> GatewayType] /\ admin \in AdminType
  BY DEF PayInv, TypeOK
<1>3. ASSUME Ages, \A b \in Bookings : SeatMove(b),
             admin'.pc \in {"update", "release"} => gateway'[admin'.o].refund # "none"
      PROVE  SeatStep
  <2>1. PaidMove
    BY <1>1 DEF PaidMove
  <2>2. HooksInHand'
    BY <1>1, <1>3, HandsStay
  <2>3. recon.pc = "write" /\ recon.seen \in Over => Forfeited(recon.b)'
    <3>1. recon.pc = "write" => recon.b \in Bookings
      BY DEF PayInv, ReconOK
    <3>2. ASSUME NEW a \in Bookings, Forfeited(a), a = recon.b PROVE Forfeited(recon.b)'
      <4>1. Forfeited(a)'
        BY <1>3, <3>2, ForfeitedStays
      <4> QED
        BY <1>1, <3>2, <4>1 DEF Forfeited
    <3> QED
      BY <3>1, <3>2 DEF HandsOK
  <2> QED
    BY <1>1, <1>3, <2>1, <2>2, <2>3 DEF SeatStep, HandsOK
<1>4. CASE AdminAbort \/ \E b \in Bookings : AdminRead(b)
  <2>1. UNCHANGED <<row, gateway>> /\ admin'.pc \notin {"update", "release"}
    BY <1>4 DEF AdminAbort, AdminRead, IdleAdmin
  <2> QED
    BY <1>1, <1>3, <2>1, NoSeatMove DEF Ages
<1>5. CASE AdminCall
  <2>1. /\ UNCHANGED row /\ admin.pc = "call"
        /\ gateway' = [gateway EXCEPT ![admin.o].refund = "created"]
        /\ admin' = [admin EXCEPT !.pc = "update"]
    BY <1>5 DEF AdminCall, AcceptRefund
  <2>2. admin.o \in Orders
    BY <2>1 DEF PayInv, AdminOK, PaidFor
  <2>3. Ages /\ gateway'[admin.o].refund # "none"
    BY <1>1, <1>2, <2>1, <2>2 DEF Ages, GatewayType
  <2>4. admin'.o = admin.o
    BY <1>2, <2>1 DEF AdminType
  <2> QED
    BY <1>3, <2>1, <2>3, <2>4, NoSeatMove
<1>6. CASE AdminUpdate
  <2> DEFINE b == admin.b
             x == [row[b] EXCEPT !.status = "REFUND_INITIATED"]
  <2>1. /\ UNCHANGED gateway /\ admin.pc = "update"
        /\ admin' = [admin EXCEPT !.pc = "release"]
        /\ row' = [row EXCEPT ![b] = x]
    BY <1>6 DEF AdminUpdate
  <2>2. b \in Bookings /\ row[b] \in RowType /\ gateway[admin.o].refund # "none"
        /\ admin.o \in Orders
    BY <2>1 DEF PayInv, TypeOK, AdminOK, PaidFor, HandsOK
  <2>3. /\ x.status = "REFUND_INITIATED" /\ x.lock = row[b].lock /\ x.seat = row[b].seat
        /\ x.givenUp = row[b].givenUp
    BY <2>2, RowSeats
  <2>4. admin'.o = admin.o
    BY <1>2, <2>1 DEF AdminType
  <2> HIDE DEF x, b
  <2>5. \A a \in Bookings : SeatMove(a)
    BY <2>1, <2>2, <2>3, OneSeatMove DEF Over
  <2> QED
    BY <1>1, <1>3, <2>1, <2>2, <2>4, <2>5 DEF Ages
<1>7. CASE AdminRelease
  <2> DEFINE b == admin.b
             x == [row[b] EXCEPT !.lock = "RELEASED"]
  <2>1. /\ UNCHANGED gateway /\ admin.pc = "release" /\ admin' = IdleAdmin
        /\ row' = [row EXCEPT ![b] = x]
    BY <1>7 DEF AdminRelease
  <2>2. b \in Bookings /\ row[b] \in RowType /\ admin.o \in Orders
    BY <2>1 DEF PayInv, TypeOK, AdminOK, PaidFor
  <2>3. x.status = row[b].status /\ x.seat = row[b].seat /\ x.givenUp = row[b].givenUp
    BY <2>2, RowSeats
  <2> HIDE DEF x
  <2>4. \A a \in Bookings : SeatMove(a)
    BY <2>1, <2>2, <2>3, OneSeatMove
  <2> QED
    BY <1>1, <1>3, <2>1, <2>4 DEF Ages, IdleAdmin
<1> QED
  BY <1>4, <1>5, <1>6, <1>7

\* The sweeps write.
LEMMA CronSeats ==
  ASSUME PayInv, HandsOK,
         SweepWrite \/ \E b \in Bookings : ExpiryWrite(b) \/ CleanupWrite(b)
  PROVE  SeatStep
<1>1. /\ UNCHANGED <<overdue, ledger, hook, gateway, recon, admin>>
      /\ sweeping' \subseteq sweeping /\ expiring' \subseteq expiring
      /\ cleaning' \subseteq cleaning
  BY DEF SweepWrite, ExpiryWrite, CleanupWrite
<1>2. Ages /\ PaidMove
  BY <1>1 DEF Ages, PaidMove
<1> SUFFICES \A a \in Bookings : SeatMove(a)
  <2>1. ASSUME \A a \in Bookings : SeatMove(a) PROVE SeatStep
    <3>1. HooksInHand'
      BY <1>1, <1>2, <2>1, HandsStay
    <3>2. recon.pc = "write" /\ recon.seen \in Over => Forfeited(recon.b)'
      <4>1. recon.pc = "write" => recon.b \in Bookings
        BY DEF PayInv, ReconOK
      <4>2. ASSUME NEW a \in Bookings, Forfeited(a), a = recon.b PROVE Forfeited(recon.b)'
        <5>1. Forfeited(a)'
          BY <1>2, <2>1, <4>2, ForfeitedStays
        <5> QED
          BY <1>1, <4>2, <5>1 DEF Forfeited
      <4> QED
        BY <4>1, <4>2 DEF HandsOK
    <3> QED
      BY <1>1, <1>2, <2>1, <3>1, <3>2 DEF SeatStep, HandsOK
  <2> QED
    BY <2>1
<1>3. CASE SweepWrite
  <2> SUFFICES ASSUME NEW a \in Bookings PROVE SeatMove(a)
    OBVIOUS
  <2>1. row[a] \in RowType
    BY DEF PayInv, TypeOK
  <2>2. row'[a] = IF a \in sweeping THEN SweptRow(row[a]) ELSE row[a]
    BY <1>3 DEF SweepWrite
  <2>3. SweptRow(row[a]).status \in {row[a].status, "EXPIRED"}
        /\ SweptRow(row[a]).givenUp = row[a].givenUp
    <3>1. \A o \in Orders : SweptRow(row[a]).status \in {row[a].status, "EXPIRED"}
      BY <2>1, RowSeats
    <3> QED
      BY <2>1 DEF RowType, SweptRow
  <2>4. a \in sweeping => Forfeited(a)'
    BY <1>1 DEF HandsOK, Forfeited
  <2> QED
    BY <2>2, <2>3, <2>4 DEF SeatMove
<1>4. ASSUME NEW b \in Bookings, ExpiryWrite(b)
      PROVE  \A a \in Bookings : SeatMove(a)
  <2> DEFINE x == [Released(row[b]) EXCEPT !.status = "EXPIRED"]
  <2>1. row[b] \in RowType
    BY DEF PayInv, TypeOK
  <2>2. row' = [row EXCEPT ![b] = x]
    BY <1>4 DEF ExpiryWrite
  <2>3. x.status = "EXPIRED" /\ x.seat = row[b].seat /\ x.givenUp = row[b].givenUp
    BY <2>1 DEF RowType, Released
  <2>4. Forfeited(b)'
    BY <1>1, <1>4 DEF ExpiryWrite, HandsOK, Forfeited
  <2> HIDE DEF x
  <2> QED
    BY <2>2, <2>3, <2>4, OneSeatMove
<1>5. ASSUME NEW b \in Bookings, CleanupWrite(b)
      PROVE  \A a \in Bookings : SeatMove(a)
  <2> DEFINE x == [row[b] EXCEPT !.status = "EXPIRED"]
  <2>1. row[b] \in RowType
    BY DEF PayInv, TypeOK
  <2>2. row' = [row EXCEPT ![b] = x]
    BY <1>5 DEF CleanupWrite
  <2>3. /\ x.status = "EXPIRED" /\ x.lock = row[b].lock /\ x.seat = row[b].seat
        /\ x.givenUp = row[b].givenUp
    BY <2>1 DEF RowType
  <2>4. Forfeited(b)'
    BY <1>1, <1>5 DEF CleanupWrite, HandsOK, Forfeited
  <2> HIDE DEF x
  <2> QED
    BY <2>2, <2>3, <2>4, OneSeatMove
<1> QED
  BY <1>3, <1>4, <1>5

\* A booking that a sweep, the worker or the admin releases was forfeited, and
\* a confirmed one loses its seats only as ConfirmedKeepsSeats says: for any
\* number of orders and handlers, whatever they have read, also when a late
\* confirmation comes between the two writes of the admin's refund.
THEOREM SeatsOfConfirmedKept == Spec => ConfirmedKeepsSeats
<1>1. Init => HandsOK /\ SeatsOK
  BY DEF Init, HandsOK, HooksInHand, SeatsOK, Over, IdleHook, IdleRecon, IdleAdmin
<1>2. ASSUME PayInv, HandsOK, SeatsOK, [Next]_vars
      PROVE  HandsOK' /\ SeatsOK' /\ [KeepsSeats]_vars
  <2>1. CASE UNCHANGED vars
    BY <1>2, <2>1 DEF vars, HandsOK, HooksInHand, SeatsOK, Held, Forfeited
  <2>2. CASE Next
    <3>1. SeatStep
      <4>1. ASSUME NEW b \in Bookings, Lapse(b) \/ Age(b) \/ AdminRead(b)
            PROVE  SeatStep
        BY <1>2, <4>1, ClockSeats, AdminSeats
      <4>2. ASSUME NEW o \in Orders, Pay(o) \/ SettleRefund(o)
            PROVE  SeatStep
        BY <1>2, <4>2, OrderSeats
      <4>3. ASSUME NEW c \in OrderReqs,
                   OrderStep(c) \/ OrderFail(c) \/ \E b \in Bookings : OrderRead(c, b)
            PROVE  SeatStep
        BY <1>2, <4>3, OrderSeats
      <4>4. ASSUME NEW h \in Hooks,
                   \/ HookStep(h) \/ HookAbort(h)
                   \/ \E o \in Orders : \E kind \in gateway[o].events : Deliver(h, o, kind)
            PROVE  SeatStep
        BY <1>2, <4>4, HookSeats
      <4>5. CASE ReconStep \/ ReconAbort
        BY <1>2, <4>5, ReconReadSeats, ReconWriteSeats DEF ReconStep
      <4>6. CASE AdminCall \/ AdminUpdate \/ AdminRelease \/ AdminAbort
        BY <1>2, <4>6, AdminSeats
      <4>7. CASE CronStep \/ CronAbort
        BY <1>2, <4>7, ClockSeats, CronSeats DEF CronStep
      <4> QED
        BY <2>2, <4>1, <4>2, <4>3, <4>4, <4>5, <4>6, <4>7 DEF Next
    <3> QED
      BY <1>2, <3>1, MovesKeepSeats DEF SeatStep
  <2> QED
    BY <1>2, <2>1, <2>2
<1>3. [KeepsSeats]_vars <=> [\A b \in Bookings : ~Seatless(b) /\ Seatless(b)' =>
         IF row[b].status = "CONFIRMED"
         THEN \/ b \in sweeping \cap overdue
              \/ admin.pc = "release" /\ admin.b = b
         ELSE Forfeited(b)]_vars
  BY DEF KeepsSeats
<1> QED
  BY <1>1, <1>2, <1>3, PaymentInvariant, PTL DEF Spec, ConfirmedKeepsSeats
-----------------------------------------------------------------------------
(* The promise of PaymentRefinement.  A step that reads is a decision, one *)
(* that writes is what was decided, the others are not seen.               *)

\* Nothing but decisions changes.
Untouched == UNCHANGED <<StatusOf, OwnerOf, PaidOrders, BookedOrders, ReturnedOrders>>

\* What the table allows after each status that is written
LEMMA TableIs ==
  /\ Promise!Statuses = Statuses
  /\ Promise!Allowed["LOCKED"] = {"PAYMENT_IN_PROGRESS", "EXPIRED", "FAILED", "CANCELLED"}
  /\ Promise!Allowed["PAYMENT_IN_PROGRESS"] = {"CONFIRMED", "FAILED", "REFUND_INITIATED"}
  /\ Promise!Allowed["CONFIRMED"] = {"CANCELLED", "REFUND_INITIATED"}
  /\ \A s \in {"FAILED", "EXPIRED", "CANCELLED"} : Promise!Allowed[s] = {"REFUND_INITIATED"}
  /\ Promise!Allowed["REFUND_INITIATED"] = {"REFUNDED", "REFUND_FAILED"}
BY DEF Promise!Statuses, Promise!Allowed, Statuses

\* What changes decisions only is invisible, or decides what may be decided.
LEMMA DecidingStep ==
  ASSUME Untouched,
         \A d \in Decisions' \ Decisions :
           \E b \in Bookings, to \in Statuses : d = <<b, to>> /\ Promise!MayDecide(b, to)
  PROVE  Promise!Next
<1>1. \A d \in Decisions' \ Decisions :
        d \in Bookings \X Promise!Statuses /\ Promise!MayDecide(d[1], d[2])
  BY TableIs
<1>2. Promise!Decide
  BY <1>1 DEF Untouched, Promise!Decide
<1> QED
  BY <1>2 DEF Promise!Next

\* Whoever has just read a status may decide what the table allows after it.
LEMMA LookOf ==
  ASSUME NEW b \in Bookings, NEW to \in Promise!Allowed[row[b].status]
  PROVE  Promise!MayDecide(b, to)
BY DEF Promise!MayDecide, StatusOf

\* What is seen of the rows, of the ledger and of Razorpay
LEMMA Projections ==
  /\ row' = row => UNCHANGED StatusOf
  /\ ledger' = ledger => UNCHANGED BookedOrders
  /\ gateway' = gateway => UNCHANGED <<OwnerOf, PaidOrders, ReturnedOrders>>
BY DEF StatusOf, BookedOrders, OwnerOf, PaidOrders, ReturnedOrders

\* Who does nothing decides nothing.
LEMMA PartsKeep ==
  /\ orderReq' = orderReq => OrderDecisions' = OrderDecisions
  /\ hook' = hook /\ gateway' = gateway => HookDecisions' = HookDecisions
  /\ recon' = recon => ReconDecisions' = ReconDecisions
  /\ admin' = admin => AdminDecisions' = AdminDecisions
  /\ UNCHANGED <<expiring, cleaning>> => CronDecisions' = CronDecisions
BY DEF OrderDecisions, HookDecisions, HookDecided, ReconDecisions, ReconDecided,
       AdminDecisions, CronDecisions

\* A step of one request decides for that request only.
LEMMA OrderPart ==
  ASSUME NEW c \in OrderReqs, \A d \in OrderReqs \ {c} : orderReq'[d] = orderReq[d]
  PROVE  \A d \in OrderDecisions' \ OrderDecisions :
           /\ orderReq'[c].pc # "idle"
           /\ d = <<orderReq'[c].b, "PAYMENT_IN_PROGRESS">>
BY DEF OrderDecisions

\* A step of one webhook handler decides for that handler only.
LEMMA HookPart ==
  ASSUME NEW h \in Hooks, \A g \in Hooks \ {h} : hook'[g] = hook[g], gateway' = gateway
  PROVE  \A d \in HookDecisions' \ HookDecisions :
           /\ hook'[h].pc \in {"write", "settle"}
           /\ \E to \in HookDecided(h)' : d = <<gateway[hook'[h].o].b, to>>
<1> SUFFICES ASSUME NEW d \in HookDecisions', d \notin HookDecisions
             PROVE  /\ hook'[h].pc \in {"write", "settle"}
                    /\ \E to \in HookDecided(h)' : d = <<gateway[hook'[h].o].b, to>>
  OBVIOUS
<1>1. PICK g \in Hooks : /\ hook'[g].pc \in {"write", "settle"}
                         /\ d \in {gateway'[hook'[g].o].b} \X HookDecided(g)'
  BY DEF HookDecisions
<1>2. PICK to \in HookDecided(g)' : d = <<gateway[hook'[g].o].b, to>>
  BY <1>1
<1>3. g = h
  <2>1. SUFFICES ASSUME g # h PROVE FALSE
    OBVIOUS
  <2>2. hook'[g] = hook[g] /\ HookDecided(g)' = HookDecided(g)
    BY <2>1 DEF HookDecided
  <2>3. d \in {gateway[hook[g].o].b} \X HookDecided(g) /\ hook[g].pc \in {"write", "settle"}
    BY <1>1, <2>2
  <2> QED
    BY <2>3 DEF HookDecisions
<1> QED
  BY <1>1, <1>2, <1>3

\* Refund events alone are resolved to the booking of their payment.
RefundEvents ==
  \A h \in Hooks : hook[h].pc \in {"resolve", "settle"} => hook[h].kind # "captured"

\* RefundEvents is inductive.
LEMMA RefundEventsStep == PayInv /\ RefundEvents /\ [Next]_vars => RefundEvents'
<1> SUFFICES ASSUME PayInv, RefundEvents, [Next]_vars PROVE RefundEvents'
  OBVIOUS
<1>0. hook \in [Hooks -> HookType]
  BY DEF PayInv, TypeOK
<1>1. CASE UNCHANGED hook
  BY <1>1 DEF RefundEvents
<1>2. ASSUME NEW h \in Hooks, HookStep(h) \/ HookAbort(h) PROVE RefundEvents'
  <2>1. /\ \A g \in Hooks \ {h} : hook'[g] = hook[g]
        /\ hook'[h].pc \in {"resolve", "settle"} => /\ hook[h].pc \in {"resolve", "settle"}
                                                  /\ hook'[h].kind = hook[h].kind
    <3>1. CASE HookInsert(h)
      BY <1>0, <3>1 DEF HookInsert, IdleHook, HookType
    <3>2. CASE HookRead(h)
      BY <1>0, <3>2 DEF HookRead, HookType
    <3>3. CASE HookWrite(h)
      BY <1>0, <3>3 DEF HookWrite, HookType
    <3>4. CASE HookCommit(h) \/ HookSettle(h) \/ HookAbort(h)
      BY <1>0, <3>4 DEF HookCommit, HookSettle, HookAbort, IdleHook
    <3>5. CASE HookResolve(h)
      BY <1>0, <3>5 DEF HookResolve, IdleHook, HookType
    <3> QED
      BY <1>2, <3>1, <3>2, <3>3, <3>4, <3>5 DEF HookStep
  <2> QED
    BY <2>1 DEF RefundEvents
<1>3. ASSUME NEW h \in Hooks, NEW o \in Orders, NEW kind \in gateway[o].events,
             Deliver(h, o, kind)
      PROVE  RefundEvents'
  <2>1. /\ \A g \in Hooks \ {h} : hook'[g] = hook[g]
        /\ hook'[h].pc = IF kind = "captured" THEN "insert" ELSE "resolve"
        /\ hook'[h].kind = kind
    BY <1>0, <1>3 DEF Deliver, HookType
  <2> QED
    BY <2>1 DEF RefundEvents
<1>4. CASE \/ \E b \in Bookings : Lapse(b) \/ Age(b) \/ AdminRead(b)
           \/ \E o \in Orders : Pay(o) \/ SettleRefund(o)
           \/ AdminCall \/ AdminUpdate \/ AdminRelease \/ AdminAbort
  BY <1>1, <1>4 DEF Lapse, Age, AdminRead, Pay, SettleRefund, AdminCall, AdminUpdate,
                    AdminRelease, AdminAbort
<1>5. ASSUME NEW c \in OrderReqs,
             OrderStep(c) \/ OrderFail(c) \/ \E b \in Bookings : OrderRead(c, b)
      PROVE  RefundEvents'
  BY <1>1, <1>5 DEF OrderStep, OrderUpdate, OrderCreate, OrderFail, OrderRead
<1>6. CASE ReconStep \/ ReconAbort
  BY <1>1, <1>6 DEF ReconStep, ReconStart, ReconPick, ReconFetch, ReconLedger, ReconSync,
     ReconRead, ReconWrite, SweepStart, RefundPick, RefundCall, RefundThrows, RefundRead,
     RefundWrite, ReconEnd, ReconAbort
<1>7. CASE CronStep \/ CronAbort
  BY <1>1, <1>7 DEF CronStep, CleanupList, SweepList, SweepWrite, ExpiryRead, ExpiryWrite,
     CleanupWrite, CronAbort
<1>8. CASE UNCHANGED vars
  BY <1>1, <1>8 DEF vars
<1> QED
  BY <1>2, <1>3, <1>4, <1>5, <1>6, <1>7, <1>8 DEF Next

\* Whatever is only read, or thought of.
Still == UNCHANGED <<row, gateway, ledger>>

\* Deciding what the table allows after the status there is, is a step or a stutter.
LEMMA StillStep ==
  ASSUME Still,
         \A d \in Decisions' \ Decisions :
           \E b \in Bookings : \E to \in Promise!Allowed[row[b].status] \cap Statuses :
             d = <<b, to>>
  PROVE  Promise!Next
<1>1. Untouched
  BY Projections DEF Still, Untouched
<1>2. \A d \in Decisions' \ Decisions :
        \E b \in Bookings, to \in Statuses : d = <<b, to>> /\ Promise!MayDecide(b, to)
  BY LookOf
<1> QED
  BY <1>1, <1>2, DecidingStep

\* Time passes unseen.
LEMMA ClockPromise ==
  ASSUME NEW b \in Bookings, Lapse(b) \/ Age(b)
  PROVE  Promise!Next
<1>1. Still /\ Decisions' = Decisions
  BY PartsKeep DEF Lapse, Age, Still, Decisions
<1> QED
  BY <1>1, StillStep

\* createRazorpayOrder decides on a booking it read LOCKED.
LEMMA OrderReadPromise ==
  ASSUME PayInv, NEW c \in OrderReqs, NEW b \in Bookings, OrderRead(c, b)
  PROVE  Promise!Next
<1>1. /\ Still /\ row[b].status = "LOCKED"
      /\ \A d \in OrderReqs \ {c} : orderReq'[d] = orderReq[d]
      /\ orderReq'[c].b = b
      /\ UNCHANGED <<hook, recon, admin, expiring, cleaning>>
  BY DEF OrderRead, Still, PayInv, TypeOK, OrderReqType
<1>2. \A d \in Decisions' \ Decisions : d = <<b, "PAYMENT_IN_PROGRESS">>
  BY <1>1, OrderPart, PartsKeep DEF Still, Decisions
<1> QED
  BY <1>1, <1>2, StillStep, TableIs DEF Statuses

\* A request that fails gives up its decision.
LEMMA OrderFailPromise ==
  ASSUME PayInv, NEW c \in OrderReqs, OrderFail(c)
  PROVE  Promise!Next
<1>1. /\ Still
      /\ \A d \in OrderReqs \ {c} : orderReq'[d] = orderReq[d]
      /\ orderReq'[c].pc = "idle"
      /\ UNCHANGED <<hook, recon, admin, expiring, cleaning>>
  BY DEF OrderFail, Still, PayInv, TypeOK, IdleOrderReq
<1>2. Decisions' \subseteq Decisions
  BY <1>1, OrderPart, PartsKeep DEF Still, Decisions
<1> QED
  BY <1>1, <1>2, StillStep

\* A handler that begins, ends or dies decides nothing.
LEMMA HookQuietPromise ==
  ASSUME PayInv, NEW h \in Hooks,
         \/ HookInsert(h) \/ HookCommit(h) \/ HookAbort(h)
         \/ \E o \in Orders : \E kind \in gateway[o].events : Deliver(h, o, kind)
  PROVE  Promise!Next
<1>1. /\ Still
      /\ \A g \in Hooks \ {h} : hook'[g] = hook[g]
      /\ UNCHANGED <<orderReq, recon, admin, expiring, cleaning>>
  BY DEF HookInsert, HookCommit, HookAbort, Deliver, Still, PayInv, TypeOK
<1>2. hook'[h].pc \notin {"write", "settle"}
  <2>1. hook \in [Hooks -> HookType]
    BY DEF PayInv, TypeOK
  <2>2. CASE HookInsert(h)
    BY <2>1, <2>2 DEF HookInsert, IdleHook, HookType
  <2>3. CASE HookCommit(h) \/ HookAbort(h)
    BY <2>1, <2>3 DEF HookCommit, HookAbort, IdleHook
  <2>4. ASSUME NEW o \in Orders, NEW kind \in gateway[o].events, Deliver(h, o, kind)
        PROVE  hook'[h].pc \notin {"write", "settle"}
    <3>1. hook'[h].pc = IF kind = "captured" THEN "insert" ELSE "resolve"
      BY <2>1, <2>4 DEF Deliver, HookType
    <3> QED
      BY <3>1
  <2> QED
    BY <2>2, <2>3, <2>4
<1>3. Decisions' \subseteq Decisions
  BY <1>1, <1>2, HookPart, PartsKeep DEF Still, Decisions
<1> QED
  BY <1>1, <1>3, StillStep

\* processPaymentSuccess decides to confirm a booking it read in payment or LOCKED.
LEMMA HookReadPromise ==
  ASSUME PayInv, NEW h \in Hooks, HookRead(h)
  PROVE  Promise!Next
<1> DEFINE b == gateway[hook[h].o].b
<1>1. /\ Still
      /\ \A g \in Hooks \ {h} : hook'[g] = hook[g]
      /\ UNCHANGED <<orderReq, recon, admin, expiring, cleaning>>
      /\ hook'[h].o = hook[h].o /\ hook'[h].pc = "write" /\ hook'[h].seen = row[b].status
      /\ hook[h].pc = "read"
  BY DEF HookRead, Still, PayInv, TypeOK, HookType
<1>2. b \in Bookings
  BY <1>1, HookBooking
<1>3. \A to \in HookDecided(h)' : to = "CONFIRMED"
                                  /\ row[b].status \in {"PAYMENT_IN_PROGRESS", "LOCKED"}
  BY <1>1 DEF HookDecided
<1>4. \A d \in Decisions' \ Decisions :
        d = <<b, "CONFIRMED">> /\ row[b].status \in {"PAYMENT_IN_PROGRESS", "LOCKED"}
  BY <1>1, <1>3, HookPart, PartsKeep DEF Still, Decisions
<1>5. row[b].status \in {"PAYMENT_IN_PROGRESS", "LOCKED"} => Promise!MayDecide(b, "CONFIRMED")
  BY <1>2, TableIs DEF Promise!MayDecide, StatusOf
<1> QED
  BY <1>1, <1>2, <1>4, <1>5, Projections, DecidingStep DEF Still, Untouched, Statuses

\* refund.processed decides as the table allows, refund.failed once money is given back.
LEMMA HookResolvePromise ==
  ASSUME PayInv, RefundEvents, NEW h \in Hooks, HookResolve(h)
  PROVE  Promise!Next
<1> DEFINE o == hook[h].o
           b == gateway[o].b
<1>1. /\ Still
      /\ \A g \in Hooks \ {h} : hook'[g] = hook[g]
      /\ UNCHANGED <<orderReq, recon, admin, expiring, cleaning>>
      /\ hook[h].pc = "resolve"
  BY DEF HookResolve, Still, PayInv, TypeOK, HookType
<1>2. b \in Bookings /\ o \in Orders
  BY <1>1, HookBooking
<1>3. CASE hook'[h].pc \notin {"write", "settle"}
  <2>1. Decisions' \subseteq Decisions
    BY <1>1, <1>3, HookPart, PartsKeep DEF Still, Decisions
  <2> QED
    BY <1>1, <2>1, StillStep
<1>4. CASE hook'[h].pc \in {"write", "settle"}
  <2>1. /\ hook'[h].pc = "settle" /\ hook'[h].o = o /\ hook'[h].kind = hook[h].kind
        /\ hook[h].kind = "processed" => row[b].status = "REFUND_INITIATED"
    BY <1>4 DEF HookResolve, PayInv, TypeOK, HookType, IdleHook
  <2>2. hook[h].kind \in gateway[o].events
    BY <1>1 DEF PayInv, HookOK
  <2>3. CASE hook[h].kind = "processed"
    <3>1. \A d \in Decisions' \ Decisions : d = <<b, "REFUNDED">>
      BY <1>1, <2>1, <2>3, HookPart, PartsKeep DEF Still, Decisions, HookDecided
    <3> QED
      BY <1>1, <1>2, <2>1, <2>3, <3>1, StillStep, TableIs DEF Statuses
  <2>4. CASE hook[h].kind # "processed"
    <3>1. \A d \in Decisions' \ Decisions : d = <<b, "REFUND_FAILED">>
      BY <1>1, <2>1, <2>4, HookPart, PartsKeep DEF Still, Decisions, HookDecided
    <3>2. hook[h].kind = "failed"
      BY <1>1, <2>2, <2>4, <1>2 DEF RefundEvents, PayInv, TypeOK, GatewayType
    <3>3. gateway[o].refund # "none"
      BY <1>2, <2>2, <3>2 DEF PayInv, GatewayOK
    <3>4. Promise!MayDecide(b, "REFUND_FAILED")
      <4>1. o \in Promise!Of(b) /\ o \in ReturnedOrders
        BY <1>2, <3>3 DEF Promise!Of, OwnerOf, ReturnedOrders
      <4> QED
        BY <4>1 DEF Promise!MayDecide
    <3> QED
      BY <1>1, <1>2, <3>1, <3>4, Projections, DecidingStep DEF Still, Untouched, Statuses
  <2> QED
    BY <2>3, <2>4
<1> QED
  BY <1>3, <1>4

\* The worker's decisions are about the booking in its hands.
LEMMA ReconPart ==
  \A d \in ReconDecisions' :
    \E to \in ReconDecided' : d = <<recon'.b, to>>
BY DEF ReconDecisions

\* The worker reads, or goes on, or dies.
LEMMA ReconStillPromise ==
  ASSUME Still, UNCHANGED <<orderReq, hook, admin, expiring, cleaning>>,
         \/ ReconDecided' = {}
         \/ recon'.b \in Bookings
            /\ ReconDecided' \subseteq Promise!Allowed[row[recon'.b].status] \cap Statuses
  PROVE  Promise!Next
<1>1. \A d \in Decisions' \ Decisions :
        d \in ReconDecisions'
  BY PartsKeep DEF Still, Decisions
<1> QED
  BY <1>1, ReconPart, StillStep

\* The worker lists, picks, asks or dies without a decision.
LEMMA ReconQuietPromise ==
  ASSUME PayInv,
         \/ ReconStart \/ ReconFetch \/ ReconLedger \/ SweepStart \/ RefundThrows \/ ReconEnd
         \/ ReconAbort \/ \E t \in recon.todo : ReconPick(t) \/ RefundPick(t)
  PROVE  Promise!Next
<1>1. /\ Still /\ UNCHANGED <<orderReq, hook, admin, expiring, cleaning>>
  BY DEF Still, ReconStart, ReconFetch, ReconLedger, SweepStart, RefundThrows, ReconEnd,
     ReconAbort, ReconPick, RefundPick
<1>2. recon \in ReconType
  BY DEF PayInv, TypeOK
<1>3. recon'.pc \notin {"write", "rewrite"}
  <2>1. CASE ReconStart \/ SweepStart \/ RefundThrows \/ ReconEnd
    <3>1. recon \in ReconType => [recon EXCEPT !.pc = "reread", !.found = FALSE].pc = "reread"
      BY DEF ReconType
    <3>2. CASE ReconStart
      BY <1>2, <3>2 DEF ReconStart, ReconType
    <3>3. CASE SweepStart
      <4>1. recon'.pc = "sweep"
        BY <1>2, <3>3 DEF SweepStart, ReconType
      <4> QED
        BY <4>1
    <3>4. CASE RefundThrows
      BY <1>2, <3>1, <3>4 DEF RefundThrows
    <3>5. CASE ReconEnd
      BY <3>5 DEF ReconEnd, IdleRecon
    <3> QED
      BY <2>1, <3>2, <3>3, <3>4, <3>5
  <2>2. CASE ReconFetch \/ ReconLedger
    BY <1>2, <2>2 DEF ReconFetch, ReconLedger, ReconType
  <2>3. CASE ReconAbort
    <3>1. \A pc \in {"next", "sweep"} : Going(pc).pc = pc
      BY DEF Going, IdleRecon
    <3> QED
      BY <2>3, <3>1 DEF ReconAbort, IdleRecon
  <2>4. ASSUME NEW t \in recon.todo, ReconPick(t) \/ RefundPick(t)
        PROVE  recon'.pc \notin {"write", "rewrite"}
    <3>1. CASE ReconPick(t)
      BY <1>2, <3>1 DEF ReconPick, ReconType
    <3>2. CASE RefundPick(t)
      BY <1>2, <3>2 DEF RefundPick, ReconType
    <3> QED
      BY <2>4, <3>1, <3>2
  <2> QED
    BY <2>1, <2>2, <2>3, <2>4
<1>4. ReconDecided' = {}
  BY <1>3 DEF ReconDecided
<1> QED
  BY <1>1, <1>4, ReconStillPromise

\* The worker decides on the status its transaction read, as the table allows.
LEMMA ReconReadPromise ==
  ASSUME PayInv, ReconRead \/ RefundRead
  PROVE  Promise!Next
<1>1. /\ Still /\ UNCHANGED <<orderReq, hook, admin, expiring, cleaning>>
  BY DEF Still, ReconRead, RefundRead
<1>2. recon \in ReconType /\ recon.b \in Bookings
  BY DEF PayInv, TypeOK, ReconOK, ReconRead, RefundRead
<1>3. recon'.b = recon.b /\ recon'.seen = row[recon.b].status /\ recon'.found = recon.found
  BY <1>2 DEF ReconRead, RefundRead, ReconType
<1>4. CASE ReconRead
  <2>1. recon'.pc = "write"
    BY <1>2, <1>4 DEF ReconRead, ReconType
  <2> QED
    BY <1>1, <1>2, <1>3, <2>1, ReconStillPromise, TableIs DEF ReconDecided, Statuses
<1>5. CASE RefundRead
  <2>1. recon'.pc = "rewrite"
    BY <1>2, <1>5 DEF RefundRead, ReconType
  <2> QED
    BY <1>1, <1>2, <1>3, <2>1, ReconStillPromise, TableIs DEF ReconDecided, Statuses
<1> QED
  BY <1>4, <1>5

\* The admin decides to refund a booking it read CONFIRMED or CANCELLED.
LEMMA AdminStillPromise ==
  ASSUME PayInv, AdminAbort \/ \E b \in Bookings : AdminRead(b)
  PROVE  Promise!Next
<1>1. Still /\ UNCHANGED <<orderReq, hook, recon, expiring, cleaning>>
  BY DEF AdminAbort, AdminRead, Still
<1>2. CASE AdminAbort
  <2>1. AdminDecisions' = {}
    BY <1>2 DEF AdminAbort, AdminDecisions, IdleAdmin
  <2>2. Decisions' \subseteq Decisions
    BY <1>1, <2>1, PartsKeep DEF Still, Decisions
  <2> QED
    BY <1>1, <2>2, StillStep
<1>3. ASSUME NEW b \in Bookings, AdminRead(b) PROVE Promise!Next
  <2>1. admin'.b = b /\ row[b].status \in {"CONFIRMED", "CANCELLED"}
    BY <1>3 DEF AdminRead
  <2>2. \A d \in Decisions' \ Decisions : d = <<b, "REFUND_INITIATED">>
    BY <1>1, <2>1, PartsKeep DEF Still, Decisions, AdminDecisions
  <2> QED
    BY <1>1, <2>1, <2>2, StillStep, TableIs DEF Statuses
<1> QED
  BY <1>2, <1>3

\* The sweeps decide to expire what they read LOCKED.
LEMMA CronStillPromise ==
  ASSUME PayInv,
         CleanupList \/ SweepList \/ CronAbort \/ \E b \in Bookings : ExpiryRead(b)
  PROVE  Promise!Next
<1>1. Still /\ UNCHANGED <<orderReq, hook, recon, admin>>
  BY DEF CleanupList, SweepList, CronAbort, ExpiryRead, Still
<1>2. \A b \in expiring' \cup cleaning' :
        b \in expiring \cup cleaning \/ (b \in Bookings /\ row[b].status = "LOCKED")
  BY DEF CleanupList, SweepList, CronAbort, ExpiryRead, PayInv, TypeOK
<1>3. \A d \in Decisions' \ Decisions :
        \E b \in Bookings : row[b].status = "LOCKED" /\ d = <<b, "EXPIRED">>
  BY <1>1, <1>2, PartsKeep DEF Still, Decisions, CronDecisions
<1> QED
  BY <1>1, <1>3, StillStep, TableIs DEF Statuses

\* Orders keep their bookings, so what the handlers decided stays.
LEMMA HookKeeps ==
  ASSUME PayInv, hook' = hook,
         \A o \in Orders : gateway[o].b # NoBooking => gateway'[o].b = gateway[o].b
  PROVE  HookDecisions' = HookDecisions
<1>1. \A h \in Hooks : hook[h].pc \in {"write", "settle"} =>
                         gateway'[hook[h].o].b = gateway[hook[h].o].b
  BY HookBooking, NoBookingAssumption
<1>2. \A h \in Hooks : HookDecided(h)' = HookDecided(h)
  BY DEF HookDecided
<1>3. \A d : d \in HookDecisions' <=>
        \E h \in Hooks : /\ hook[h].pc \in {"write", "settle"}
                         /\ d \in {gateway[hook[h].o].b} \X HookDecided(h)
  BY <1>1, <1>2 DEF HookDecisions
<1>4. \A d : d \in HookDecisions <=>
        \E h \in Hooks : /\ hook[h].pc \in {"write", "settle"}
                         /\ d \in {gateway[hook[h].o].b} \X HookDecided(h)
  BY DEF HookDecisions
<1> QED
  BY <1>3, <1>4

\* A payment is captured.
LEMMA PayPromise ==
  ASSUME PayInv, NEW o \in Orders, Pay(o)
  PROVE  Promise!Next
<1>1. PICK noted \in BOOLEAN : gateway' = [gateway EXCEPT ![o] = Captured(@, noted)]
  BY DEF Pay
<1>2. gateway \in [Orders -> GatewayType] /\ gateway[o].pay = "open"
  BY DEF PayInv, TypeOK, Pay
<1>3. /\ gateway'[o].b = gateway[o].b /\ gateway'[o].pay = "captured"
      /\ gateway'[o].refund = gateway[o].refund
      /\ \A p \in Orders \ {o} : gateway'[p] = gateway[p]
  BY <1>1, <1>2 DEF Captured, GatewayType
<1>4. /\ UNCHANGED <<OwnerOf, ReturnedOrders>>
      /\ PaidOrders' = PaidOrders \cup {o}
  BY <1>3 DEF OwnerOf, ReturnedOrders, PaidOrders
<1>5. UNCHANGED <<row, ledger, orderReq, hook, recon, admin, expiring, cleaning>>
  BY DEF Pay
<1>6. HookDecisions' = HookDecisions
  BY <1>3, <1>5, HookKeeps
<1>7. Decisions' = Decisions
  BY <1>5, <1>6, PartsKeep DEF Decisions
<1>8. OwnerOf[o] # NoBooking
  BY <1>2 DEF OwnerOf, PayInv, GatewayOK
<1>9. Promise!Capture(o)
  BY <1>4, <1>5, <1>7, <1>8, Projections DEF Promise!Capture
<1> QED
  BY <1>9 DEF Promise!Next

\* What the bank makes of a refund is not seen.
LEMMA SettlePromise ==
  ASSUME PayInv, NEW o \in Orders, SettleRefund(o)
  PROVE  Promise!Next
<1>1. PICK result \in {"processed", "failed"} :
        gateway' = [gateway EXCEPT ![o] = Settled(@, result)]
  BY DEF SettleRefund
<1>2. gateway \in [Orders -> GatewayType] /\ gateway[o].refund = "created"
  BY DEF PayInv, TypeOK, SettleRefund
<1>3. /\ gateway'[o].b = gateway[o].b /\ gateway'[o].pay = gateway[o].pay
      /\ gateway'[o].refund # "none"
      /\ \A p \in Orders \ {o} : gateway'[p] = gateway[p]
  BY <1>1, <1>2 DEF Settled, GatewayType
<1>4. UNCHANGED <<OwnerOf, ReturnedOrders, PaidOrders>>
  BY <1>2, <1>3 DEF OwnerOf, ReturnedOrders, PaidOrders
<1>5. UNCHANGED <<row, ledger, orderReq, hook, recon, admin, expiring, cleaning>>
  BY DEF SettleRefund
<1>6. HookDecisions' = HookDecisions
  BY <1>3, <1>5, HookKeeps
<1>7. Decisions' = Decisions
  BY <1>5, <1>6, PartsKeep DEF Decisions
<1> QED
  BY <1>4, <1>5, <1>7, Projections, DecidingStep DEF Untouched

\* Razorpay makes an order for the booking of the request.
LEMMA OrderCreatePromise ==
  ASSUME PayInv, NEW c \in OrderReqs, NEW o \in Orders, OrderCreate(c, o)
  PROVE  Promise!Next
<1> DEFINE b == orderReq[c].b
<1>1. /\ gateway \in [Orders -> GatewayType] /\ orderReq \in [OrderReqs -> OrderReqType]
      /\ gateway[o].pay = "none" /\ gateway[o].b = NoBooking /\ b \in Bookings
      /\ orderReq[c].pc = "create"
  BY DEF PayInv, TypeOK, GatewayOK, OrderReqOK, OrderCreate
<1>2. /\ gateway'[o].b = b /\ gateway'[o].pay = "created"
      /\ gateway'[o].refund = gateway[o].refund
      /\ \A p \in Orders \ {o} : gateway'[p] = gateway[p]
  BY <1>1 DEF OrderCreate, GatewayType
<1>3. /\ OwnerOf' = [OwnerOf EXCEPT ![o] = b]
      /\ UNCHANGED <<ReturnedOrders, PaidOrders>>
  BY <1>1, <1>2 DEF OwnerOf, ReturnedOrders, PaidOrders
<1>4. UNCHANGED <<row, ledger, hook, recon, admin, expiring, cleaning>>
  BY DEF OrderCreate
<1>5. HookDecisions' = HookDecisions
  BY <1>1, <1>2, <1>4, HookKeeps
<1>6. OrderDecisions' = OrderDecisions
  <2>1. /\ orderReq'[c].pc = "update" /\ orderReq'[c].b = b
        /\ \A d \in OrderReqs \ {c} : orderReq'[d] = orderReq[d]
    BY <1>1 DEF OrderCreate, OrderReqType
  <2> QED
    BY <1>1, <2>1 DEF OrderDecisions
<1>7. Decisions' = Decisions
  BY <1>4, <1>5, <1>6, PartsKeep DEF Decisions
<1>8. <<b, "PAYMENT_IN_PROGRESS">> \in Decisions
  BY <1>1 DEF Decisions, OrderDecisions
<1>9. OwnerOf[o] = NoBooking
  BY <1>1 DEF OwnerOf
<1>10. Promise!PlaceOrder(o, b)
  BY <1>3, <1>4, <1>7, <1>8, <1>9, Projections DEF Promise!PlaceOrder
<1> QED
  BY <1>1, <1>10 DEF Promise!Next

\* A refund Razorpay accepts gives back a booked payment.
LEMMA AcceptIs ==
  ASSUME PayInv, NEW o \in Orders, AcceptRefund(o), UNCHANGED <<row, ledger, hook>>,
         UNCHANGED <<OrderDecisions, ReconDecisions, AdminDecisions, CronDecisions>>,
         ledger[o].paid > 0
  PROVE  Promise!Next
<1>1. gateway \in [Orders -> GatewayType]
  BY DEF PayInv, TypeOK
<1>2. /\ gateway'[o].b = gateway[o].b /\ gateway'[o].pay = gateway[o].pay
      /\ gateway'[o].refund = "created"
      /\ \A p \in Orders \ {o} : gateway'[p] = gateway[p]
  BY <1>1 DEF AcceptRefund, GatewayType
<1>3. /\ UNCHANGED <<OwnerOf, PaidOrders>>
      /\ ReturnedOrders' = ReturnedOrders \cup {o}
  BY <1>2 DEF OwnerOf, ReturnedOrders, PaidOrders
<1>4. HookDecisions' = HookDecisions
  BY <1>2, HookKeeps
<1>5. Decisions' = Decisions
  BY <1>4 DEF Decisions
<1>6. o \in BookedOrders
  BY DEF BookedOrders
<1>7. Promise!GiveBack(o)
  BY <1>3, <1>5, <1>6, Projections DEF Promise!GiveBack
<1> QED
  BY <1>7 DEF Promise!Next

\* The refund sweep gives back what is booked.
LEMMA RefundCallPromise == PayInv /\ RefundCall => Promise!Next
<1> SUFFICES ASSUME PayInv, RefundCall PROVE Promise!Next
  OBVIOUS
<1>1. recon.o \in Orders /\ ledger[recon.o].paid > 0 /\ recon \in ReconType
  BY DEF PayInv, TypeOK, ReconOK, RefundCall
<1>2. recon.pc = "refund" /\ recon'.pc = "reread"
  BY <1>1 DEF RefundCall, ReconType
<1>3. ReconDecided = {} /\ ReconDecided' = {}
  BY <1>2 DEF ReconDecided
<1>4. ReconDecisions' = ReconDecisions
  BY <1>3 DEF ReconDecisions
<1> QED
  BY <1>1, <1>4, AcceptIs, PartsKeep DEF RefundCall

\* So does the admin.
LEMMA AdminCallPromise == PayInv /\ AdminCall => Promise!Next
<1> SUFFICES ASSUME PayInv, AdminCall PROVE Promise!Next
  OBVIOUS
<1>1. admin.o \in Orders /\ ledger[admin.o].paid > 0 /\ admin \in AdminType
  BY DEF PayInv, TypeOK, AdminOK, PaidFor, AdminCall
<1>2. admin.pc = "call" /\ admin'.pc = "update" /\ admin'.b = admin.b
  BY <1>1 DEF AdminCall, AdminType
<1>3. AdminDecisions' = AdminDecisions
  BY <1>2 DEF AdminDecisions
<1> QED
  BY <1>1, <1>3, AcceptIs, PartsKeep DEF AdminCall

\* A write of one booking moves the status of that booking.
LEMMA RowMoves ==
  ASSUME PayInv, NEW b \in Bookings, NEW x, row' = [row EXCEPT ![b] = x]
  PROVE  StatusOf' = [StatusOf EXCEPT ![b] = x.status]
<1>1. row \in [Bookings -> RowType]
  BY DEF PayInv, TypeOK
<1>2. \A c \in Bookings : row'[c].status = IF c = b THEN x.status ELSE row[c].status
  BY <1>1
<1> QED
  BY <1>2 DEF StatusOf

\* A PAYMENT row books the payment of an order.
LEMMA LedgerBooks ==
  ASSUME PayInv, NEW o \in Orders,
         \/ ledger' = [ledger EXCEPT ![o] = PaymentRow(@)]
         \/ ledger' = [ledger EXCEPT ![o] = LateRow(@)]
  PROVE  BookedOrders' = BookedOrders \cup {o}
<1>1. ledger \in [Orders -> LedgerType]
  BY DEF PayInv, TypeOK
<1>2. PaymentRow(ledger[o]).paid > 0 /\ LateRow(ledger[o]).paid > 0
  BY <1>1, LedgerUpdate
<1>3. ledger'[o].paid > 0 /\ \A p \in Orders \ {o} : ledger'[p] = ledger[p]
  BY <1>1, <1>2
<1> QED
  BY <1>3 DEF BookedOrders

\* What stays when Razorpay is not asked
OthersStay ==
  Decisions' \subseteq Decisions /\ UNCHANGED <<OwnerOf, PaidOrders, ReturnedOrders>>

\* A write that needs no money
LEMMA FollowPromise ==
  ASSUME PayInv, NEW b \in Bookings, NEW x, row' = [row EXCEPT ![b] = x],
         x.status \in {"PAYMENT_IN_PROGRESS", "FAILED", "EXPIRED", "REFUND_FAILED"},
         <<b, x.status>> \in Decisions, OthersStay, UNCHANGED BookedOrders,
         x.status = "PAYMENT_IN_PROGRESS" => Promise!Of(b) # {}
  PROVE  Promise!Next
<1>1. Promise!Follow(b, x.status)
  BY RowMoves DEF OthersStay, Promise!Follow, Promise!Move
<1> QED
  BY <1>1 DEF Promise!Next

\* A write that confirms a booking and books its payment
LEMMA ConfirmPromise ==
  ASSUME PayInv, NEW b \in Bookings, NEW o \in Orders, PaidFor(o, b),
         NEW x, row' = [row EXCEPT ![b] = x], x.status = "CONFIRMED",
         <<b, "CONFIRMED">> \in Decisions \/ row[b].status = "PAYMENT_IN_PROGRESS",
         OthersStay, BookedOrders' = BookedOrders \cup {o}
  PROVE  Promise!Next
<1>1. o \in Promise!Of(b) /\ o \in PaidOrders
  BY DEF PaidFor, Promise!Of, OwnerOf, PaidOrders
<1>2. row[b].status = "PAYMENT_IN_PROGRESS" => StatusOf[b] = "PAYMENT_IN_PROGRESS"
  BY DEF StatusOf
<1>3. Promise!Confirm(b, o)
  BY <1>1, <1>2, RowMoves DEF OthersStay, Promise!Confirm, Promise!Book, Promise!Move
<1> QED
  BY <1>3 DEF Promise!Next

\* A write that begins the refund of a booked payment
LEMMA RefundPromise ==
  ASSUME PayInv, NEW b \in Bookings, NEW o \in Orders, PaidFor(o, b),
         NEW x, row' = [row EXCEPT ![b] = x], x.status = "REFUND_INITIATED",
         <<b, "REFUND_INITIATED">> \in Decisions,
         OthersStay, BookedOrders' = BookedOrders \cup {o}
  PROVE  Promise!Next
<1>1. o \in Promise!Of(b) /\ o \in PaidOrders
  BY DEF PaidFor, Promise!Of, OwnerOf, PaidOrders
<1>3. Promise!BeginRefund(b, o)
  BY <1>1, RowMoves DEF OthersStay, Promise!BeginRefund, Promise!Book, Promise!Move
<1> QED
  BY <1>3 DEF Promise!Next

\* A write that ends a refund
LEMMA RefundedPromise ==
  ASSUME PayInv, NEW b \in Bookings, NEW o \in Orders, gateway[o].b = b,
         gateway[o].refund # "none",
         NEW x, row' = [row EXCEPT ![b] = x], x.status = "REFUNDED",
         <<b, "REFUNDED">> \in Decisions, OthersStay, UNCHANGED BookedOrders
  PROVE  Promise!Next
<1>1. o \in Promise!Of(b) /\ o \in ReturnedOrders
  BY DEF Promise!Of, OwnerOf, ReturnedOrders
<1>3. Promise!EndRefund(b)
  BY <1>1, RowMoves DEF OthersStay, Promise!EndRefund, Promise!Move
<1> QED
  BY <1>3 DEF Promise!Next

\* createRazorpayOrder takes the booking of its order to payment.
LEMMA OrderUpdatePromise ==
  ASSUME PayInv, NEW c \in OrderReqs, OrderUpdate(c)
  PROVE  Promise!Next
<1> DEFINE b == orderReq[c].b
           o == orderReq[c].o
           x == [row[b] EXCEPT !.status = "PAYMENT_IN_PROGRESS", !.order = o]
<1>1. /\ o \in Orders /\ b \in Bookings /\ gateway[o].b = b /\ gateway[o].pay = "created"
      /\ gateway \in [Orders -> GatewayType] /\ orderReq \in [OrderReqs -> OrderReqType]
      /\ orderReq[c].pc = "update" /\ row[b] \in RowType
  BY DEF OrderUpdate, PayInv, TypeOK, OrderReqOK
<1>2. /\ row' = [row EXCEPT ![b] = x]
      /\ gateway' = [gateway EXCEPT ![o].pay = "open"]
      /\ orderReq' = [orderReq EXCEPT ![c] = IdleOrderReq]
      /\ UNCHANGED <<ledger, hook, recon, admin, expiring, cleaning>>
  BY DEF OrderUpdate
<1>3. x.status = "PAYMENT_IN_PROGRESS"
  BY <1>1 DEF RowType
<1> HIDE DEF x
<1>4. /\ gateway'[o].b = b /\ gateway'[o].pay = "open"
      /\ gateway'[o].refund = gateway[o].refund
      /\ \A p \in Orders \ {o} : gateway'[p] = gateway[p]
  BY <1>1, <1>2 DEF GatewayType
<1>5. UNCHANGED <<OwnerOf, PaidOrders, ReturnedOrders, BookedOrders>>
  BY <1>1, <1>2, <1>4 DEF OwnerOf, PaidOrders, ReturnedOrders, BookedOrders
<1>6. HookDecisions' = HookDecisions
  BY <1>1, <1>2, <1>4, HookKeeps
<1>7. OrderDecisions' \subseteq OrderDecisions
  <2>1. orderReq'[c].pc = "idle" /\ \A d \in OrderReqs \ {c} : orderReq'[d] = orderReq[d]
    BY <1>1, <1>2 DEF IdleOrderReq
  <2> QED
    BY <2>1, OrderPart
<1>8. Decisions' \subseteq Decisions
  BY <1>2, <1>6, <1>7, PartsKeep DEF Decisions
<1>9. <<b, "PAYMENT_IN_PROGRESS">> \in Decisions
  BY <1>1 DEF Decisions, OrderDecisions
<1>10. o \in Promise!Of(b)
  BY <1>1 DEF Promise!Of, OwnerOf
<1> QED
  BY <1>1, <1>2, <1>3, <1>5, <1>8, <1>9, <1>10, FollowPromise DEF OthersStay

\* What one handler has written it has no longer to decide.
LEMMA HookActs ==
  ASSUME PayInv, NEW h \in Hooks, HookWrite(h) \/ HookSettle(h)
  PROVE  /\ OthersStay
         /\ \A to \in HookDecided(h) : <<gateway[hook[h].o].b, to>> \in Decisions
         /\ PaidFor(hook[h].o, gateway[hook[h].o].b) /\ gateway[hook[h].o].b \in Bookings
<1>1. /\ UNCHANGED <<gateway, orderReq, recon, admin, expiring, cleaning>>
      /\ \A g \in Hooks \ {h} : hook'[g] = hook[g]
      /\ hook[h].pc \in {"write", "settle"}
  BY DEF HookWrite, HookSettle, PayInv, TypeOK
<1>2. hook'[h].pc \notin {"write", "settle"}
  BY DEF HookWrite, HookSettle, PayInv, TypeOK, HookType, IdleHook
<1>3. Decisions' \subseteq Decisions
  BY <1>1, <1>2, HookPart, PartsKeep DEF Decisions
<1>4. \A to \in HookDecided(h) : <<gateway[hook[h].o].b, to>> \in Decisions
  BY <1>1 DEF Decisions, HookDecisions
<1> QED
  BY <1>1, <1>3, <1>4, Projections, HookBooking DEF OthersStay, PaidFor

\* processPaymentSuccess confirms and books, books only, or does nothing.
LEMMA HookWritePromise ==
  ASSUME PayInv, NEW h \in Hooks, HookWrite(h)
  PROVE  Promise!Next
<1> DEFINE o == hook[h].o
           b == gateway[o].b
<1>1. /\ OthersStay /\ PaidFor(o, b) /\ b \in Bookings /\ o \in Orders
      /\ \A to \in HookDecided(h) : <<b, to>> \in Decisions
  BY HookActs DEF PaidFor
<1>2. hook[h].pc = "write" /\ row[b] \in RowType
  BY <1>1 DEF HookWrite, PayInv, TypeOK
<1>3. CASE /\ hook[h].seen \in {"PAYMENT_IN_PROGRESS", "LOCKED"}
           /\ row' = [row EXCEPT ![b] = Confirmed(@, o)]
           /\ ledger' = [ledger EXCEPT ![o] = PaymentRow(@)]
  <2>1. "CONFIRMED" \in HookDecided(h)
    BY <1>2, <1>3 DEF HookDecided
  <2>2. Confirmed(row[b], o).status = "CONFIRMED"
    BY <1>1, <1>2, ConfirmedRow
  <2>3. BookedOrders' = BookedOrders \cup {o}
    BY <1>1, <1>3, LedgerBooks
  <2>4. <<b, "CONFIRMED">> \in Decisions
    BY <1>1, <2>1
  <2> QED
    BY <1>1, <1>3, <2>2, <2>3, <2>4, ConfirmPromise
<1>4. CASE row' = row /\ ledger' = [ledger EXCEPT ![o] = LateRow(@)]
  <2>1. BookedOrders' = BookedOrders \cup {o}
    BY <1>1, <1>4, LedgerBooks
  <2>2. o \in PaidOrders
    BY <1>1 DEF PaidFor, PaidOrders
  <2>3. Promise!BookLate(o)
    BY <1>1, <1>4, <2>1, <2>2, Projections DEF OthersStay, Promise!BookLate, Promise!Book
  <2> QED
    BY <1>1, <2>3 DEF Promise!Next
<1>5. CASE row' = row /\ ledger' = ledger
  BY <1>1, <1>5, Projections, DecidingStep DEF OthersStay, Untouched
<1> QED
  BY <1>3, <1>4, <1>5 DEF HookWrite

\* A refund event ends the refund of its payment, or fails it.
LEMMA HookSettlePromise ==
  ASSUME PayInv, NEW h \in Hooks, HookSettle(h)
  PROVE  Promise!Next
<1> DEFINE o == hook[h].o
           b == gateway[o].b
           to == IF hook[h].kind = "processed" THEN "REFUNDED" ELSE "REFUND_FAILED"
           x == [row[b] EXCEPT !.status = to]
<1>1. /\ OthersStay /\ PaidFor(o, b) /\ b \in Bookings /\ o \in Orders
      /\ \A s \in HookDecided(h) : <<b, s>> \in Decisions
  BY HookActs DEF PaidFor
<1>2. /\ hook[h].pc = "settle" /\ row[b] \in RowType /\ ledger' = ledger
      /\ row' = [row EXCEPT ![b] = x]
  BY <1>1 DEF HookSettle, PayInv, TypeOK
<1>3. to \in HookDecided(h)
  BY <1>2 DEF HookDecided
<1>4. <<b, to>> \in Decisions
  BY <1>1, <1>3
<1>5. x.status = to
  BY <1>2 DEF RowType
<1> HIDE DEF x
<1>6. UNCHANGED BookedOrders
  BY <1>2, Projections
<1>7. CASE hook[h].kind = "processed"
  <2>1. "processed" \in gateway[o].events
    BY <1>2, <1>7 DEF PayInv, HookOK
  <2>2. gateway[o].refund # "none"
    BY <1>1, <2>1 DEF PayInv, GatewayOK
  <2>3. x.status = "REFUNDED" /\ <<b, "REFUNDED">> \in Decisions
    BY <1>4, <1>5, <1>7
  <2> QED
    BY <1>1, <1>2, <1>6, <2>2, <2>3, RefundedPromise
<1>8. CASE hook[h].kind # "processed"
  <2>1. x.status = "REFUND_FAILED" /\ <<b, "REFUND_FAILED">> \in Decisions
    BY <1>4, <1>5, <1>8
  <2> QED
    BY <1>1, <1>2, <1>6, <2>1, FollowPromise
<1> QED
  BY <1>7, <1>8

\* What the worker has written it has no longer to decide.
LEMMA ReconActs ==
  ASSUME PayInv, ReconSync \/ ReconWrite \/ RefundWrite
  PROVE  /\ OthersStay
         /\ \A to \in ReconDecided : <<recon.b, to>> \in Decisions
         /\ recon.b \in Bookings /\ recon.o \in Orders /\ gateway[recon.o].b = recon.b
         /\ row[recon.b] \in RowType
<1>1. UNCHANGED <<gateway, orderReq, hook, admin, expiring, cleaning>>
  BY DEF ReconSync, ReconWrite, RefundWrite
<1>2. recon'.pc \in {"next", "sweep"}
  <2>1. \A pc \in {"next", "sweep"} : Going(pc).pc = pc
    BY DEF Going, IdleRecon
  <2> QED
    BY <2>1 DEF ReconSync, ReconWrite, RefundWrite
<1>3. ReconDecisions' = {}
  BY <1>2 DEF ReconDecisions, ReconDecided
<1>4. Decisions' \subseteq Decisions
  BY <1>1, <1>3, PartsKeep DEF Decisions
<1>5. \A to \in ReconDecided : <<recon.b, to>> \in Decisions
  BY DEF Decisions, ReconDecisions
<1>6. recon.b \in Bookings /\ recon.o \in Orders /\ gateway[recon.o].b = recon.b
  BY DEF PayInv, ReconOK, ReconSync, ReconWrite, RefundWrite
<1> QED
  BY <1>1, <1>4, <1>5, <1>6, Projections DEF OthersStay, PayInv, TypeOK

\* The worker confirms a booking in payment whose payment is booked.
LEMMA ReconSyncPromise == PayInv /\ ReconSync => Promise!Next
<1> SUFFICES ASSUME PayInv, ReconSync PROVE Promise!Next
  OBVIOUS
<1> DEFINE b == recon.b
           x == [row[b] EXCEPT !.status = "CONFIRMED"]
<1>1. /\ OthersStay /\ b \in Bookings /\ recon.o \in Orders /\ row[b] \in RowType
      /\ ledger' = ledger
  BY ReconActs DEF ReconSync
<1>2. PaidFor(recon.o, b) /\ ledger[recon.o].paid > 0
  BY DEF ReconSync, PayInv, ReconOK, PaidFor
<1>3. UNCHANGED BookedOrders
  BY <1>1, Projections
<1>4. BookedOrders' = BookedOrders \cup {recon.o}
  BY <1>1, <1>2, <1>3 DEF BookedOrders
<1>5. CASE row[b].status = "PAYMENT_IN_PROGRESS"
  <2>1. row' = [row EXCEPT ![b] = x]
    BY <1>5 DEF ReconSync
  <2>2. x.status = "CONFIRMED"
    BY <1>1 DEF RowType
  <2> HIDE DEF x
  <2> QED
    BY <1>1, <1>2, <1>4, <1>5, <2>1, <2>2, ConfirmPromise
<1>6. CASE row[b].status # "PAYMENT_IN_PROGRESS"
  <2>1. row' = row
    BY <1>6 DEF ReconSync
  <2> QED
    BY <1>1, <1>3, <2>1, Projections, DecidingStep DEF OthersStay, Untouched
<1> QED
  BY <1>5, <1>6

\* The worker confirms, begins a refund, fails the booking, or does nothing.
LEMMA ReconWritePromise == PayInv /\ ReconWrite => Promise!Next
<1> SUFFICES ASSUME PayInv, ReconWrite PROVE Promise!Next
  OBVIOUS
<1> DEFINE b == recon.b
           o == recon.o
<1>1. /\ OthersStay /\ b \in Bookings /\ o \in Orders /\ row[b] \in RowType
      /\ \A to \in ReconDecided : <<b, to>> \in Decisions
      /\ gateway[o].b = b
  BY ReconActs
<1>2. recon.pc = "write"
  BY DEF ReconWrite
<1>3. recon.found => PaidFor(o, b)
  BY <1>1, <1>2 DEF PayInv, ReconOK, PaidFor
<1>4. CASE /\ recon.found /\ recon.seen = "PAYMENT_IN_PROGRESS"
           /\ row' = [row EXCEPT ![b] = Confirmed(@, o)]
           /\ ledger' = [ledger EXCEPT ![o] = PaymentRow(@)]
  <2>1. "CONFIRMED" \in ReconDecided
    BY <1>2, <1>4 DEF ReconDecided
  <2>2. Confirmed(row[b], o).status = "CONFIRMED"
    BY <1>1, ConfirmedRow
  <2>3. BookedOrders' = BookedOrders \cup {o}
    BY <1>1, <1>4, LedgerBooks
  <2>4. <<b, "CONFIRMED">> \in Decisions
    BY <1>1, <2>1
  <2> QED
    BY <1>1, <1>3, <1>4, <2>2, <2>3, <2>4, ConfirmPromise
<1>5. CASE /\ recon.found /\ recon.seen \in {"EXPIRED", "CANCELLED", "FAILED"}
           /\ row' = [row EXCEPT ![b] = [@ EXCEPT !.status = "REFUND_INITIATED",
                                                  !.payment = o]]
           /\ ledger' = [ledger EXCEPT ![o] = LateRow(@)]
  <2> DEFINE x == [row[b] EXCEPT !.status = "REFUND_INITIATED", !.payment = o]
  <2>1. "REFUND_INITIATED" \in ReconDecided
    BY <1>2, <1>5 DEF ReconDecided
  <2>2. x.status = "REFUND_INITIATED"
    BY <1>1 DEF RowType
  <2>3. row' = [row EXCEPT ![b] = x]
    BY <1>5
  <2>4. BookedOrders' = BookedOrders \cup {o}
    BY <1>1, <1>5, LedgerBooks
  <2>5. <<b, "REFUND_INITIATED">> \in Decisions
    BY <1>1, <2>1
  <2> HIDE DEF x
  <2> QED
    BY <1>1, <1>3, <1>5, <2>2, <2>3, <2>4, <2>5, RefundPromise
<1>6. CASE /\ ~recon.found /\ recon.seen = "PAYMENT_IN_PROGRESS"
           /\ row' = [row EXCEPT ![b] = Abandoned(@)]
           /\ UNCHANGED ledger
  <2>1. "FAILED" \in ReconDecided
    BY <1>2, <1>6 DEF ReconDecided
  <2>2. Abandoned(row[b]).status = "FAILED"
    BY <1>1, AbandonedRow
  <2>3. <<b, "FAILED">> \in Decisions
    BY <1>1, <2>1
  <2> QED
    BY <1>1, <1>6, <2>2, <2>3, FollowPromise, Projections
<1>7. CASE row' = row /\ ledger' = ledger
  BY <1>1, <1>7, Projections, DecidingStep DEF OthersStay, Untouched
<1> QED
  BY <1>4, <1>5, <1>6, <1>7 DEF ReconWrite

\* The refund sweep notes how its refund went.
LEMMA RefundWritePromise == PayInv /\ RefundWrite => Promise!Next
<1> SUFFICES ASSUME PayInv, RefundWrite PROVE Promise!Next
  OBVIOUS
<1> DEFINE b == recon.b
           o == recon.o
           to == IF recon.found THEN "REFUNDED" ELSE "REFUND_FAILED"
           x == [row[b] EXCEPT !.status = to]
<1>1. /\ OthersStay /\ b \in Bookings /\ o \in Orders /\ row[b] \in RowType
      /\ \A s \in ReconDecided : <<b, s>> \in Decisions
      /\ gateway[o].b = b
  BY ReconActs
<1>2. recon.pc = "rewrite"
  BY DEF RefundWrite
<1>3. UNCHANGED BookedOrders
  <2>1. ledger \in [Orders -> LedgerType]
    BY DEF PayInv, TypeOK
  <2>2. ledger'[o].paid = ledger[o].paid /\ \A p \in Orders \ {o} : ledger'[p] = ledger[p]
    BY <1>1, <2>1 DEF RefundWrite, LedgerType
  <2> QED
    BY <2>2 DEF BookedOrders
<1>4. CASE recon.seen = "REFUND_INITIATED"
  <2>1. row' = [row EXCEPT ![b] = x]
    BY <1>4 DEF RefundWrite
  <2>2. to \in ReconDecided
    BY <1>2, <1>4 DEF ReconDecided
  <2>3. <<b, to>> \in Decisions
    BY <1>1, <2>2
  <2>4. x.status = to
    BY <1>1 DEF RowType
  <2> HIDE DEF x
  <2>5. CASE recon.found
    <3>1. gateway[o].refund # "none"
      BY <1>2, <2>5 DEF PayInv, ReconOK
    <3>2. x.status = "REFUNDED" /\ <<b, "REFUNDED">> \in Decisions
      BY <2>3, <2>4, <2>5
    <3> QED
      BY <1>1, <1>3, <2>1, <3>1, <3>2, RefundedPromise
  <2>6. CASE ~recon.found
    <3>1. x.status = "REFUND_FAILED" /\ <<b, "REFUND_FAILED">> \in Decisions
      BY <2>3, <2>4, <2>6
    <3> QED
      BY <1>1, <1>3, <2>1, <3>1, FollowPromise
  <2> QED
    BY <2>5, <2>6
<1>5. CASE recon.seen # "REFUND_INITIATED"
  <2>1. row' = row
    BY <1>5 DEF RefundWrite
  <2> QED
    BY <1>1, <1>3, <2>1, Projections, DecidingStep DEF OthersStay, Untouched
<1> QED
  BY <1>4, <1>5

\* The admin begins the refund of a payment that is booked.
LEMMA AdminUpdatePromise == PayInv /\ AdminUpdate => Promise!Next
<1> SUFFICES ASSUME PayInv, AdminUpdate PROVE Promise!Next
  OBVIOUS
<1> DEFINE b == admin.b
           o == admin.o
           x == [row[b] EXCEPT !.status = "REFUND_INITIATED"]
<1>1. /\ b \in Bookings /\ o \in Orders /\ PaidFor(o, b) /\ ledger[o].paid > 0
      /\ row[b] \in RowType
  BY DEF AdminUpdate, PayInv, TypeOK, AdminOK, PaidFor
<1>2. /\ row' = [row EXCEPT ![b] = x] /\ admin' = [admin EXCEPT !.pc = "release"]
      /\ admin.pc = "update" /\ admin \in AdminType
      /\ UNCHANGED <<ledger, gateway, orderReq, hook, recon, expiring, cleaning>>
  BY DEF AdminUpdate, PayInv, TypeOK
<1>3. x.status = "REFUND_INITIATED"
  BY <1>1 DEF RowType
<1> HIDE DEF x
<1>4. AdminDecisions' = {}
  BY <1>2 DEF AdminDecisions, AdminType
<1>5. Decisions' \subseteq Decisions
  BY <1>2, <1>4, PartsKeep DEF Decisions
<1>6. <<b, "REFUND_INITIATED">> \in Decisions
  BY <1>2 DEF Decisions, AdminDecisions
<1>7. BookedOrders' = BookedOrders \cup {o}
  BY <1>1, <1>2 DEF BookedOrders
<1> QED
  BY <1>1, <1>2, <1>3, <1>5, <1>6, <1>7, Projections, RefundPromise DEF OthersStay

\* The release of its seats is not seen.
LEMMA AdminReleasePromise == PayInv /\ AdminRelease => Promise!Next
<1> SUFFICES ASSUME PayInv, AdminRelease PROVE Promise!Next
  OBVIOUS
<1> DEFINE b == admin.b
           x == [row[b] EXCEPT !.lock = "RELEASED"]
<1>1. b \in Bookings /\ row[b] \in RowType
  BY DEF AdminRelease, PayInv, TypeOK, AdminOK
<1>2. /\ row' = [row EXCEPT ![b] = x] /\ admin' = IdleAdmin
      /\ UNCHANGED <<ledger, gateway, orderReq, hook, recon, expiring, cleaning>>
  BY DEF AdminRelease
<1>3. x.status = row[b].status
  BY <1>1 DEF RowType
<1> HIDE DEF x
<1>4. UNCHANGED StatusOf
  BY <1>1, <1>2, <1>3, RowMoves DEF StatusOf
<1>5. AdminDecisions' = {}
  BY <1>2 DEF AdminDecisions, IdleAdmin
<1>6. Decisions' \subseteq Decisions
  BY <1>2, <1>5, PartsKeep DEF Decisions
<1> QED
  BY <1>2, <1>4, <1>6, Projections, DecidingStep DEF Untouched

\* An expiry by id expires the booking.
LEMMA ExpirePromise ==
  ASSUME PayInv, NEW b \in Bookings, ExpiryWrite(b) \/ CleanupWrite(b)
  PROVE  Promise!Next
<1>1. /\ UNCHANGED <<ledger, gateway, orderReq, hook, recon, admin>>
      /\ expiring' \cup cleaning' \subseteq expiring \cup cleaning
      /\ b \in expiring \cup cleaning /\ row[b] \in RowType
  BY DEF ExpiryWrite, CleanupWrite, PayInv, TypeOK
<1>2. PICK x : row' = [row EXCEPT ![b] = x] /\ x.status = "EXPIRED"
  <2>1. [row[b] EXCEPT !.status = "EXPIRED"].status = "EXPIRED"
    BY <1>1 DEF RowType
  <2>2. [Released(row[b]) EXCEPT !.status = "EXPIRED"].status = "EXPIRED"
    BY <1>1 DEF RowType, Released
  <2> QED
    BY <2>1, <2>2 DEF ExpiryWrite, CleanupWrite
<1>3. CronDecisions' \subseteq CronDecisions
  BY <1>1 DEF CronDecisions
<1>4. Decisions' \subseteq Decisions
  BY <1>1, <1>3, PartsKeep DEF Decisions
<1>5. <<b, "EXPIRED">> \in Decisions
  BY <1>1 DEF Decisions, CronDecisions
<1> QED
  BY <1>1, <1>2, <1>4, <1>5, Projections, FollowPromise DEF OthersStay

\* The batch of releaseExpiredLocks expires what is LOCKED.
LEMMA SweepPromise == PayInv /\ SweepWrite => Promise!Next
<1> SUFFICES ASSUME PayInv, SweepWrite PROVE Promise!Next
  OBVIOUS
<1> DEFINE S == {b \in sweeping : row[b].status = "LOCKED"}
<1>1. /\ UNCHANGED <<ledger, gateway, orderReq, hook, recon, admin, expiring, cleaning>>
      /\ row' = [b \in Bookings |-> IF b \in sweeping THEN SweptRow(row[b]) ELSE row[b]]
      /\ row \in [Bookings -> RowType] /\ sweeping \subseteq Bookings
  BY DEF SweepWrite, PayInv, TypeOK
<1>2. \A b \in Bookings : row'[b].status = IF b \in S THEN "EXPIRED" ELSE row[b].status
  <2>1. \A y \in RowType :
          SweptRow(y).status = IF y.status = "LOCKED" THEN "EXPIRED" ELSE y.status
    BY DEF SweptRow, RowType
  <2> QED
    BY <1>1, <2>1
<1>3. S \in SUBSET {b \in Bookings : StatusOf[b] = "LOCKED"}
  BY <1>1 DEF StatusOf
<1>4. StatusOf' = [b \in Bookings |-> IF b \in S THEN "EXPIRED" ELSE StatusOf[b]]
  BY <1>2 DEF StatusOf
<1>5. Decisions' = Decisions
  BY <1>1, PartsKeep DEF Decisions
<1> HIDE DEF S
<1>6. Promise!ExpireAll
  BY <1>1, <1>3, <1>4, <1>5, Projections DEF Promise!ExpireAll
<1> QED
  BY <1>6 DEF Promise!Next

\* payments.webhook.controller.ts, reconciliation.worker.ts, refund.service.ts,
\* the admin and the sweeps implement PaymentPromise, whatever they have read
\* late, write twice or leave undone: every step is one of its steps, or unseen.
THEOREM PaymentsImplementPromise == Spec => ImplementsPromise
<1>1. Init => Promise!Init /\ RefundEvents
  <2> SUFFICES ASSUME Init PROVE Promise!Init /\ RefundEvents
    OBVIOUS
  <2>1. Decisions = {}
    <3>1. OrderDecisions = {} /\ HookDecisions = {} /\ CronDecisions = {}
      BY DEF Init, OrderDecisions, HookDecisions, CronDecisions, IdleOrderReq, IdleHook
    <3>2. ReconDecisions = {} /\ AdminDecisions = {}
      BY DEF Init, ReconDecisions, ReconDecided, AdminDecisions, IdleRecon, IdleAdmin
    <3> QED
      BY <3>1, <3>2 DEF Decisions
  <2>2. /\ StatusOf = [b \in Bookings |-> "LOCKED"]
        /\ OwnerOf = [o \in Orders |-> NoBooking]
        /\ PaidOrders = {} /\ BookedOrders = {} /\ ReturnedOrders = {}
    BY DEF Init, StatusOf, OwnerOf, PaidOrders, BookedOrders, ReturnedOrders
  <2>3. RefundEvents
    BY DEF Init, RefundEvents, IdleHook
  <2> QED
    BY <2>1, <2>2, <2>3 DEF Promise!Init
<1>2. PayInv /\ RefundEvents /\ [Next]_vars => [Promise!Next]_(Promise!promiseVars)
  <2> SUFFICES ASSUME PayInv, RefundEvents, [Next]_vars
               PROVE  Promise!Next \/ UNCHANGED Promise!promiseVars
    OBVIOUS
  <2>1. CASE UNCHANGED vars
    BY <2>1, Projections, PartsKeep DEF vars, Decisions, Promise!promiseVars
  <2>2. ASSUME NEW b \in Bookings, Lapse(b) \/ Age(b) \/ AdminRead(b)
        PROVE  Promise!Next
    BY <2>2, ClockPromise, AdminStillPromise
  <2>3. ASSUME NEW o \in Orders, Pay(o) \/ SettleRefund(o)
        PROVE  Promise!Next
    BY <2>3, PayPromise, SettlePromise
  <2>4. ASSUME NEW c \in OrderReqs,
               OrderStep(c) \/ OrderFail(c) \/ \E b \in Bookings : OrderRead(c, b)
        PROVE  Promise!Next
    BY <2>4, OrderReadPromise, OrderCreatePromise, OrderUpdatePromise, OrderFailPromise
    DEF OrderStep
  <2>5. ASSUME NEW h \in Hooks, HookStep(h) \/ HookAbort(h)
        PROVE  Promise!Next
    BY <2>5, HookQuietPromise, HookReadPromise, HookWritePromise, HookResolvePromise,
       HookSettlePromise DEF HookStep
  <2>6. ASSUME NEW h \in Hooks, NEW o \in Orders, NEW kind \in gateway[o].events,
               Deliver(h, o, kind)
        PROVE  Promise!Next
    BY <2>6, HookQuietPromise
  <2>7. CASE ReconStep \/ ReconAbort
    BY <2>7, ReconQuietPromise, ReconReadPromise, ReconSyncPromise, ReconWritePromise,
       RefundCallPromise, RefundWritePromise DEF ReconStep
  <2>8. CASE AdminCall \/ AdminUpdate \/ AdminRelease \/ AdminAbort
    BY <2>8, AdminCallPromise, AdminUpdatePromise, AdminReleasePromise, AdminStillPromise
  <2>9. CASE CronStep \/ CronAbort
    BY <2>9, CronStillPromise, ExpirePromise, SweepPromise DEF CronStep
  <2> QED
    BY <2>1, <2>2, <2>3, <2>4, <2>5, <2>6, <2>7, <2>8, <2>9 DEF Next
<1>3. Spec => []RefundEvents
  <2>1. [](PayInv) /\ RefundEvents /\ [][Next]_vars => []RefundEvents
    BY RefundEventsStep, PTL
  <2> QED
    BY <1>1, <2>1, PaymentInvariant, PTL DEF Spec
<1> QED
  BY <1>1, <1>2, <1>3, PaymentInvariant, PTL DEF Spec, ImplementsPromise, Promise!Spec

-----------------------------------------------------------------------------
(* The circuit breaker.                                                    *)

\* Failures that count are failures since the last success.
CountInStreak == failures <= streak \/ streak = Threshold

CircuitInv ==
  CircuitTypeOK /\ TurnedAwayForCooldown /\ OpenAfterFailures /\ CountInStreak

LEMMA CircuitBegins == CircuitInit => CircuitInv
BY CircuitAssumption
   DEF CircuitInit, CircuitInv, CircuitTypeOK, TurnedAwayForCooldown,
       OpenAfterFailures, CountInStreak

\* A failure is counted as one, or as one more.
LEMMA CountGrows ==
  ASSUME CircuitInv
  PROVE  Counted \in Nat /\ Counted >= 1 /\ (Counted = 1 \/ Counted = failures + 1)
BY DEF CircuitInv, CircuitTypeOK, Counted

LEMMA CircuitStep == CircuitInv /\ [CircuitNext]_circuitVars => CircuitInv'
<1> SUFFICES ASSUME CircuitInv, [CircuitNext]_circuitVars
             PROVE  CircuitInv'
  OBVIOUS
<1> USE CircuitAssumption
        DEF CircuitInv, CircuitTypeOK, TurnedAwayForCooldown, OpenAfterFailures,
            CountInStreak
<1>1. CASE CircuitTick
  BY <1>1 DEF CircuitTick
<1>2. CASE CallRepeated
  BY <1>2 DEF CallRepeated, Passes, Checked
<1>3. CASE \E c \in Calls : CallStart(c)
  BY <1>3 DEF CallStart, Passes, Checked
<1>4. CASE \E c \in Calls : CallSucceeds(c)
  BY <1>4 DEF CallSucceeds
<1>5. ASSUME NEW c \in Calls, CallFails(c)
      PROVE  CircuitInv'
  <2>1. /\ Counted \in Nat /\ Counted >= 1
        /\ Counted = 1 \/ Counted = failures + 1
    BY CountGrows
  <2>2. /\ call' \in [Calls -> {"idle", "out"}]
        /\ failures' = Counted /\ sinceError' = 0
        /\ circuit' = IF Counted >= Threshold THEN "OPEN" ELSE circuit
        /\ streak' = IF streak < Threshold THEN streak + 1 ELSE streak
    BY <1>5 DEF CallFails
  <2> QED
    BY <2>1, <2>2
<1>6. CASE UNCHANGED circuitVars
  BY <1>6 DEF circuitVars
<1> QED
  BY <1>1, <1>2, <1>3, <1>4, <1>5, <1>6 DEF CircuitNext

\* The inductive invariant.
THEOREM CircuitInvariant == CircuitSpec => []CircuitInv
<1> QED
  BY CircuitBegins, CircuitStep, PTL DEF CircuitSpec

\* payments.service.ts checkCircuit: after FAILURE_THRESHOLD failures requests
\* are turned away until COOLDOWN_PERIOD is over.
THEOREM CooldownIsKept == CircuitSpec => []TurnedAwayForCooldown
<1>1. CircuitInv => TurnedAwayForCooldown
  BY DEF CircuitInv
<1> QED
  BY <1>1, CircuitInvariant, PTL

\* payments.service.ts recordFailure: the circuit is open only after as many
\* failures as FAILURE_THRESHOLD, no success among them.
THEOREM OpensForFailures == CircuitSpec => []OpenAfterFailures
<1>1. CircuitInv => OpenAfterFailures
  BY DEF CircuitInv
<1> QED
  BY <1>1, CircuitInvariant, PTL
=============================================================================
