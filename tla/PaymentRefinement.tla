-------------------------- MODULE PaymentRefinement --------------------------
(***************************************************************************)
(* PaymentLifecycle implements PaymentPromise: the handlers, the worker,   *)
(* the admin and the sweeps are seen only through the statuses they have   *)
(* decided to write and have not written yet; of Razorpay and the ledger   *)
(* only who paid, what is booked and what is given back is kept.           *)
(***************************************************************************)
EXTENDS PaymentLifecycle

\* The status a handler will write to the booking of its order, if any
HookDecided(h) ==
  IF hook[h].pc = "settle"
  THEN {IF hook[h].kind = "processed" THEN "REFUNDED" ELSE "REFUND_FAILED"}
  ELSE {to \in {"CONFIRMED"} : hook[h].seen \in {"PAYMENT_IN_PROGRESS", "LOCKED"}}

\* The status the worker will write to the booking in its hands, if any
ReconDecided ==
  IF recon.pc = "write"
  THEN IF recon.seen = "PAYMENT_IN_PROGRESS"
       THEN {IF recon.found THEN "CONFIRMED" ELSE "FAILED"}
       ELSE {to \in {"REFUND_INITIATED"} :
               recon.found /\ recon.seen \in {"EXPIRED", "CANCELLED", "FAILED"}}
  ELSE {to \in {IF recon.found THEN "REFUNDED" ELSE "REFUND_FAILED"} :
          recon.pc = "rewrite" /\ recon.seen = "REFUND_INITIATED"}

OrderDecisions ==
  {<<orderReq[c].b, "PAYMENT_IN_PROGRESS">> :
     c \in {d \in OrderReqs : orderReq[d].pc # "idle"}}
HookDecisions ==
  UNION {{gateway[hook[h].o].b} \X HookDecided(h) :
           h \in {g \in Hooks : hook[g].pc \in {"write", "settle"}}}
ReconDecisions == {recon.b} \X ReconDecided
AdminDecisions == {admin.b} \X {to \in {"REFUND_INITIATED"} : admin.pc \in {"call", "update"}}
CronDecisions == (expiring \cup cleaning) \X {"EXPIRED"}

Decisions ==
  OrderDecisions \cup HookDecisions \cup ReconDecisions \cup AdminDecisions
    \cup CronDecisions

StatusOf == [b \in Bookings |-> row[b].status]
OwnerOf == [o \in Orders |-> gateway[o].b]
PaidOrders == {o \in Orders : gateway[o].pay = "captured"}
BookedOrders == {o \in Orders : ledger[o].paid > 0}
ReturnedOrders == {o \in Orders : gateway[o].refund # "none"}

Promise == INSTANCE PaymentPromise WITH
  status   <- StatusOf,
  decided  <- Decisions,
  owner    <- OwnerOf,
  paid     <- PaidOrders,
  booked   <- BookedOrders,
  returned <- ReturnedOrders

\* Refinement.  However the webhooks, the worker, the admin and the sweeps
\* interleave, repeat and die, they do to a booking and its money only what
\* PaymentPromise allows: each writes a status that the table allowed after one
\* it read, confirms what is paid and books it, and gives back what is booked.
ImplementsPromise == Promise!Spec
=============================================================================
