--------------------------- MODULE PaymentPromise ---------------------------
(***************************************************************************)
(* What the older payment flow promises of a booking and of its money,     *)
(* whoever of the webhooks, the worker, the admin and the sweeps acts: a   *)
(* status changes as bookings/bookings-state.machine.ts allows at the time *)
(* somebody decides on it; a confirmation books a payment that was made;   *)
(* money goes back only when it is booked, and a booking is REFUNDED only  *)
(* when it went back.  Deciding and writing are two moments, since the     *)
(* writers read first and update by id: in between the status may change,  *)
(* or the one who decided may die.                                         *)
(***************************************************************************)
CONSTANTS
  Bookings,
  Orders,     \* Razorpay orders
  NoBooking   \* whose an order is that was not made

VARIABLES
  status,     \* of each booking
  decided,    \* pairs of a booking and the status somebody will write to it
  owner,      \* the booking of each order
  paid,       \* orders whose payment was made
  booked,     \* orders whose payment is in the ledger
  returned    \* orders whose payment is given back

promiseVars == <<status, decided, owner, paid, booked, returned>>

\* ALLOWED_TRANSITIONS, for the statuses a booking of the model can have
Allowed ==
  [LOCKED              |-> {"PAYMENT_IN_PROGRESS", "EXPIRED", "FAILED", "CANCELLED"},
   PAYMENT_IN_PROGRESS |-> {"CONFIRMED", "FAILED", "REFUND_INITIATED"},
   CONFIRMED           |-> {"CANCELLED", "REFUND_INITIATED"},
   FAILED              |-> {"REFUND_INITIATED"},
   EXPIRED             |-> {"REFUND_INITIATED"},
   CANCELLED           |-> {"REFUND_INITIATED"},
   REFUND_INITIATED    |-> {"REFUNDED", "REFUND_FAILED"},
   REFUNDED            |-> {},
   REFUND_FAILED       |-> {"REFUND_INITIATED"}]

Statuses == DOMAIN Allowed

Init ==
  /\ status = [b \in Bookings |-> "LOCKED"]
  /\ decided = {}
  /\ owner = [o \in Orders |-> NoBooking]
  /\ paid = {} /\ booked = {} /\ returned = {}

Of(b) == {o \in Orders : owner[o] = b}

\* The table, and two exceptions: a payment webhook confirms a booking that is
\* still LOCKED, and refund.failed looks at no status, only at the payment.
MayDecide(b, to) ==
  \/ to \in Allowed[status[b]]
  \/ status[b] = "LOCKED" /\ to = "CONFIRMED"
  \/ to = "REFUND_FAILED" /\ Of(b) \cap returned # {}

\* Decisions are taken and given up.
Decide ==
  /\ UNCHANGED <<status, owner, paid, booked, returned>>
  /\ \A d \in decided' \ decided : d \in Bookings \X Statuses /\ MayDecide(d[1], d[2])

\* An order is made to take its booking to payment.
PlaceOrder(o, b) ==
  /\ owner[o] = NoBooking
  /\ owner' = [owner EXCEPT ![o] = b]
  /\ <<b, "PAYMENT_IN_PROGRESS">> \in decided
  /\ UNCHANGED <<status, decided, paid, booked, returned>>

Capture(o) ==
  /\ owner[o] # NoBooking
  /\ paid' = paid \cup {o}
  /\ UNCHANGED <<status, decided, owner, booked, returned>>

Book(o) == o \in paid /\ booked' = booked \cup {o}

\* The payment of a booking that is over
BookLate(o) == Book(o) /\ decided' \subseteq decided /\ UNCHANGED <<status, owner, paid, returned>>

GiveBack(o) ==
  /\ o \in booked
  /\ returned' = returned \cup {o}
  /\ UNCHANGED <<status, decided, owner, paid, booked>>

\* Others may have decided the same.
Move(b, to) ==
  /\ status' = [status EXCEPT ![b] = to]
  /\ decided' \subseteq decided
  /\ UNCHANGED <<owner, paid, returned>>

Confirm(b, o) ==
  /\ o \in Of(b) /\ Book(o)
  /\ Move(b, "CONFIRMED")
  /\ <<b, "CONFIRMED">> \in decided \/ status[b] = "PAYMENT_IN_PROGRESS"

BeginRefund(b, o) ==
  /\ o \in Of(b) /\ Book(o)
  /\ Move(b, "REFUND_INITIATED")
  /\ <<b, "REFUND_INITIATED">> \in decided

EndRefund(b) ==
  /\ Of(b) \cap returned # {}
  /\ Move(b, "REFUNDED") /\ UNCHANGED booked
  /\ <<b, "REFUNDED">> \in decided

\* What needs no money
Follow(b, to) ==
  /\ to = "PAYMENT_IN_PROGRESS" => Of(b) # {}
  /\ Move(b, to) /\ UNCHANGED booked
  /\ <<b, to>> \in decided

\* One statement for many bookings
ExpireAll ==
  /\ \E S \in SUBSET {b \in Bookings : status[b] = "LOCKED"} :
       status' = [b \in Bookings |-> IF b \in S THEN "EXPIRED" ELSE status[b]]
  /\ UNCHANGED <<decided, owner, paid, booked, returned>>

Next ==
  \/ Decide \/ ExpireAll
  \/ \E o \in Orders : Capture(o) \/ BookLate(o) \/ GiveBack(o)
  \/ \E b \in Bookings, o \in Orders : PlaceOrder(o, b) \/ Confirm(b, o) \/ BeginRefund(b, o)
  \/ \E b \in Bookings :
       \/ EndRefund(b)
       \/ \E to \in {"PAYMENT_IN_PROGRESS", "FAILED", "EXPIRED", "REFUND_FAILED"} : Follow(b, to)

Spec == Init /\ [][Next]_promiseVars
=============================================================================
