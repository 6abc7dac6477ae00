-------------------------- MODULE BookingLifecycle --------------------------
(***************************************************************************)
(* What the booking service promises of a booking and of the payment       *)
(* events about it, whatever locks, requests, queues, deliveries, handlers *)
(* and crashes do: a booking is decided on while it is PENDING, an event   *)
(* gets one chance to confirm, an expiry only comes after the deadline.    *)
(* A decision and the write that carries it out are two moments; in        *)
(* between the status may change, or the one who decided may die.          *)
(***************************************************************************)
EXTENDS Naturals

CONSTANTS
  Orders,    \* bookings, by the order that pays them
  Payments,  \* payment events
  NoPayment, \* no ticket yet
  NoBooking  \* what an event pays that was not sent, or is not about a booking

VARIABLES
  now,       \* the clock
  status,    \* of each booking
  deadline,  \* of each booking: its expiresAt
  ticket,    \* the event that confirmed the booking last
  pays,      \* the booking an event is about
  spent,     \* events that had their chance
  accepted,  \* events that found their booking PENDING and will confirm it
  overdue    \* bookings found PENDING after the deadline, to be expired

lifecycleVars ==
  <<now, status, deadline, ticket, pays, spent, accepted, overdue>>

Init ==
  /\ now = 0
  /\ status = [b \in Orders |-> "none"]
  /\ deadline = [b \in Orders |-> 0]
  /\ ticket = [b \in Orders |-> NoPayment]
  /\ pays = [e \in Payments |-> NoBooking]
  /\ spent = {} /\ accepted = {} /\ overdue = {}

Time ==
  /\ now' = now + 1
  /\ UNCHANGED <<status, deadline, ticket, pays, spent, accepted, overdue>>

\* The deadline is set once, and may already be over.
Create(b) ==
  /\ status[b] = "none"
  /\ status' = [status EXCEPT ![b] = "PENDING"]
  /\ deadline' = [deadline EXCEPT ![b] = deadline'[b]]
  /\ UNCHANGED <<now, ticket, pays, spent, accepted, overdue>>

\* Only a booking that exists is paid.
PayFor(e, b) ==
  /\ pays[e] = NoBooking
  /\ status[b] # "none"
  /\ pays' = [pays EXCEPT ![e] = b]
  /\ UNCHANGED <<now, status, deadline, ticket, spent, accepted, overdue>>

Accept(e) ==
  /\ e \notin spent
  /\ pays[e] \in Orders
  /\ status[pays[e]] = "PENDING"
  /\ spent' = spent \cup {e}
  /\ accepted' = accepted \cup {e}
  /\ UNCHANGED <<now, status, deadline, ticket, pays, overdue>>

\* The event is about nothing that waits for it, or its handler died.
Waste(e) ==
  /\ e \notin spent
  /\ spent' = spent \cup {e}
  /\ UNCHANGED <<now, status, deadline, ticket, pays, accepted, overdue>>

Confirm(e) ==
  /\ e \in accepted
  /\ accepted' = accepted \ {e}
  /\ status' = [status EXCEPT ![pays[e]] = "CONFIRMED"]
  /\ ticket' = [ticket EXCEPT ![pays[e]] = e]
  /\ UNCHANGED <<now, deadline, pays, spent, overdue>>

LoseAccepted(e) ==
  /\ e \in accepted
  /\ accepted' = accepted \ {e}
  /\ UNCHANGED <<now, status, deadline, ticket, pays, spent, overdue>>

Find(b) ==
  /\ status[b] = "PENDING"
  /\ deadline[b] <= now
  /\ overdue' = overdue \cup {b}
  /\ UNCHANGED <<now, status, deadline, ticket, pays, spent, accepted>>

Expire(b) ==
  /\ b \in overdue
  /\ overdue' = overdue \ {b}
  /\ status' = [status EXCEPT ![b] = "EXPIRED"]
  /\ UNCHANGED <<now, deadline, ticket, pays, spent, accepted>>

LoseOverdue(b) ==
  /\ b \in overdue
  /\ overdue' = overdue \ {b}
  /\ UNCHANGED <<now, status, deadline, ticket, pays, spent, accepted>>

Next ==
  \/ Time
  \/ \E b \in Orders : Create(b) \/ Find(b) \/ Expire(b) \/ LoseOverdue(b)
  \/ \E e \in Payments : Accept(e) \/ Waste(e) \/ Confirm(e) \/ LoseAccepted(e)
  \/ \E e \in Payments, b \in Orders : PayFor(e, b)

Spec == Init /\ [][Next]_lifecycleVars
=============================================================================
