-------------------------- MODULE BookingRefinement --------------------------
(***************************************************************************)
(* Bookings implements BookingLifecycle: the locks, the requests and the   *)
(* jobs are hidden, a webhook handler is seen only through the event it is *)
(* about to confirm with, and an event counts as spent when its handler    *)
(* has left the read of the booking behind.                                *)
(***************************************************************************)
EXTENDS Bookings

HookEvents(pc) == {hook[h].event : h \in {k \in Hooks : hook[k].pc = pc}}

Lifecycle == INSTANCE BookingLifecycle WITH
  Orders <- Reqs,
  Payments <- Events,
  NoPayment <- NoEvent,
  NoBooking <- NoOrder,
  now <- clock,
  status <- [b \in Reqs |-> booking[b].status],
  deadline <- [b \in Reqs |-> booking[b].expiresAt],
  ticket <- [b \in Reqs |-> booking[b].ticket],
  pays <- [e \in Events |-> sent[e].order],
  spent <- recorded \ HookEvents("read"),
  accepted <- HookEvents("confirm"),
  overdue <- {b \in Reqs : job[b].pc = "update"}

\* Refinement.  Whatever is locked, requested, delivered twice, interleaved or
\* cut short, the bookings and the payment events behave as BookingLifecycle
\* says: the unique eventId gives an event one chance, a write follows one
\* read that saw PENDING, a job expires nothing before expiresAt.
ImplementsLifecycle == Lifecycle!Spec
=============================================================================
