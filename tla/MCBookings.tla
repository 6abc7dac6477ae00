----------------------------- MODULE MCBookings -----------------------------
(* Finite instances of Bookings for TLC. *)
EXTENDS BookingRefinement, TLC

\* Users, requests, events and handlers are interchangeable.
Symmetry == Permutations(Users) \cup Permutations(Reqs) \cup Permutations(Events)
              \cup Permutations(Hooks) \cup Permutations(Seats)

\* No action but the ones that write them reads lockJobs or shown: states that
\* differ in nothing else have the same futures.  Of the properties only TypeOK
\* mentions them; the theorem TypeCorrect of BookingsProofs covers its clauses
\* about them for every instance.
View == <<clock, lock, nextToken, lockReq, crashes, bookingVars>>
=============================================================================
