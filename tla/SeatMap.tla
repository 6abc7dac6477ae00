------------------------------ MODULE SeatMap ------------------------------
(***************************************************************************)
(* The seat map of events/events.service.ts: getSeatMap asks first for the *)
(* seats of bookings that count, then for the keys of the locks, then for  *)
(* their values, while Bookings goes on.  One request, step by awaited     *)
(* call.  free and moved are history: no action reads them.                *)
(***************************************************************************)
EXTENDS Bookings

VARIABLES
  map,    \* the request: its user, the time it read, what it found so far
  free,   \* history: seats that nobody held at some moment since it began
  moved   \* history: seats a booking came to occupy while it was reading

mapVars == <<map, free, moved>>

Answers == {"BOOKED", "PENDING_PAYMENT", "LOCKED_BY_ME", "LOCKED", "AVAILABLE"}

IdleMap == [pc |-> "idle", user |-> NoUser, now |-> 0, rows |-> {}, keys |-> {},
            seats |-> [s \in Seats |-> "AVAILABLE"]]

\* rows: the bookings of the answer, with the status they had
MapTypeOK ==
  /\ map \in [pc : {"idle", "busy", "keys", "values", "done"},
              user : Users \cup {NoUser}, now : Nat,
              rows : SUBSET (Reqs \X Statuses), keys : SUBSET Seats,
              seats : [Seats -> Answers]]
  /\ free \subseteq Seats /\ moved \subseteq Seats

MapInit == Init /\ map = IdleMap /\ free = {} /\ moved = {}

\* Nobody holds the seat: no lock is on it and no booking occupies it.
Unheld(s) ==
  /\ ~Present(s)
  /\ \A b \in Reqs : s \in req[b].seats => ~Occupies(b)

UnheldSeats == {s \in Seats : Unheld(s)}

\* The event is read, and the clock.
MapStart(u) ==
  /\ map.pc = "idle"
  /\ map' = [map EXCEPT !.pc = "busy", !.user = u, !.now = clock]
  /\ free' = UnheldSeats
  /\ UNCHANGED <<vars, moved>>

\* bookingSeat.findMany
MapBusy ==
  /\ map.pc = "busy"
  /\ map' = [map EXCEPT !.pc = "keys",
               !.rows = {<<b, booking[b].status>> : b \in {c \in Reqs : Busy(c, map.now)}}]
  /\ UNCHANGED <<vars, free, moved>>

\* Mutant of MapKeys: the locks found are those of the user who asks
MapKeysOwn ==
  /\ map.pc = "keys"
  /\ map' = [map EXCEPT !.pc = "values",
               !.keys = {s \in Seats : Present(s) /\ lock[s].user = map.user}]
  /\ UNCHANGED <<vars, free, moved>>

\* KEYS; with none there is nothing to get.
MapKeys ==
  /\ map.pc = "keys"
  /\ map' = [map EXCEPT !.pc = "values", !.keys = {s \in Seats : Present(s)}]
  /\ UNCHANGED <<vars, free, moved>>

\* What the answer says of seat s, whose row is looked at before its lock
SeatAnswer(s, locked) ==
  LET row == {x \in map.rows : s \in req[x[1]].seats}
  IN  IF row # {}
        THEN {IF x[2] = "CONFIRMED" THEN "BOOKED" ELSE "PENDING_PAYMENT" : x \in row}
        ELSE {IF s \notin locked THEN "AVAILABLE"
              ELSE IF lock[s].user = map.user THEN "LOCKED_BY_ME" ELSE "LOCKED"}

\* MGET of the keys, and the answer: of two rows of a seat the last one counts.
MapValues ==
  /\ map.pc = "values"
  /\ \E seats \in [Seats -> Answers] :
       /\ \A s \in Seats : seats[s] \in SeatAnswer(s, {k \in map.keys : Present(k)})
       /\ map' = [IdleMap EXCEPT !.pc = "done", !.seats = seats]
  /\ UNCHANGED <<vars, free, moved>>

\* Bookings goes on while the map is read.
Meanwhile ==
  /\ Next
  /\ free' = IF map.pc \in {"idle", "done"} THEN free ELSE free \cup UnheldSeats'
  /\ moved' = IF map.pc \in {"idle", "done"} THEN moved
              ELSE moved \cup UNION {req[b].seats : b \in
                     {c \in Reqs : ~Occupies(c) /\ Occupies(c)'}}
  /\ UNCHANGED map

MapNext == Meanwhile \/ (\E u \in Users : MapStart(u)) \/ MapBusy \/ MapKeys \/ MapValues

MapSpec == MapInit /\ [][MapNext]_<<vars, mapVars>>
----------------------------------------------------------------------------
\* Safety.  A seat that somebody held all the time is shown as AVAILABLE only
\* when a booking came to occupy it while the map was read: created after the
\* query for bookings from a lock that was gone before its GET, or confirmed
\* late after the query.  The order of the reads shows no other seat as free.
ShownFreeWasFree ==
  map.pc = "done" =>
    \A s \in Seats : map.seats[s] = "AVAILABLE" => s \in free \cup moved
=============================================================================
