----------------------------- MODULE SeatBoard -----------------------------
(***************************************************************************)
(* A seat as a client shows it: the booking page of the web client         *)
(* (app/(protected)/booking/[eventId]/page.tsx) and the booking screen of  *)
(* the phone (BookingViewModel.kt), both fed by a snapshot and by the room *)
(* of the show at websocket/booking.gateway.ts.  The handlers that change  *)
(* the seat and call the gateway are not in the repository: each stores    *)
(* the change and emits its event afterwards.  A connection delivers in    *)
(* order; what is emitted while nobody is in the room is lost.             *)
(***************************************************************************)
EXTENDS Naturals, Sequences, FiniteSets

CONSTANTS MaxChanges,  \* changes of the seat
          MaxLeaves    \* times the client leaves the page or loses its socket

ASSUME BoardAssumption == MaxChanges \in Nat /\ MaxLeaves \in Nat

VARIABLES seat,     \* the seat's status at the server
          changes,  \* number of the last change
          unsent,   \* events of changes whose handler has not emitted yet
          newest,   \* number of the newest event emitted
          view,     \* the client
          leaves

boardVars == <<seat, changes, unsent, newest, view, leaves>>

SeatStatuses == {"AVAILABLE", "LOCKED", "BOOKED"}
SeatEvents == [n : 1 .. MaxChanges, status : SeatStatuses]

\* on: the client is open.  fetch: a request for the seats; answer: what the server
\* answered, on its way while fetch is "read", and answerOf: the change it is of.
\* cached: the query has data, base, which is of change of.
\* at: the change the view stands at, by its snapshot or by the last event.
\* over: liveSeatStatuses, unavailableSeats; "AVAILABLE" when they say nothing.
\* room: the socket is in the room, where it stays when the client is left.
\* lost: history, the newest event that this opening has not got and will not get;
\* swapped: the last event was emitted after a newer one; gap: one was lost or
\* emitted late that this opening might have needed.
Views ==
  [kind : {"page", "phone"}, on : BOOLEAN, fetch : {"none", "asked", "read"},
   answer : SeatStatuses, answerOf : 0 .. MaxChanges, cached : BOOLEAN,
   base : SeatStatuses, of : 0 .. MaxChanges, at : 0 .. MaxChanges, over : SeatStatuses,
   joining : BOOLEAN, room : BOOLEAN, inbox : Seq(SeatEvents), chosen : BOOLEAN,
   lost : 0 .. MaxChanges, gap : BOOLEAN, swapped : BOOLEAN]

BoardTypeOK ==
  /\ seat \in SeatStatuses /\ changes \in 0 .. MaxChanges /\ newest \in 0 .. changes
  /\ unsent \subseteq SeatEvents /\ leaves \in 0 .. MaxLeaves
  /\ view \in Views /\ view.of <= changes /\ view.at <= changes
  /\ view.answerOf <= changes /\ view.lost <= newest
  /\ Len(view.inbox) + Cardinality(unsent) <= changes

Unopened(kind) ==
  [kind |-> kind, on |-> FALSE, fetch |-> "none", answer |-> "AVAILABLE", answerOf |-> 0,
   cached |-> FALSE, base |-> "AVAILABLE", of |-> 0, at |-> 0, over |-> "AVAILABLE",
   joining |-> FALSE, room |-> FALSE, inbox |-> <<>>, chosen |-> FALSE,
   lost |-> 0, gap |-> FALSE, swapped |-> FALSE]

BoardInit ==
  /\ seat \in {"AVAILABLE", "LOCKED"}
  /\ changes = 0 /\ unsent = {} /\ newest = 0 /\ leaves = 0
  /\ \E kind \in {"page", "phone"} : view = Unopened(kind)
-----------------------------------------------------------------------------
(* The server (external) and booking.gateway.ts                            *)

\* A seat is locked, then booked or released, and a booking may be cancelled.
Follows(from) == IF from = "LOCKED" THEN {"BOOKED", "AVAILABLE"}
                 ELSE IF from = "BOOKED" THEN {"AVAILABLE"} ELSE {"LOCKED"}

ChangeSeat(to) ==
  /\ changes < MaxChanges /\ to \in Follows(seat)
  /\ seat' = to /\ changes' = changes + 1
  /\ unsent' = unsent \cup {[n |-> changes + 1, status |-> to]}
  /\ UNCHANGED <<newest, view, leaves>>

\* The client shows the board, and listens.
Shown == view.on /\ view.cached

Later(m, n) == IF m > n THEN m ELSE n

\* emitSeatLocked, emitSeatReleased, emitSeatBooked, in the order in which the
\* handlers come to it.
Emit(e) ==
  /\ e \in unsent /\ unsent' = unsent \ {e}
  /\ newest' = Later(newest, e.n)
  /\ view' = [view EXCEPT !.swapped = e.n < newest,
                          !.inbox = IF view.room THEN Append(@, e) ELSE @,
                          !.lost = IF view.room THEN @ ELSE Later(@, e.n),
                          !.gap = @ \/ e.n < newest \/ (Shown /\ ~view.room)]
  /\ UNCHANGED <<seat, changes, leaves>>

\* handleJoinShow
Join ==
  /\ view.joining
  /\ view' = [view EXCEPT !.joining = FALSE, !.room = TRUE]
  /\ UNCHANGED <<seat, changes, unsent, newest, leaves>>
-----------------------------------------------------------------------------
(* The client                                                              *)

\* What the view shows; the phone shows a seat as free when both say so.
ShownFree ==
  IF view.kind = "page" /\ view.over # "AVAILABLE" THEN FALSE
  ELSE view.base = "AVAILABLE" /\ view.over = "AVAILABLE"

\* An event was lost that a board shown from change n on might need, or one that
\* was emitted late is still on its way to it.
GapFrom(n) == view.lost > n \/ (view.gap /\ view.inbox # <<>>)

\* The client opens with nothing to show: the query is new, or was dropped while
\* nobody used it.  It asks for the seats, or waits for what the page has asked for
\* before.  The phone joins the room at once, if it has a socket: it has none when the
\* application was restarted.
Open ==
  /\ ~view.on /\ (view.cached => view.fetch = "none")
  /\ \E socket \in BOOLEAN :
       view' = [view EXCEPT !.on = TRUE, !.cached = FALSE,
                            !.base = "AVAILABLE", !.of = 0, !.at = 0,
                            !.fetch = IF @ = "none" THEN "asked" ELSE @,
                            !.joining = @ \/ (view.kind = "phone" /\ socket)]
  /\ UNCHANGED <<seat, changes, unsent, newest, leaves>>

\* The page opens again while its query has data: the old snapshot is shown at once,
\* and behind it the seats are asked for again if the data is stale.
OpenCached ==
  /\ ~view.on /\ view.cached
  /\ \E stale \in BOOLEAN :
       view' = [view EXCEPT !.on = TRUE, !.joining = TRUE,
                            !.fetch = IF stale /\ @ = "none" THEN "asked" ELSE @,
                            !.gap = GapFrom(view.of)]
  /\ UNCHANGED <<seat, changes, unsent, newest, leaves>>

\* The network is back: a page asks again for seats that are stale.
Refetch ==
  /\ Shown /\ view.kind = "page" /\ view.fetch = "none"
  /\ view' = [view EXCEPT !.fetch = "asked"]
  /\ UNCHANGED <<seat, changes, unsent, newest, leaves>>

\* The server answers with the seats; the answer is on its way.
ReadSeats ==
  /\ view.fetch = "asked"
  /\ view' = [view EXCEPT !.fetch = "read", !.answer = seat, !.answerOf = changes]
  /\ UNCHANGED <<seat, changes, unsent, newest, leaves>>

\* The answer arrives, after the page is left too, and takes the place of the snapshot;
\* live statuses and choice stay.  A page joins the room only now that it knows the show.
ShowSeats ==
  /\ view.fetch = "read"
  /\ LET first == view.on /\ ~view.cached
     IN  view' = [view EXCEPT !.fetch = "none", !.answer = "AVAILABLE", !.answerOf = 0,
                              !.cached = TRUE, !.base = view.answer, !.of = view.answerOf,
                              !.at = IF view.over = "AVAILABLE" THEN Later(@, view.answerOf)
                                                                ELSE @,
                              !.joining = @ \/ (first /\ view.kind = "page"),
                              !.gap = IF first THEN GapFrom(view.answerOf) ELSE @]
  /\ UNCHANGED <<seat, changes, unsent, newest, leaves>>

\* Mutant of Applied: seat_booked is taken for a release
AppliedBookedFree(v, e) ==
  [v EXCEPT !.at = e.n,
            !.over = IF e.status = "BOOKED" THEN "AVAILABLE" ELSE e.status]

\* Mutant of Applied: the choice stays when the seat is locked
AppliedKeepingChoice(v, e) ==
  [v EXCEPT !.at = e.n, !.over = e.status]

\* An event on a loaded board.  A release takes the live status away, and the
\* snapshot shows again.  The page drops a choice when the seat is locked, the
\* phone when it is locked or booked.
Applied(v, e) ==
  [v EXCEPT !.at = e.n, !.over = e.status,
            !.chosen = @ /\ \/ e.status = "AVAILABLE"
                            \/ e.status = "BOOKED" /\ v.kind = "page"]

\* Before the seats are there the phone cannot tell which seat is meant, and once the
\* client is left nobody listens.
Deliver ==
  /\ view.inbox # <<>>
  /\ LET e == Head(view.inbox)
         v == [view EXCEPT !.inbox = Tail(@)]
     IN  view' = IF Shown THEN Applied(v, e) ELSE [v EXCEPT !.lost = Later(@, e.n)]
  /\ UNCHANGED <<seat, changes, unsent, newest, leaves>>

\* handleSelect, selectSeat: a free seat is chosen, a chosen one given up.
Select ==
  /\ Shown /\ ShownFree
  /\ view' = [view EXCEPT !.chosen = ~@]
  /\ UNCHANGED <<seat, changes, unsent, newest, leaves>>

\* The booking is refused with 409: the choice is dropped, and nothing is read.
Refused ==
  /\ Shown /\ view.kind = "page" /\ view.chosen /\ seat # "AVAILABLE"
  /\ view' = [view EXCEPT !.chosen = FALSE]
  /\ UNCHANGED <<seat, changes, unsent, newest, leaves>>

Cut == leaves < MaxLeaves /\ leaves' = leaves + 1

\* The client is left: live statuses and choice go with it, and what it was told is
\* nothing to its next opening.  The page's query goes on, the phone's is cancelled.
Leave ==
  /\ view.on /\ Cut
  /\ LET phone == view.kind = "phone"
         left == [view EXCEPT !.on = FALSE, !.over = "AVAILABLE", !.chosen = FALSE,
                              !.at = view.of, !.lost = newest]
     IN  view' = IF phone THEN [left EXCEPT !.fetch = "none", !.answer = "AVAILABLE",
                                            !.answerOf = 0, !.cached = FALSE,
                                            !.base = "AVAILABLE", !.of = 0, !.at = 0]
                          ELSE left
  /\ UNCHANGED <<seat, changes, unsent, newest>>

\* The socket is lost.  It connects again by itself, but in no room.
Disconnect ==
  /\ view.room /\ Cut
  /\ view' = [view EXCEPT !.room = FALSE, !.inbox = <<>>,
                          !.lost = IF view.inbox = <<>> THEN @ ELSE newest,
                          !.gap = @ \/ (Shown /\ view.inbox # <<>>)]
  /\ UNCHANGED <<seat, changes, unsent, newest>>

BoardNext ==
  \/ \E to \in SeatStatuses : ChangeSeat(to)
  \/ \E e \in unsent : Emit(e)
  \/ Join \/ Open \/ OpenCached \/ Refetch \/ ReadSeats \/ ShowSeats \/ Deliver
  \/ Select \/ Refused \/ Leave \/ Disconnect

BoardSpec == BoardInit /\ [][BoardNext]_boardVars
-----------------------------------------------------------------------------
(* Properties                                                              *)

\* All that was emitted or answered has been delivered or lost.
AllArrived == Shown /\ view.fetch = "none" /\ unsent = {} /\ view.inbox = <<>>

\* A seat is shown as free or taken against the truth only when the last event
\* was lost (before the page had joined, while the phone was loading, after a
\* reconnection, or behind a cached snapshot) or emitted after a newer one; a free
\* one also when it was taken as the snapshot was read: no event corrects that.
ShownIsTrue ==
  AllArrived /\ view.lost <= view.at /\ ~view.swapped =>
    IF ShownFree THEN seat = "AVAILABLE"
                 ELSE seat # "AVAILABLE" \/ view.base # "AVAILABLE"

\* A seat that is shown as taken is no longer among the chosen ones, unless an
\* event was lost or late since the page was opened, or an answer was overtaken by
\* the release of a seat that it has as taken: the page gives the choice up for
\* seat_locked, but neither for seat_booked nor for what a refetch tells.
ChosenIsShownFree ==
  AllArrived /\ view.chosen /\ ~ShownFree =>
    view.gap \/ (view.base # "AVAILABLE" /\ view.at > view.of)
=============================================================================
