--------------------------- MODULE SeatBoardProofs ---------------------------
(***************************************************************************)
(* What a client shows of a seat, for any number of changes and of lost    *)
(* connections: with everything delivered it shows the seat as it is,      *)
(* unless the last event was lost or overtaken.                            *)
(***************************************************************************)
EXTENDS SeatBoard, SequenceTheorems, FiniteSetTheorems, TLAPS

(* The inductive invariant, part by part, for a history h of the seat: h[n] is *)
(* its status after change n.                                                *)

\* Only a lock follows a free seat, and the last change left the seat as it is.
HistoryKept(h) ==
  /\ h \in [0 .. changes -> SeatStatuses] /\ h[changes] = seat
  /\ \A n \in 0 .. changes - 1 : h[n] = "AVAILABLE" => h[n + 1] = "LOCKED"

\* The events on their way, those of them not emitted yet, and the changes they are of.
Inbox == {view.inbox[i] : i \in 1 .. Len(view.inbox)}

ToCome(n) == \E e \in unsent \cup Inbox : e.n = n

\* Events tell what a change did; those on their way were emitted; and a change whose
\* event nobody has emitted is older than one that was.
EventsKept(h) ==
  /\ IsFiniteSet(unsent)
  /\ \A e \in unsent \cup Inbox : e.n <= changes /\ e.status = h[e.n]
  /\ \A e \in Inbox : e.n <= newest
  /\ \A e \in unsent : e.n # newest
  /\ \A n \in 1 .. changes : n <= newest \/ \E e \in unsent : e.n = n

\* Only a socket in the room is on the way of events, and the last of them is the newest
\* unless it was emitted late.  With no gap they come in their order, and every change
\* after one of them has its event still to come.
InboxKept ==
  /\ view.inbox # <<>> => /\ view.room
                          /\ view.swapped \/ view.inbox[Len(view.inbox)].n = newest
  /\ ~view.gap =>
       /\ \A i, j \in 1 .. Len(view.inbox) : i <= j => view.inbox[i].n <= view.inbox[j].n
       /\ \A e \in Inbox : \A n \in e.n + 1 .. changes : ToCome(n)

\* The snapshot, the answer on its way and the live status are each what the seat was, and
\* nothing is live or chosen where the board is not shown.
SnapshotKept(h) ==
  /\ view.cached => view.base = h[view.of]
  /\ view.fetch = "read" => view.answer = h[view.answerOf] /\ view.of <= view.answerOf
  /\ Shown => \/ view.over = h[view.at]
              \/ view.over = "AVAILABLE" /\ view.at = view.of
  /\ ~Shown => view.over = "AVAILABLE" /\ ~view.chosen /\ view.at = view.of

\* What a board that is not shown is still to get is on its way.
OpeningKept == ~Shown => \A n \in 1 .. changes : n <= view.lost \/ ToCome(n)

\* With nothing on its way, the newest event has been shown or lost.
StandKept ==
  Shown /\ view.inbox = <<>> /\ ~view.swapped => newest <= view.at \/ newest <= view.lost

\* With no gap, what comes after the change the view stands at is on its way.
GapKept == Shown /\ ~view.gap => \A n \in view.at + 1 .. changes : ToCome(n)

\* A seat was free when it was chosen, and with no gap the locks since then are on their way.
LockTold(h) ==
  view.chosen /\ ~view.gap =>
    \E k \in 0 .. changes :
      /\ h[k] = "AVAILABLE"
      /\ \A n \in k + 1 .. changes : h[n] = "LOCKED" => ToCome(n)

\* The parts of the invariant beside the types.
Stands(h) ==
  /\ HistoryKept(h) /\ EventsKept(h) /\ InboxKept /\ SnapshotKept(h)
  /\ OpeningKept /\ StandKept /\ GapKept /\ LockTold(h)

BoardKept == \E h \in [0 .. changes -> SeatStatuses] : Stands(h)
-----------------------------------------------------------------------------
(* What the steps do.                                                      *)

\* What a sequence of events is with one more.
LEMMA InboxAppended ==
  ASSUME NEW q \in Seq(SeatEvents), NEW e \in SeatEvents
  PROVE  LET r == Append(q, e)
         IN  /\ r \in Seq(SeatEvents) /\ r # <<>> /\ Len(r) = Len(q) + 1
             /\ \A i \in 1 .. Len(q) : r[i] = q[i]
             /\ r[Len(r)] = e
BY AppendProperties

\* What it is without its first.
LEMMA InboxTaken ==
  ASSUME NEW q \in Seq(SeatEvents), q # <<>>
  PROVE  /\ Len(q) \in Nat \ {0} /\ Head(q) = q[1] /\ q[1] \in SeatEvents
         /\ Tail(q) \in Seq(SeatEvents) /\ Len(Tail(q)) = Len(q) - 1
         /\ \A i \in 1 .. Len(Tail(q)) : Tail(q)[i] = q[i + 1]
<1>1. Len(q) \in Nat \ {0}
  BY EmptySeq
<1>2. q[1] \in SeatEvents
  BY <1>1, ElementOfSeq
<1>3. Head(q) = q[1]
  OBVIOUS
<1> QED
  BY <1>1, <1>2, <1>3, HeadTailProperties

\* Types, as the proofs use them.
BoardFacts ==
  /\ changes \in Nat /\ newest \in Nat /\ newest <= changes /\ seat \in SeatStatuses
  /\ view.of \in Nat /\ view.of <= changes /\ view.at \in Nat /\ view.at <= changes
  /\ view.answerOf \in Nat /\ view.answerOf <= changes
  /\ view.lost \in Nat /\ view.lost <= newest
  /\ view.inbox \in Seq(SeatEvents) /\ Len(view.inbox) \in Nat
  /\ \A e \in unsent \cup Inbox : e \in SeatEvents
  /\ \A e \in SeatEvents : e.n \in Nat \ {0} /\ e.status \in SeatStatuses
  /\ (view.inbox = <<>>) <=> (Len(view.inbox) = 0)

\* They follow from BoardTypeOK.
LEMMA BoardFactsHold ==
  ASSUME BoardTypeOK
  PROVE  BoardFacts
<1>1. view.inbox \in Seq(SeatEvents)
  BY DEF BoardTypeOK, Views
<1>2. Len(view.inbox) \in Nat
  BY <1>1, LenProperties
<1>3. \A i \in 1 .. Len(view.inbox) : view.inbox[i] \in SeatEvents
  BY <1>1, ElementOfSeq
<1>4. (view.inbox = <<>>) <=> (Len(view.inbox) = 0)
  BY <1>1, EmptySeq
<1>5. changes \in Nat /\ newest \in Nat /\ newest <= changes /\ seat \in SeatStatuses
  BY BoardAssumption DEF BoardTypeOK
<1>6. /\ view.of \in Nat /\ view.of <= changes /\ view.at \in Nat /\ view.at <= changes
      /\ view.answerOf \in Nat /\ view.answerOf <= changes
      /\ view.lost \in Nat /\ view.lost <= newest
  BY BoardAssumption DEF BoardTypeOK, Views
<1>7. \A e \in SeatEvents : e.n \in Nat \ {0} /\ e.status \in SeatStatuses
  BY BoardAssumption DEF SeatEvents
<1>8. \A e \in unsent \cup Inbox : e \in SeatEvents
  BY <1>3 DEF BoardTypeOK, Inbox
<1> QED
  BY <1>1, <1>2, <1>4, <1>5, <1>6, <1>7, <1>8 DEF BoardFacts

\* The event is emitted after a newer one.
Late(e) == e.n < newest

\* What most steps leave alone: the server, the query, the data shown, the live statuses,
\* the connection.
SameServer == UNCHANGED <<seat, changes, unsent, newest>>

SameQuery ==
  view'.fetch = view.fetch /\ view'.answer = view.answer /\ view'.answerOf = view.answerOf

SameData ==
  /\ view'.on = view.on /\ view'.cached = view.cached
  /\ view'.base = view.base /\ view'.of = view.of

SameLive == view'.at = view.at /\ view'.over = view.over

SameWire ==
  view'.room = view.room /\ view'.inbox = view.inbox /\ view'.swapped = view.swapped

\* What booking.gateway.ts emitting an event changes, field by field.
EmitDone(e) ==
  /\ e \in unsent /\ unsent' = unsent \ {e} /\ newest' = Later(newest, e.n)
  /\ view'.swapped <=> Late(e)
  /\ \/ /\ view.room = TRUE /\ view'.inbox = Append(view.inbox, e)
        /\ view'.lost = view.lost
        /\ view'.gap <=> view.gap \/ Late(e)
     \/ /\ view.room = FALSE /\ view'.inbox = view.inbox
        /\ view'.lost = Later(view.lost, e.n)
        /\ view'.gap <=> view.gap \/ Late(e) \/ Shown
  /\ SameQuery /\ SameData /\ SameLive /\ view'.chosen = view.chosen
  /\ view'.room = view.room
  /\ view' \in Views /\ UNCHANGED <<seat, changes, leaves>>

\* Booking.gateway.ts emitting an event does that.
LEMMA EmitEffect ==
  ASSUME BoardTypeOK, NEW e \in unsent, Emit(e)
  PROVE  EmitDone(e)
<1>1. /\ view \in Views /\ e \in SeatEvents /\ view.room \in BOOLEAN
      /\ view.inbox \in Seq(SeatEvents) /\ view.lost \in 0 .. MaxChanges
  BY DEF BoardTypeOK, Views
<1>2. e.n \in 0 .. MaxChanges /\ Append(view.inbox, e) \in Seq(SeatEvents)
  BY <1>1, InboxAppended, BoardAssumption DEF SeatEvents
<1>3. PICK sw \in BOOLEAN, gp \in BOOLEAN, q \in Seq(SeatEvents), l \in 0 .. MaxChanges :
        /\ view' = [view EXCEPT !.swapped = sw, !.inbox = q, !.lost = l, !.gap = gp]
        /\ q = IF view.room THEN Append(view.inbox, e) ELSE view.inbox
        /\ l = IF view.room THEN view.lost ELSE Later(view.lost, e.n)
        /\ sw <=> Late(e)
        /\ gp <=> view.gap \/ Late(e) \/ (Shown /\ ~view.room)
  <2>1. (IF view.room THEN Append(view.inbox, e) ELSE view.inbox) \in Seq(SeatEvents)
    BY <1>1, <1>2
  <2>2. (IF view.room THEN view.lost ELSE Later(view.lost, e.n)) \in 0 .. MaxChanges
    BY <1>1, <1>2 DEF Later
  <2>3. view' = [view EXCEPT !.swapped = e.n < newest,
                   !.inbox = IF view.room THEN Append(view.inbox, e) ELSE view.inbox,
                   !.lost = IF view.room THEN view.lost ELSE Later(view.lost, e.n),
                   !.gap = view.gap \/ e.n < newest \/ (Shown /\ ~view.room)]
    BY DEF Emit
  <2>4. PICK sw \in BOOLEAN : sw = (e.n < newest) /\ (sw <=> Late(e))
    <3>1. Late(e) \in BOOLEAN /\ Late(e) = (e.n < newest)
      BY DEF Late
    <3>2. PICK sw \in BOOLEAN : sw = Late(e) /\ (sw <=> Late(e))
      BY <3>1
    <3> QED
      BY <3>1, <3>2
  <2>5. PICK gp \in BOOLEAN :
          /\ gp = (view.gap \/ e.n < newest \/ (Shown /\ ~view.room))
          /\ gp <=> view.gap \/ Late(e) \/ (Shown /\ ~view.room)
    BY DEF Late
  <2> QED
    BY <2>1, <2>2, <2>3, <2>4, <2>5
<1>4. /\ view' \in Views /\ view'.swapped = sw /\ view'.inbox = q /\ view'.lost = l
      /\ view'.gap = gp /\ view'.chosen = view.chosen /\ view'.room = view.room
      /\ SameQuery /\ SameData /\ SameLive
  BY <1>1, <1>3 DEF Views, SameQuery, SameData, SameLive
<1>5. /\ unsent' = unsent \ {e} /\ newest' = Later(newest, e.n)
      /\ UNCHANGED <<seat, changes, leaves>>
  BY DEF Emit
<1>6. CASE view.room = TRUE
  <2>1. /\ view'.inbox = Append(view.inbox, e) /\ view'.lost = view.lost
        /\ view'.gap <=> view.gap \/ Late(e)
    BY <1>3, <1>4, <1>6
  <2> QED
    BY <1>3, <1>4, <1>5, <1>6, <2>1 DEF EmitDone
<1>7. CASE view.room = FALSE
  <2>1. /\ view'.inbox = view.inbox /\ view'.lost = Later(view.lost, e.n)
        /\ view'.gap <=> view.gap \/ Late(e) \/ Shown
    BY <1>3, <1>4, <1>7
  <2> QED
    BY <1>3, <1>4, <1>5, <1>7, <2>1 DEF EmitDone
<1> QED
  BY <1>1, <1>6, <1>7

\* What handleJoinShow changes, field by field.
JoinDone ==
  /\ view'.room = TRUE /\ view'.inbox = view.inbox /\ view'.swapped = view.swapped
  /\ SameQuery /\ SameData /\ SameLive /\ view'.chosen = view.chosen
  /\ view'.lost = view.lost /\ view'.gap = view.gap
  /\ view' \in Views /\ SameServer /\ leaves' = leaves

\* HandleJoinShow does that.
LEMMA JoinEffect ==
  ASSUME BoardTypeOK, Join
  PROVE  JoinDone
<1>1. view \in Views /\ view' = [view EXCEPT !.joining = FALSE, !.room = TRUE]
  BY DEF BoardTypeOK, Join
<1> QED
  BY <1>1 DEF Join, JoinDone, Views, SameServer, SameQuery, SameData, SameLive

\* What opening the client with nothing to show changes, field by field.
OpenDone ==
  /\ ~Shown /\ ~Shown'
  /\ view'.cached = FALSE /\ view'.of = 0 /\ view'.at = 0 /\ view'.over = view.over
  /\ view'.fetch = "read" => view.fetch = "read"
  /\ view'.answer = view.answer /\ view'.answerOf = view.answerOf
  /\ SameWire /\ view'.chosen = view.chosen
  /\ view'.lost = view.lost /\ view'.gap = view.gap
  /\ view' \in Views /\ SameServer /\ leaves' = leaves

\* Opening it does that.
LEMMA OpenEffect ==
  ASSUME BoardTypeOK, Open
  PROVE  OpenDone
<1>1. view \in Views /\ 0 \in 0 .. MaxChanges /\ "AVAILABLE" \in SeatStatuses
  BY BoardAssumption DEF BoardTypeOK, SeatStatuses
<1>2. PICK f \in {"none", "asked", "read"}, j \in BOOLEAN :
        /\ view' = [view EXCEPT !.on = TRUE, !.cached = FALSE, !.base = "AVAILABLE",
                                !.of = 0, !.at = 0, !.fetch = f, !.joining = j]
        /\ f = "read" => view.fetch = "read"
  <2>1. PICK socket \in BOOLEAN :
          view' = [view EXCEPT !.on = TRUE, !.cached = FALSE, !.base = "AVAILABLE",
                     !.of = 0, !.at = 0,
                     !.fetch = IF view.fetch = "none" THEN "asked" ELSE view.fetch,
                     !.joining = view.joining \/ (view.kind = "phone" /\ socket)]
    BY DEF Open
  <2>2. view.fetch \in {"none", "asked", "read"}
    BY <1>1 DEF Views
  <2> QED
    BY <2>1, <2>2
<1>3. /\ view' \in Views /\ view'.cached = FALSE /\ view'.of = 0 /\ view'.at = 0
      /\ view'.over = view.over /\ view'.fetch = f /\ view'.answer = view.answer
      /\ view'.answerOf = view.answerOf /\ view'.chosen = view.chosen
      /\ view'.lost = view.lost /\ view'.gap = view.gap /\ SameWire
  BY <1>1, <1>2 DEF Views, SameWire
<1>4. ~Shown /\ SameServer /\ leaves' = leaves
  BY DEF Open, Shown, SameServer
<1>5. ~Shown'
  BY <1>3 DEF Shown
<1> QED
  BY <1>2, <1>3, <1>4, <1>5 DEF OpenDone

\* What opening the page on the data of its query changes, field by field.
OpenCachedDone ==
  /\ ~Shown /\ Shown'
  /\ view.cached /\ view'.base = view.base /\ view'.of = view.of /\ SameLive
  /\ view'.fetch = "read" => view.fetch = "read"
  /\ view'.answer = view.answer /\ view'.answerOf = view.answerOf
  /\ SameWire /\ view'.chosen = view.chosen
  /\ view'.lost = view.lost
  /\ view'.gap <=> GapFrom(view.of)
  /\ view' \in Views /\ SameServer /\ leaves' = leaves

\* Opening it does that.
LEMMA OpenCachedEffect ==
  ASSUME BoardTypeOK, OpenCached
  PROVE  OpenCachedDone
<1>1. view \in Views /\ GapFrom(view.of) \in BOOLEAN
  BY DEF BoardTypeOK, GapFrom
<1>2. PICK f \in {"none", "asked", "read"}, g \in BOOLEAN :
        /\ view' = [view EXCEPT !.on = TRUE, !.joining = TRUE, !.fetch = f, !.gap = g]
        /\ f = "read" => view.fetch = "read"
        /\ g <=> GapFrom(view.of)
  <2>1. PICK stale \in BOOLEAN :
          view' = [view EXCEPT !.on = TRUE, !.joining = TRUE,
                     !.fetch = IF stale /\ view.fetch = "none" THEN "asked" ELSE view.fetch,
                     !.gap = GapFrom(view.of)]
    BY DEF OpenCached
  <2>2. view.fetch \in {"none", "asked", "read"}
    BY <1>1 DEF Views
  <2> QED
    BY <1>1, <2>1, <2>2
<1>3. /\ view' \in Views /\ view'.on = TRUE /\ view'.cached = view.cached
      /\ view'.base = view.base /\ view'.of = view.of /\ view'.fetch = f
      /\ view'.answer = view.answer /\ view'.answerOf = view.answerOf
      /\ view'.chosen = view.chosen /\ view'.lost = view.lost /\ view'.gap = g
      /\ SameWire /\ SameLive
  BY <1>1, <1>2 DEF Views, SameWire, SameLive
<1>4. ~Shown /\ view.cached /\ SameServer /\ leaves' = leaves
  BY DEF OpenCached, Shown, SameServer
<1>5. Shown'
  BY <1>3, <1>4 DEF Shown
<1> QED
  BY <1>2, <1>3, <1>4, <1>5 DEF OpenCachedDone

\* What asking for the seats, and the answer of the server, change, field by field.
AskedDone ==
  /\ \/ view'.fetch = "asked"
     \/ view'.fetch = "read" /\ view'.answer = seat /\ view'.answerOf = changes
  /\ view'.answerOf <= changes
  /\ SameData /\ SameLive /\ SameWire /\ view'.chosen = view.chosen
  /\ view'.lost = view.lost /\ view'.gap = view.gap
  /\ view' \in Views /\ SameServer /\ leaves' = leaves

\* They do that.
LEMMA AskedEffect ==
  ASSUME BoardTypeOK, Refetch \/ ReadSeats
  PROVE  AskedDone
<1>1. /\ view \in Views /\ seat \in SeatStatuses /\ changes \in 0 .. MaxChanges
      /\ view.answerOf <= changes
  BY DEF BoardTypeOK
<1>2. CASE Refetch
  <2>1. view' = [view EXCEPT !.fetch = "asked"] /\ SameServer /\ leaves' = leaves
    BY <1>2 DEF Refetch, SameServer
  <2>2. /\ view' \in Views /\ view'.fetch = "asked" /\ view'.answerOf = view.answerOf
        /\ view'.chosen = view.chosen /\ view'.lost = view.lost /\ view'.gap = view.gap
        /\ SameData /\ SameLive /\ SameWire
    BY <1>1, <2>1 DEF Views, SameData, SameLive, SameWire
  <2> QED
    BY <1>1, <2>1, <2>2 DEF AskedDone
<1>3. CASE ReadSeats
  <2>1. /\ view' = [view EXCEPT !.fetch = "read", !.answer = seat, !.answerOf = changes]
        /\ SameServer /\ leaves' = leaves
    BY <1>3 DEF ReadSeats, SameServer
  <2>2. /\ view' \in Views /\ view'.fetch = "read"
        /\ view'.answer = seat /\ view'.answerOf = changes
        /\ view'.chosen = view.chosen /\ view'.lost = view.lost /\ view'.gap = view.gap
        /\ SameData /\ SameLive /\ SameWire
    BY <1>1, <2>1 DEF Views, SameData, SameLive, SameWire
  <2>3. view'.answerOf <= changes
    BY <1>1, <2>2, BoardAssumption
  <2> QED
    BY <2>1, <2>2, <2>3 DEF AskedDone
<1> QED
  BY <1>2, <1>3

\* The client has been opened and waits for its first snapshot.
First == view.on /\ ~view.cached

\* What the arrival of the answer changes, field by field.
ShowSeatsDone ==
  /\ view.fetch = "read" /\ view'.fetch = "none"
  /\ view'.on = view.on /\ view'.cached = TRUE
  /\ view'.base = view.answer /\ view'.of = view.answerOf
  /\ view'.at = IF view.over = "AVAILABLE" THEN Later(view.at, view.answerOf) ELSE view.at
  /\ view'.answerOf = 0 /\ view'.over = view.over
  /\ SameWire /\ view'.chosen = view.chosen /\ view'.lost = view.lost
  /\ \/ First /\ (view'.gap <=> GapFrom(view.answerOf))
     \/ ~First /\ view'.gap = view.gap
  /\ view' \in Views /\ SameServer /\ leaves' = leaves

\* It does that.
LEMMA ShowSeatsEffect ==
  ASSUME BoardTypeOK, ShowSeats
  PROVE  ShowSeatsDone
<1>1. /\ view \in Views /\ 0 \in 0 .. MaxChanges /\ "AVAILABLE" \in SeatStatuses
      /\ view.gap \in BOOLEAN /\ view.answer \in SeatStatuses
      /\ view.answerOf \in 0 .. MaxChanges /\ view.at \in 0 .. MaxChanges
  BY BoardAssumption DEF BoardTypeOK, Views, SeatStatuses
<1>2. PICK a \in 0 .. MaxChanges, j \in BOOLEAN, g \in BOOLEAN :
        /\ view' = [view EXCEPT !.fetch = "none", !.answer = "AVAILABLE", !.answerOf = 0,
                                !.cached = TRUE, !.base = view.answer, !.of = view.answerOf,
                                !.at = a, !.joining = j, !.gap = g]
        /\ a = IF view.over = "AVAILABLE" THEN Later(view.at, view.answerOf) ELSE view.at
        /\ \/ First /\ (g <=> GapFrom(view.answerOf))
           \/ ~First /\ g = view.gap
  <2>1. view' = [view EXCEPT !.fetch = "none", !.answer = "AVAILABLE", !.answerOf = 0,
                   !.cached = TRUE, !.base = view.answer, !.of = view.answerOf,
                   !.at = IF view.over = "AVAILABLE" THEN Later(view.at, view.answerOf)
                                                     ELSE view.at,
                   !.joining = view.joining \/ (First /\ view.kind = "page"),
                   !.gap = IF First THEN GapFrom(view.answerOf) ELSE view.gap]
    BY DEF ShowSeats, First
  <2>2. (IF view.over = "AVAILABLE" THEN Later(view.at, view.answerOf) ELSE view.at)
          \in 0 .. MaxChanges
    BY <1>1 DEF Later
  <2>3. PICK g \in BOOLEAN : /\ g = IF First THEN GapFrom(view.answerOf) ELSE view.gap
                             /\ \/ First /\ (g <=> GapFrom(view.answerOf))
                                \/ ~First /\ g = view.gap
    BY <1>1 DEF GapFrom
  <2>4. PICK j \in BOOLEAN : j = (view.joining \/ (First /\ view.kind = "page"))
    OBVIOUS
  <2> QED
    BY <2>1, <2>2, <2>3, <2>4
<1>3. /\ view' \in Views /\ view'.fetch = "none" /\ view'.on = view.on
      /\ view'.cached = TRUE /\ view'.base = view.answer /\ view'.of = view.answerOf
      /\ view'.at = a /\ view'.answerOf = 0 /\ view'.over = view.over
      /\ view'.chosen = view.chosen /\ view'.lost = view.lost /\ view'.gap = g /\ SameWire
  BY <1>1, <1>2 DEF Views, SameWire
<1>4. view.fetch = "read" /\ SameServer /\ leaves' = leaves
  BY DEF ShowSeats, SameServer
<1> QED
  BY <1>2, <1>3, <1>4 DEF ShowSeatsDone

\* The choice survives the event.
StaysChosen(w, e) ==
  /\ w.chosen
  /\ \/ e.status = "AVAILABLE"
     \/ e.status = "BOOKED" /\ w.kind = "page"

\* What an event that arrives changes, field by field.
DeliverDone(e) ==
  /\ view.inbox # <<>> /\ e = view.inbox[1] /\ view'.inbox = Tail(view.inbox)
  /\ \/ /\ Shown /\ view'.at = e.n /\ view'.over = e.status /\ view'.lost = view.lost
        /\ view'.chosen => view.chosen /\ e.status # "LOCKED"
     \/ /\ ~Shown /\ SameLive /\ view'.lost = Later(view.lost, e.n)
        /\ view'.chosen = view.chosen
  /\ SameQuery /\ SameData /\ view'.room = view.room /\ view'.swapped = view.swapped
  /\ view'.gap = view.gap
  /\ view' \in Views /\ SameServer /\ leaves' = leaves

\* It does that.
LEMMA DeliverEffect ==
  ASSUME BoardTypeOK, Deliver
  PROVE  DeliverDone(view.inbox[1])
<1>1. view \in Views /\ view.inbox \in Seq(SeatEvents) /\ view.inbox # <<>>
  BY DEF BoardTypeOK, Views, Deliver
<1>2. PICK e : e = Head(view.inbox)
  OBVIOUS
<1>3. PICK q : q = Tail(view.inbox)
  OBVIOUS
<1>4. e = view.inbox[1] /\ e \in SeatEvents /\ q \in Seq(SeatEvents)
  BY <1>1, <1>2, <1>3, InboxTaken
<1>5. e.n \in 0 .. MaxChanges /\ e.status \in SeatStatuses
  BY <1>4, BoardAssumption DEF SeatEvents
<1>6. PICK v : v = [view EXCEPT !.inbox = q]
  OBVIOUS
<1>7. /\ view' = IF Shown THEN Applied(v, e) ELSE [v EXCEPT !.lost = Later(v.lost, e.n)]
      /\ SameServer /\ leaves' = leaves
  BY <1>2, <1>3, <1>6 DEF Deliver, SameServer
<1>8. /\ v \in Views /\ v.inbox = q /\ v.kind = view.kind /\ v.chosen = view.chosen
      /\ v.lost = view.lost /\ v.fetch = view.fetch /\ v.answer = view.answer
      /\ v.answerOf = view.answerOf /\ v.on = view.on /\ v.cached = view.cached
      /\ v.base = view.base /\ v.of = view.of /\ v.at = view.at /\ v.over = view.over
      /\ v.room = view.room /\ v.swapped = view.swapped /\ v.gap = view.gap
  BY <1>1, <1>4, <1>6 DEF Views
<1>9. CASE Shown
  <2>1. view' = [v EXCEPT !.at = e.n, !.over = e.status, !.chosen = StaysChosen(v, e)]
    BY <1>7, <1>9 DEF Applied, StaysChosen
  <2>2. PICK c \in BOOLEAN : /\ view' = [v EXCEPT !.at = e.n, !.over = e.status, !.chosen = c]
                             /\ c <=> StaysChosen(v, e)
    BY <2>1 DEF StaysChosen
  <2>3. /\ view' \in Views /\ view'.inbox = q /\ view'.chosen = c
        /\ view'.lost = view.lost /\ view'.at = e.n /\ view'.over = e.status
        /\ view'.room = view.room /\ view'.swapped = view.swapped /\ view'.gap = view.gap
        /\ SameQuery /\ SameData
    BY <1>5, <1>8, <2>2 DEF Views, SameQuery, SameData
  <2>4. view'.chosen => view.chosen /\ e.status # "LOCKED"
    BY <1>8, <2>2, <2>3 DEF StaysChosen
  <2> QED
    BY <1>1, <1>3, <1>4, <1>7, <1>9, <2>3, <2>4 DEF DeliverDone
<1>10. CASE ~Shown
  <2>1. PICK l \in 0 .. MaxChanges : view' = [v EXCEPT !.lost = l] /\ l = Later(view.lost, e.n)
    <3>1. Later(view.lost, e.n) \in 0 .. MaxChanges
      BY <1>1, <1>5 DEF Later, Views
    <3> QED
      BY <1>7, <1>8, <1>10, <3>1
  <2>2. /\ view' \in Views /\ view'.inbox = q /\ view'.chosen = view.chosen
        /\ view'.lost = l /\ view'.room = view.room /\ view'.swapped = view.swapped
        /\ view'.gap = view.gap /\ SameQuery /\ SameData /\ SameLive
    BY <1>8, <2>1 DEF Views, SameQuery, SameData, SameLive
  <2> QED
    BY <1>1, <1>3, <1>4, <1>7, <1>10, <2>1, <2>2 DEF DeliverDone
<1> QED
  BY <1>9, <1>10

\* What choosing a seat, and a booking refused, change, field by field.
ChoosingDone ==
  /\ Shown
  /\ view'.chosen => view.over = "AVAILABLE" /\ view.base = "AVAILABLE"
  /\ SameQuery /\ SameData /\ SameLive /\ SameWire
  /\ view'.lost = view.lost /\ view'.gap = view.gap
  /\ view' \in Views /\ SameServer /\ leaves' = leaves

\* They do that.
LEMMA ChoosingEffect ==
  ASSUME BoardTypeOK, Select \/ Refused
  PROVE  ChoosingDone
<1>1. view \in Views /\ Shown /\ SameServer /\ leaves' = leaves
  BY DEF BoardTypeOK, Select, Refused, SameServer
<1>2. PICK c \in BOOLEAN : /\ view' = [view EXCEPT !.chosen = c]
                           /\ c => ShownFree
  BY <1>1 DEF Select, Refused
<1>3. /\ view' \in Views /\ view'.chosen = c /\ view'.lost = view.lost
      /\ view'.gap = view.gap /\ SameQuery /\ SameData /\ SameLive /\ SameWire
  BY <1>1, <1>2 DEF Views, SameQuery, SameData, SameLive, SameWire
<1>4. view'.chosen => view.over = "AVAILABLE" /\ view.base = "AVAILABLE"
  BY <1>2, <1>3 DEF ShownFree
<1> QED
  BY <1>1, <1>3, <1>4 DEF ChoosingDone

\* What leaving the client changes, field by field.
LeaveDone ==
  /\ ~Shown' /\ view'.over = "AVAILABLE" /\ view'.chosen = FALSE /\ view'.at = view'.of
  /\ view'.cached => view.cached /\ view'.base = view.base
  /\ view'.of = view.of \/ view'.of = 0
  /\ \/ SameQuery
     \/ view'.fetch = "none" /\ view'.answerOf = 0
  /\ view'.fetch = "read" => view'.of = view.of
  /\ view'.cached => view'.of = view.of
  /\ SameWire /\ view'.lost = newest /\ view'.gap = view.gap
  /\ view' \in Views /\ SameServer /\ leaves' \in 0 .. MaxLeaves

\* It does that.
LEMMA LeaveEffect ==
  ASSUME BoardTypeOK, Leave
  PROVE  LeaveDone
<1>1. /\ view \in Views /\ leaves' \in 0 .. MaxLeaves /\ SameServer
  BY BoardAssumption DEF BoardTypeOK, Leave, Cut, SameServer
<1>2. /\ 0 \in 0 .. MaxChanges /\ "AVAILABLE" \in SeatStatuses
      /\ newest \in 0 .. MaxChanges /\ view.of \in 0 .. MaxChanges
  BY BoardAssumption, <1>1 DEF BoardTypeOK, Views, SeatStatuses
<1>3. PICK left : left = [view EXCEPT !.on = FALSE, !.over = "AVAILABLE", !.chosen = FALSE,
                                     !.at = view.of, !.lost = newest]
  OBVIOUS
<1>4. view' = IF view.kind = "phone"
              THEN [left EXCEPT !.fetch = "none", !.answer = "AVAILABLE", !.answerOf = 0,
                                !.cached = FALSE, !.base = "AVAILABLE", !.of = 0, !.at = 0]
              ELSE left
  BY <1>3 DEF Leave
<1>5. /\ left \in Views /\ left.on = FALSE /\ left.over = "AVAILABLE"
      /\ left.chosen = FALSE /\ left.at = view.of /\ left.lost = newest
      /\ left.fetch = view.fetch /\ left.answer = view.answer
      /\ left.answerOf = view.answerOf /\ left.cached = view.cached
      /\ left.base = view.base /\ left.of = view.of /\ left.room = view.room
      /\ left.inbox = view.inbox /\ left.swapped = view.swapped /\ left.gap = view.gap
  BY <1>1, <1>2, <1>3 DEF Views
<1>6. CASE view.kind = "phone"
  <2>1. /\ view' \in Views /\ view'.on = FALSE /\ view'.over = "AVAILABLE"
        /\ view'.chosen = FALSE /\ view'.at = 0 /\ view'.of = 0 /\ view'.cached = FALSE
        /\ view'.fetch = "none" /\ view'.answerOf = 0 /\ view'.lost = newest
        /\ view'.gap = view.gap /\ SameWire
    BY <1>2, <1>4, <1>5, <1>6 DEF Views, SameWire
  <2> QED
    BY <1>1, <2>1 DEF LeaveDone, Shown
<1>7. CASE view.kind # "phone"
  <2>1. view' = left
    BY <1>4, <1>7
  <2> QED
    BY <1>1, <1>5, <2>1 DEF LeaveDone, Shown, SameWire, SameQuery
<1> QED
  BY <1>6, <1>7

\* What losing the socket changes, field by field.
DisconnectDone ==
  /\ view'.room = FALSE /\ view'.inbox = <<>> /\ view'.swapped = view.swapped
  /\ \/ view.inbox = <<>> /\ view'.lost = view.lost /\ view'.gap = view.gap
     \/ /\ view.inbox # <<>> /\ view'.lost = newest
        /\ view'.gap <=> view.gap \/ Shown
  /\ SameQuery /\ SameData /\ SameLive /\ view'.chosen = view.chosen
  /\ view' \in Views /\ SameServer /\ leaves' \in 0 .. MaxLeaves

\* It does that.
LEMMA DisconnectEffect ==
  ASSUME BoardTypeOK, Disconnect
  PROVE  DisconnectDone
<1>1. /\ view \in Views /\ leaves' \in 0 .. MaxLeaves /\ <<>> \in Seq(SeatEvents)
      /\ SameServer /\ view.lost \in 0 .. MaxChanges /\ newest \in 0 .. MaxChanges
      /\ view.gap \in BOOLEAN
  BY BoardAssumption DEF BoardTypeOK, Disconnect, Cut, SameServer, Views
<1>2. PICK l \in 0 .. MaxChanges, g \in BOOLEAN :
        /\ view' = [view EXCEPT !.room = FALSE, !.inbox = <<>>, !.lost = l, !.gap = g]
        /\ \/ view.inbox = <<>> /\ l = view.lost /\ g = view.gap
           \/ view.inbox # <<>> /\ l = newest /\ (g <=> view.gap \/ Shown)
  <2>1. view' = [view EXCEPT !.room = FALSE, !.inbox = <<>>,
                   !.lost = IF view.inbox = <<>> THEN view.lost ELSE newest,
                   !.gap = view.gap \/ (Shown /\ view.inbox # <<>>)]
    BY DEF Disconnect
  <2>2. CASE view.inbox = <<>>
    <3>1. (view.gap \/ (Shown /\ view.inbox # <<>>)) = view.gap
      BY <1>1, <2>2
    <3> QED
      BY <1>1, <2>1, <2>2, <3>1
  <2>3. CASE view.inbox # <<>>
    <3>1. PICK g \in BOOLEAN : /\ g = (view.gap \/ (Shown /\ view.inbox # <<>>))
                               /\ g <=> view.gap \/ Shown
      BY <2>3
    <3> QED
      BY <1>1, <2>1, <2>3, <3>1
  <2> QED
    BY <2>2, <2>3
<1>3. /\ view' \in Views /\ view'.room = FALSE /\ view'.inbox = <<>>
      /\ view'.swapped = view.swapped /\ view'.chosen = view.chosen
      /\ view'.lost = l /\ view'.gap = g /\ SameQuery /\ SameData /\ SameLive
  BY <1>1, <1>2 DEF Views, SameQuery, SameData, SameLive
<1> QED
  BY <1>1, <1>2, <1>3 DEF DisconnectDone
-----------------------------------------------------------------------------
(* Types.                                                                  *)

\* The variables have their types at the beginning.
LEMMA BoardTypeBegins == BoardInit => BoardTypeOK
<1> SUFFICES ASSUME BoardInit
             PROVE  BoardTypeOK
  OBVIOUS
<1>1. /\ changes = 0 /\ unsent = {} /\ newest = 0 /\ leaves = 0
      /\ seat \in SeatStatuses
  BY DEF BoardInit, SeatStatuses
<1>2. PICK kind \in {"page", "phone"} : view = Unopened(kind)
  BY DEF BoardInit
<1>3. /\ view \in Views /\ view.of = 0 /\ view.at = 0 /\ view.inbox = <<>>
      /\ view.answerOf = 0 /\ view.lost = 0
  <2>1. <<>> \in Seq(SeatEvents) /\ 0 \in 0 .. MaxChanges /\ "AVAILABLE" \in SeatStatuses
    BY BoardAssumption DEF SeatStatuses
  <2> QED
    BY <1>2, <2>1 DEF Unopened, Views
<1>4. Cardinality({}) = 0 /\ Len(<<>>) = 0
  BY FS_EmptySet, EmptySeq
<1> QED
  BY <1>1, <1>3, <1>4, BoardAssumption DEF BoardTypeOK

\* The sizes BoardTypeOK adds are numbers.
LEMMA BoardSizes ==
  ASSUME BoardTypeOK, IsFiniteSet(unsent)
  PROVE  /\ Len(view.inbox) \in Nat /\ Cardinality(unsent) \in Nat
         /\ Len(<<>>) = 0 /\ Len(view.inbox) + Cardinality(unsent) <= changes
BY BoardFactsHold, FS_CardinalityType, EmptySeq DEF BoardFacts, BoardTypeOK

\* The types after a change of the seat: its event is one more to be emitted.
LEMMA ChangeKeepsBoardType ==
  ASSUME BoardTypeOK, IsFiniteSet(unsent), NEW to \in SeatStatuses, ChangeSeat(to)
  PROVE  BoardTypeOK'
<1>0. PICK e : e = [n |-> changes + 1, status |-> to]
  OBVIOUS
<1>1. /\ changes < MaxChanges /\ seat' = to /\ changes' = changes + 1
      /\ unsent' = unsent \cup {e} /\ UNCHANGED <<newest, view, leaves>>
  BY <1>0 DEF ChangeSeat
<1>2. changes + 1 \in 1 .. MaxChanges /\ changes \in Nat /\ newest \in 0 .. changes + 1
  BY <1>1, BoardAssumption DEF BoardTypeOK
<1>3. e \in SeatEvents
  BY <1>0, <1>2 DEF SeatEvents
<1>4. Cardinality(unsent') <= Cardinality(unsent) + 1 /\ Cardinality(unsent') \in Nat
  <2>1. IsFiniteSet(unsent \cup {e}) /\ (e \notin unsent =>
          Cardinality(unsent \cup {e}) = Cardinality(unsent) + 1)
    BY FS_AddElement
  <2>2. Cardinality(unsent) \in Nat /\ Cardinality(unsent \cup {e}) \in Nat
    BY <2>1, FS_CardinalityType
  <2>3. CASE e \in unsent
    <3>1. unsent' = unsent
      BY <1>1, <2>3
    <3> QED
      BY <3>1, <2>2
  <2>4. CASE e \notin unsent
    <3>1. Cardinality(unsent') = Cardinality(unsent) + 1
      BY <1>1, <2>1, <2>4
    <3> QED
      BY <3>1, <2>2
  <2> QED
    BY <2>3, <2>4
<1>5. /\ Len(view.inbox) \in Nat /\ Cardinality(unsent) \in Nat
      /\ Len(view.inbox) + Cardinality(unsent) <= changes
  BY BoardSizes
<1>6. unsent' \subseteq SeatEvents /\ view' \in Views
  BY <1>1, <1>3 DEF BoardTypeOK
<1>7. /\ view'.of <= changes' /\ view'.at <= changes' /\ view'.answerOf <= changes'
      /\ view'.lost <= newest' /\ newest' \in 0 .. changes'
  BY <1>1, <1>2, BoardFactsHold DEF BoardFacts
<1>8. Len(view'.inbox) + Cardinality(unsent') <= changes'
  BY <1>1, <1>2, <1>4, <1>5
<1>9. seat' \in SeatStatuses /\ changes' \in 0 .. MaxChanges /\ leaves' \in 0 .. MaxLeaves
  BY <1>1, <1>2, BoardAssumption DEF BoardTypeOK
<1> QED
  BY <1>6, <1>7, <1>8, <1>9 DEF BoardTypeOK

\* The types after an emission: an event moves from its handler to the connection at
\* most.
LEMMA EmitKeepsBoardType ==
  ASSUME BoardTypeOK, NEW h, EventsKept(h), NEW e \in unsent, Emit(e)
  PROVE  BoardTypeOK'
<1>1. EmitDone(e) /\ BoardFacts
  BY EmitEffect, BoardFactsHold
<1>2. IsFiniteSet(unsent) /\ e \in SeatEvents /\ e.n <= changes /\ e.n \in Nat
  BY <1>1 DEF EventsKept, BoardFacts
<1>3. Cardinality(unsent') = Cardinality(unsent) - 1
  BY <1>1, <1>2, FS_RemoveElement DEF EmitDone
<1>4. /\ Cardinality(unsent) \in Nat /\ Len(view.inbox) \in Nat
      /\ Len(view.inbox) + Cardinality(unsent) <= changes
  BY <1>2, BoardSizes
<1>5. Len(view'.inbox) = Len(view.inbox) + 1 \/ Len(view'.inbox) = Len(view.inbox)
  BY <1>1, <1>2, InboxAppended DEF EmitDone, BoardFacts
<1>6. Len(view'.inbox) + Cardinality(unsent') <= changes'
  <2>1. changes' = changes /\ changes \in Nat
    BY <1>1 DEF EmitDone, BoardFacts
  <2> QED
    BY <1>3, <1>4, <1>5, <2>1
<1>7. newest' \in 0 .. changes' /\ newest' >= newest /\ newest' >= e.n
  BY <1>1, <1>2 DEF EmitDone, BoardFacts, Later
<1>8. /\ view' \in Views /\ view'.of <= changes' /\ view'.at <= changes'
      /\ view'.answerOf <= changes'
  BY <1>1 DEF EmitDone, BoardFacts, SameQuery, SameData, SameLive
<1>9. view'.lost <= newest'
  <2>1. view'.lost = view.lost \/ view'.lost = Later(view.lost, e.n)
    BY <1>1 DEF EmitDone
  <2> QED
    BY <1>1, <1>2, <1>7, <2>1 DEF Later, BoardFacts
<1>10. seat' \in SeatStatuses /\ changes' \in 0 .. MaxChanges /\ leaves' \in 0 .. MaxLeaves
       /\ unsent' \subseteq SeatEvents
  BY <1>1 DEF BoardTypeOK, EmitDone
<1> QED
  BY <1>6, <1>7, <1>8, <1>9, <1>10 DEF BoardTypeOK

\* Steps of the client leave the server alone: a view that is one keeps the types.
LEMMA ViewKeepsBoardType ==
  ASSUME BoardTypeOK, IsFiniteSet(unsent), SameServer, view' \in Views,
         view'.of <= changes, view'.at <= changes, view'.answerOf <= changes,
         view'.lost <= newest, leaves' \in 0 .. MaxLeaves,
         Len(view'.inbox) <= Len(view.inbox), Len(view'.inbox) \in Nat
  PROVE  BoardTypeOK'
<1>1. /\ Cardinality(unsent) \in Nat /\ Len(view.inbox) \in Nat /\ changes \in Nat
      /\ Len(view.inbox) + Cardinality(unsent) <= changes
  BY BoardSizes, BoardFactsHold DEF BoardFacts
<1>2. Len(view'.inbox) + Cardinality(unsent') <= changes'
  BY <1>1 DEF SameServer
<1> QED
  BY <1>2 DEF BoardTypeOK, SameServer

\* The types after a step of the client or of its connection.
LEMMA ClientKeepsBoardType ==
  ASSUME BoardTypeOK, NEW h, EventsKept(h),
         Join \/ Open \/ OpenCached \/ Refetch \/ ReadSeats \/ ShowSeats \/ Deliver \/ Select
           \/ Refused \/ Leave \/ Disconnect
  PROVE  BoardTypeOK'
<1>0. /\ IsFiniteSet(unsent) /\ Len(view.inbox) \in Nat /\ Len(<<>>) = 0
      /\ changes \in Nat /\ newest \in Nat /\ newest <= changes
      /\ view.of \in Nat /\ view.of <= changes /\ view.at \in Nat /\ view.at <= changes
      /\ view.answerOf \in Nat /\ view.answerOf <= changes
      /\ view.lost \in Nat /\ view.lost <= newest
      /\ leaves \in 0 .. MaxLeaves
  BY BoardSizes, BoardFactsHold DEF BoardFacts, BoardTypeOK, EventsKept
<1>1. CASE Join
  BY <1>0, <1>1, JoinEffect, ViewKeepsBoardType
     DEF JoinDone, SameQuery, SameData, SameLive
<1>2. CASE Open
  BY <1>0, <1>2, OpenEffect, ViewKeepsBoardType DEF OpenDone, SameWire
<1>3. CASE OpenCached
  BY <1>0, <1>3, OpenCachedEffect, ViewKeepsBoardType DEF OpenCachedDone, SameWire, SameLive
<1>4. CASE Refetch \/ ReadSeats
  BY <1>0, <1>4, AskedEffect, ViewKeepsBoardType
     DEF AskedDone, SameData, SameLive, SameWire
<1>5. CASE ShowSeats
  <2>1. ShowSeatsDone
    BY <1>5, ShowSeatsEffect
  <2>2. view'.at <= changes
    BY <1>0, <2>1 DEF ShowSeatsDone, Later
  <2> QED
    BY <1>0, <2>1, <2>2, ViewKeepsBoardType DEF ShowSeatsDone, SameWire
<1>6. CASE Deliver
  <2>0. PICK e : e = view.inbox[1]
    OBVIOUS
  <2>1. DeliverDone(e)
    BY <1>6, <2>0, DeliverEffect
  <2>2. view.inbox \in Seq(SeatEvents) /\ view.inbox # <<>>
    BY <2>1, BoardFactsHold DEF BoardFacts, DeliverDone
  <2>3. /\ Len(view.inbox) \in Nat \ {0} /\ Len(Tail(view.inbox)) = Len(view.inbox) - 1
        /\ e \in SeatEvents
    BY <2>0, <2>2, InboxTaken
  <2>4. e \in Inbox
    BY <2>0, <2>3 DEF Inbox
  <2>5. e.n <= changes /\ e.n <= newest /\ e.n \in Nat
    BY <2>3, <2>4, BoardFactsHold DEF EventsKept, BoardFacts
  <2>6. /\ view'.at <= changes /\ view'.lost <= newest /\ view' \in Views
    BY <1>0, <2>1, <2>5 DEF DeliverDone, SameLive, Later
  <2>7. Len(view'.inbox) = Len(view.inbox) - 1
    BY <2>1, <2>3 DEF DeliverDone
  <2>8. /\ leaves' \in 0 .. MaxLeaves /\ SameServer
        /\ view'.of <= changes /\ view'.answerOf <= changes
    BY <1>0, <2>1 DEF DeliverDone, SameData, SameQuery
  <2> QED
    BY <1>0, <2>3, <2>6, <2>7, <2>8, ViewKeepsBoardType
<1>7. CASE Select \/ Refused
  BY <1>0, <1>7, ChoosingEffect, ViewKeepsBoardType
     DEF ChoosingDone, SameQuery, SameData, SameLive, SameWire
<1>8. CASE Leave
  <2>1. LeaveDone
    BY <1>8, LeaveEffect
  <2>2. /\ view'.of <= changes /\ view'.at <= changes /\ view'.answerOf <= changes
        /\ view'.lost <= newest
    BY <1>0, <2>1 DEF LeaveDone, SameQuery
  <2> QED
    BY <1>0, <2>1, <2>2, ViewKeepsBoardType DEF LeaveDone, SameWire
<1>9. CASE Disconnect
  <2>1. DisconnectDone
    BY <1>9, DisconnectEffect
  <2>2. view'.lost <= newest /\ Len(view'.inbox) = 0
    BY <1>0, <2>1 DEF DisconnectDone
  <2>3. view'.of <= changes /\ view'.at <= changes /\ view'.answerOf <= changes
    BY <1>0, <2>1 DEF DisconnectDone, SameQuery, SameData, SameLive
  <2>4. view' \in Views /\ SameServer /\ leaves' \in 0 .. MaxLeaves
    BY <2>1 DEF DisconnectDone
  <2>5. Len(view'.inbox) <= Len(view.inbox) /\ Len(view'.inbox) \in Nat
    BY <1>0, <2>2
  <2> QED
    BY <1>0, <2>2, <2>3, <2>4, <2>5, ViewKeepsBoardType
<1> QED
  BY <1>1, <1>2, <1>3, <1>4, <1>5, <1>6, <1>7, <1>8, <1>9
-----------------------------------------------------------------------------
(* The steps keep the invariant.                                           *)

\* The events on their way when the connection is gone,
LEMMA InboxGone ==
  ASSUME view'.inbox = <<>>
  PROVE  Inbox' = {}
<1>1. Len(<<>>) = 0
  BY EmptySeq
<1> QED
  BY <1>1 DEF Inbox

\* when one is sent,
LEMMA InboxGrows ==
  ASSUME BoardTypeOK, NEW e \in SeatEvents, view'.inbox = Append(view.inbox, e)
  PROVE  /\ Inbox' = Inbox \cup {e} /\ view'.inbox # <<>>
         /\ Len(view.inbox) \in Nat /\ Len(view'.inbox) = Len(view.inbox) + 1
         /\ \A i \in 1 .. Len(view.inbox) : view'.inbox[i] = view.inbox[i]
         /\ view'.inbox[Len(view'.inbox)] = e
<1>1. view.inbox \in Seq(SeatEvents) /\ Len(view.inbox) \in Nat
  BY BoardFactsHold DEF BoardFacts
<1>2. /\ view'.inbox # <<>> /\ Len(view'.inbox) = Len(view.inbox) + 1
      /\ \A i \in 1 .. Len(view.inbox) : view'.inbox[i] = view.inbox[i]
      /\ view'.inbox[Len(view'.inbox)] = e
  BY <1>1, InboxAppended
<1>3. \A i \in 1 .. Len(view'.inbox) : view'.inbox[i] \in Inbox \cup {e}
  BY <1>1, <1>2 DEF Inbox
<1>4. \A i \in 1 .. Len(view.inbox) : view.inbox[i] \in Inbox'
  <2>1. ASSUME NEW i \in 1 .. Len(view.inbox)
        PROVE  view.inbox[i] \in Inbox'
    <3>1. i \in 1 .. Len(view'.inbox) /\ view'.inbox[i] = view.inbox[i]
      BY <1>1, <1>2
    <3> QED
      BY <3>1 DEF Inbox
  <2> QED
    BY <2>1
<1>5. e \in Inbox'
  <2>1. Len(view'.inbox) \in 1 .. Len(view'.inbox)
    BY <1>1, <1>2
  <2> QED
    BY <1>2, <2>1 DEF Inbox
<1>6. Inbox' = Inbox \cup {e}
  <2>1. Inbox' \subseteq Inbox \cup {e}
    BY <1>3 DEF Inbox
  <2>2. Inbox \subseteq Inbox'
    BY <1>4 DEF Inbox
  <2> QED
    BY <1>5, <2>1, <2>2
<1> QED
  BY <1>1, <1>2, <1>6

\* and when one arrives.
LEMMA InboxShrinks ==
  ASSUME BoardTypeOK, view.inbox # <<>>, view'.inbox = Tail(view.inbox)
  PROVE  /\ view.inbox[1] \in Inbox /\ view.inbox[1] \in SeatEvents
         /\ Inbox' \subseteq Inbox /\ Inbox \subseteq Inbox' \cup {view.inbox[1]}
         /\ Len(view.inbox) \in Nat \ {0} /\ Len(view'.inbox) = Len(view.inbox) - 1
         /\ \A i \in 1 .. Len(view'.inbox) : view'.inbox[i] = view.inbox[i + 1]
         /\ view'.inbox = <<>> <=> Len(view.inbox) = 1
<1>1. view.inbox \in Seq(SeatEvents)
  BY BoardFactsHold DEF BoardFacts
<1>2. /\ Len(view.inbox) \in Nat \ {0} /\ Len(view'.inbox) = Len(view.inbox) - 1
      /\ view'.inbox \in Seq(SeatEvents) /\ view.inbox[1] \in SeatEvents
      /\ \A i \in 1 .. Len(view'.inbox) : view'.inbox[i] = view.inbox[i + 1]
  BY <1>1, InboxTaken
<1>3. view.inbox[1] \in Inbox
  BY <1>2 DEF Inbox
<1>4. \A i \in 1 .. Len(view'.inbox) : view'.inbox[i] \in Inbox
  BY <1>2 DEF Inbox
<1>5. \A i \in 1 .. Len(view.inbox) : i # 1 => view.inbox[i] \in Inbox'
  <2>1. ASSUME NEW i \in 1 .. Len(view.inbox), i # 1
        PROVE  view.inbox[i] \in Inbox'
    <3>1. i - 1 \in 1 .. Len(view'.inbox) /\ (i - 1) + 1 = i
      BY <1>2, <2>1
    <3>2. view'.inbox[i - 1] = view.inbox[i]
      BY <1>2, <3>1
    <3> QED
      BY <3>1, <3>2 DEF Inbox
  <2> QED
    BY <2>1
<1>6. Inbox' \subseteq Inbox /\ Inbox \subseteq Inbox' \cup {view.inbox[1]}
  BY <1>4, <1>5 DEF Inbox
<1>7. view'.inbox = <<>> <=> Len(view.inbox) = 1
  <2>1. view'.inbox = <<>> <=> Len(view'.inbox) = 0
    BY <1>2, EmptySeq
  <2> QED
    BY <1>2, <2>1
<1> QED
  BY <1>2, <1>3, <1>6, <1>7

\* A step that leaves server and connection alone keeps what is said of the events, and
\* a gap is forgotten only with nothing on its way.
LEMMA WireKept ==
  ASSUME BoardTypeOK, NEW h, HistoryKept(h), EventsKept(h), InboxKept, SameServer,
         view'.inbox = view.inbox, view'.swapped = view.swapped, view.room => view'.room,
         ~view'.gap => ~view.gap \/ view.inbox = <<>>
  PROVE  /\ HistoryKept(h)' /\ EventsKept(h)' /\ InboxKept'
         /\ Inbox' = Inbox
         /\ \A n : ToCome(n)' <=> ToCome(n)
<1>1. Inbox' = Inbox
  BY DEF Inbox
<1>2. \A n : ToCome(n)' <=> ToCome(n)
  BY <1>1 DEF ToCome, SameServer
<1>3. HistoryKept(h)' /\ EventsKept(h)'
  BY <1>1 DEF HistoryKept, EventsKept, SameServer
<1>4. view.inbox = <<>> => Len(view.inbox) = 0 /\ Inbox = {}
  BY EmptySeq DEF Inbox
<1>5. InboxKept'
  BY <1>1, <1>2, <1>4 DEF InboxKept, SameServer
<1> QED
  BY <1>1, <1>2, <1>3, <1>5

\* And a step that leaves alone too where the view stands and what it has lost keeps what
\* is said of that, and of a choice that is not new.
LEMMA MarksKept ==
  ASSUME NEW h, OpeningKept, StandKept, GapKept, LockTold(h), SameServer,
         \A n : ToCome(n)' <=> ToCome(n),
         view'.inbox = view.inbox, view'.swapped = view.swapped,
         Shown' <=> Shown, view'.at = view.at \/ ~Shown,
         view'.lost = view.lost, view'.gap = view.gap, view'.chosen => view.chosen
  PROVE  OpeningKept' /\ StandKept' /\ GapKept' /\ LockTold(h)'
<1>1. OpeningKept'
  BY DEF OpeningKept, SameServer
<1>2. StandKept'
  BY DEF StandKept, SameServer
<1>3. GapKept'
  BY DEF GapKept, SameServer
<1>4. LockTold(h)'
  BY DEF LockTold, SameServer
<1> QED
  BY <1>1, <1>2, <1>3, <1>4

\* The newest event is no longer with its handler.
LEMMA NewestArrived ==
  ASSUME BoardTypeOK, NEW h, EventsKept(h), view.inbox = <<>>
  PROVE  ~ToCome(newest)
<1>1. Inbox = {}
  BY EmptySeq DEF Inbox
<1> QED
  BY <1>1 DEF ToCome, EventsKept

\* A board that is shown for the first time since its opening has got what its snapshot
\* has, and the rest is on its way, unless the step marks a gap.
LEMMA FirstKept ==
  ASSUME BoardTypeOK, NEW h, EventsKept(h), OpeningKept, SameServer,
         \A n : ToCome(n)' <=> ToCome(n),
         ~Shown, Shown', view'.inbox = view.inbox, view'.swapped = view.swapped,
         view'.at = view'.of, view'.of \in Nat, view'.lost = view.lost,
         view'.gap <=> GapFrom(view'.of), view'.chosen = view.chosen, SnapshotKept(h)
  PROVE  OpeningKept' /\ StandKept' /\ GapKept' /\ LockTold(h)'
<1>1. BoardFacts /\ \A n \in 1 .. changes : n <= view.lost \/ ToCome(n)
  BY BoardFactsHold DEF OpeningKept
<1>2. OpeningKept' /\ LockTold(h)'
  BY DEF OpeningKept, LockTold, SnapshotKept
<1>3. view.inbox = <<>> => newest <= view.lost
  <2>1. SUFFICES ASSUME view.inbox = <<>>
                 PROVE  newest <= view.lost
    OBVIOUS
  <2>2. ~ToCome(newest)
    BY <2>1, NewestArrived
  <2>3. CASE newest = 0
    BY <1>1, <2>3 DEF BoardFacts
  <2>4. CASE newest # 0
    <3>1. newest \in 1 .. changes
      BY <1>1, <2>4 DEF BoardFacts
    <3> QED
      BY <1>1, <2>2, <3>1
  <2> QED
    BY <2>3, <2>4
<1>4. StandKept'
  BY <1>3 DEF StandKept, SameServer
<1>5. GapKept'
  <2> SUFFICES ASSUME ~view'.gap, NEW n \in view'.at + 1 .. changes
               PROVE  ToCome(n)
    BY DEF GapKept, SameServer
  <2>1. view.lost <= view'.of
    BY <1>1 DEF GapFrom, BoardFacts
  <2>2. n \in 1 .. changes /\ ~(n <= view.lost)
    BY <1>1, <2>1 DEF BoardFacts
  <2> QED
    BY <1>1, <2>2
<1> QED
  BY <1>2, <1>4, <1>5

\* Joining the room keeps every part of the invariant.
LEMMA JoinKeeps ==
  ASSUME BoardTypeOK, NEW h, Stands(h), Join
  PROVE  Stands(h)'
<1> USE DEF Stands
<1>1. JoinDone
  BY JoinEffect
<1>2. /\ SameServer /\ SameQuery /\ SameData /\ SameLive /\ view'.inbox = view.inbox
      /\ view'.swapped = view.swapped /\ view'.room = TRUE /\ view'.lost = view.lost
      /\ view'.gap = view.gap /\ view'.chosen = view.chosen
  BY <1>1 DEF JoinDone
<1>3. Shown' <=> Shown
  BY <1>2 DEF Shown, SameData
<1>4. /\ HistoryKept(h)' /\ EventsKept(h)' /\ InboxKept'
      /\ \A n : ToCome(n)' <=> ToCome(n)
  BY <1>2, WireKept
<1>5. OpeningKept' /\ StandKept' /\ GapKept' /\ LockTold(h)'
  BY <1>2, <1>3, <1>4, MarksKept DEF SameLive
<1>6. SnapshotKept(h)'
  BY <1>2, <1>3 DEF SnapshotKept, SameQuery, SameData, SameLive
<1> QED
  BY <1>4, <1>5, <1>6

\* Opening the client with nothing to show keeps every part of the invariant.
LEMMA OpenKeeps ==
  ASSUME BoardTypeOK, NEW h, Stands(h), Open
  PROVE  Stands(h)'
<1> USE DEF Stands
<1>1. OpenDone
  BY OpenEffect
<1>2. /\ SameServer /\ SameWire /\ ~Shown /\ ~Shown' /\ view'.lost = view.lost
      /\ view'.gap = view.gap /\ view'.chosen = view.chosen
  BY <1>1 DEF OpenDone
<1>3. /\ HistoryKept(h)' /\ EventsKept(h)' /\ InboxKept'
      /\ \A n : ToCome(n)' <=> ToCome(n)
  BY <1>2, WireKept DEF SameWire
<1>4. OpeningKept' /\ StandKept' /\ GapKept' /\ LockTold(h)'
  BY <1>2, <1>3, MarksKept DEF SameWire
<1>5. SnapshotKept(h)'
  BY <1>1, BoardFactsHold DEF SnapshotKept, OpenDone, BoardFacts
<1> QED
  BY <1>3, <1>4, <1>5

\* Opening the page on the data of its query keeps every part of the invariant.
LEMMA OpenCachedKeeps ==
  ASSUME BoardTypeOK, NEW h, Stands(h), OpenCached
  PROVE  Stands(h)'
<1> USE DEF Stands
<1>1. OpenCachedDone /\ BoardFacts
  BY OpenCachedEffect, BoardFactsHold
<1>2. /\ SameServer /\ SameWire /\ ~Shown /\ Shown' /\ view'.lost = view.lost
      /\ view'.chosen = view.chosen /\ SameLive /\ view'.of = view.of
      /\ view'.gap <=> GapFrom(view.of)
  BY <1>1 DEF OpenCachedDone
<1>3. ~view'.gap => ~view.gap \/ view.inbox = <<>>
  BY <1>2 DEF GapFrom
<1>4. /\ HistoryKept(h)' /\ EventsKept(h)' /\ InboxKept'
      /\ \A n : ToCome(n)' <=> ToCome(n)
  BY <1>2, <1>3, WireKept DEF SameWire
<1>5. view'.at = view'.of /\ view'.of \in Nat
  BY <1>1, <1>2 DEF SnapshotKept, SameLive, BoardFacts
<1>6. OpeningKept' /\ StandKept' /\ GapKept' /\ LockTold(h)'
  BY <1>2, <1>4, <1>5, FirstKept DEF SameWire
<1>7. SnapshotKept(h)'
  BY <1>1, <1>2 DEF SnapshotKept, OpenCachedDone, SameLive
<1> QED
  BY <1>4, <1>6, <1>7

\* Asking for the seats, and the answer of the server, keep every part of the invariant.
LEMMA AskedKeeps ==
  ASSUME BoardTypeOK, NEW h, Stands(h), Refetch \/ ReadSeats
  PROVE  Stands(h)'
<1> USE DEF Stands
<1>1. AskedDone /\ BoardFacts
  BY AskedEffect, BoardFactsHold
<1>2. /\ SameServer /\ SameData /\ SameLive /\ SameWire /\ view'.lost = view.lost
      /\ view'.gap = view.gap /\ view'.chosen = view.chosen
  BY <1>1 DEF AskedDone
<1>3. Shown' <=> Shown
  BY <1>2 DEF Shown, SameData
<1>4. /\ HistoryKept(h)' /\ EventsKept(h)' /\ InboxKept'
      /\ \A n : ToCome(n)' <=> ToCome(n)
  BY <1>2, WireKept DEF SameWire
<1>5. OpeningKept' /\ StandKept' /\ GapKept' /\ LockTold(h)'
  BY <1>2, <1>3, <1>4, MarksKept DEF SameLive, SameWire
<1>6. view'.fetch = "read" => view'.answer = h[view'.answerOf] /\ view'.of <= view'.answerOf
  BY <1>1, <1>2 DEF AskedDone, HistoryKept, SameData, BoardFacts
<1>7. SnapshotKept(h)'
  BY <1>2, <1>3, <1>6 DEF SnapshotKept, SameData, SameLive
<1> QED
  BY <1>4, <1>5, <1>7

\* The arrival of the answer keeps every part of the invariant: what the board shows then
\* stands at least where it stood.
LEMMA ShowSeatsKeeps ==
  ASSUME BoardTypeOK, NEW h, Stands(h), ShowSeats
  PROVE  Stands(h)'
<1> USE DEF Stands
<1>1. ShowSeatsDone /\ BoardFacts
  BY ShowSeatsEffect, BoardFactsHold
<1>2. /\ SameServer /\ SameWire /\ view'.lost = view.lost /\ view'.chosen = view.chosen
      /\ view'.on = view.on /\ view'.cached = TRUE /\ view'.of = view.answerOf
      /\ view'.base = view.answer /\ view'.over = view.over /\ view'.fetch = "none"
      /\ view.answer = h[view.answerOf] /\ view.of <= view.answerOf
  BY <1>1 DEF ShowSeatsDone, SnapshotKept
<1>3. \/ First /\ (view'.gap <=> GapFrom(view.answerOf))
      \/ ~First /\ view'.gap = view.gap
  BY <1>1 DEF ShowSeatsDone
<1>4. ~view'.gap => ~view.gap \/ view.inbox = <<>>
  BY <1>3 DEF GapFrom
<1>5. /\ HistoryKept(h)' /\ EventsKept(h)' /\ InboxKept'
      /\ \A n : ToCome(n)' <=> ToCome(n)
  BY <1>2, <1>4, WireKept DEF SameWire
<1>6. (Shown => Shown') /\ (Shown' => Shown \/ First) /\ (First => ~Shown /\ Shown')
  BY <1>2 DEF Shown, First
<1>7. ~Shown => view.over = "AVAILABLE" /\ view'.at = view'.of /\ ~view'.chosen
  BY <1>1, <1>2 DEF SnapshotKept, ShowSeatsDone, Later, BoardFacts
<1>8. Shown => view'.at >= view.at /\ view'.at \in Nat
  BY <1>1 DEF ShowSeatsDone, Later, BoardFacts
<1>9. SnapshotKept(h)'
  <2>1. Shown => \/ view'.over = h[view'.at]
                 \/ view'.over = "AVAILABLE" /\ view'.at = view'.of
    <3>1. CASE view.over = "AVAILABLE" /\ ~(view.at > view.answerOf)
      BY <1>1, <1>2, <3>1 DEF ShowSeatsDone, Later
    <3>2. CASE view.over = "AVAILABLE" /\ view.at > view.answerOf
      <4>1. view'.at = view.at /\ view.at # view.of
        BY <1>1, <1>2, <3>2 DEF ShowSeatsDone, Later, BoardFacts
      <4> QED
        BY <1>2, <4>1 DEF SnapshotKept
    <3>3. CASE view.over # "AVAILABLE"
      BY <1>1, <1>2, <3>3 DEF ShowSeatsDone, SnapshotKept
    <3> QED
      BY <3>1, <3>2, <3>3
  <2>2. Shown' => \/ view'.over = h[view'.at]
                  \/ view'.over = "AVAILABLE" /\ view'.at = view'.of
    BY <1>2, <1>6, <1>7, <2>1 DEF First
  <2> QED
    BY <1>2, <1>6, <1>7, <2>2 DEF SnapshotKept
<1>10. OpeningKept' /\ StandKept' /\ GapKept' /\ LockTold(h)'
  <2>1. CASE First
    <3>1. ~Shown /\ Shown' /\ view'.at = view'.of /\ view'.of \in Nat
          /\ (view'.gap <=> GapFrom(view'.of))
      BY <1>1, <1>2, <1>3, <1>6, <1>7, <2>1 DEF BoardFacts
    <3> QED
      BY <1>2, <1>5, <3>1, FirstKept DEF SameWire
  <2>2. CASE ~First /\ ~Shown
    <3>1. ~Shown' /\ view'.gap = view.gap
      BY <1>3, <1>6, <2>2
    <3> QED
      BY <1>2, <1>5, <2>2, <3>1, MarksKept DEF SameWire
  <2>3. CASE Shown
    <3>1. Shown' /\ view'.gap = view.gap
      BY <1>3, <1>6, <2>3
    <3>2. OpeningKept'
      BY <3>1 DEF OpeningKept
    <3>3. StandKept'
      BY <1>1, <1>2, <1>8, <2>3 DEF StandKept, SameServer, SameWire, BoardFacts
    <3>4. GapKept'
      <4> SUFFICES ASSUME ~view.gap, NEW n \in view'.at + 1 .. changes
                   PROVE  ToCome(n)
        BY <1>2, <1>5, <3>1 DEF GapKept, SameServer
      <4>1. n \in view.at + 1 .. changes
        BY <1>1, <1>8, <2>3 DEF BoardFacts
      <4> QED
        BY <2>3, <4>1 DEF GapKept
    <3>5. LockTold(h)'
      BY <1>2, <1>5, <3>1 DEF LockTold, SameServer
    <3> QED
      BY <3>2, <3>3, <3>4, <3>5
  <2> QED
    BY <2>1, <2>2, <2>3
<1> QED
  BY <1>5, <1>9, <1>10

\* Choosing a seat, and a booking refused, keep every part of the invariant: what is
\* shown as free was free at the change the view stands at.
LEMMA ChoosingKeeps ==
  ASSUME BoardTypeOK, NEW h, Stands(h), Select \/ Refused
  PROVE  Stands(h)'
<1> USE DEF Stands
<1>1. ChoosingDone /\ BoardFacts
  BY ChoosingEffect, BoardFactsHold
<1>2. /\ SameServer /\ SameQuery /\ SameData /\ SameLive /\ SameWire /\ Shown
      /\ view'.lost = view.lost /\ view'.gap = view.gap
  BY <1>1 DEF ChoosingDone
<1>3. Shown'
  BY <1>2 DEF Shown, SameData
<1>4. /\ HistoryKept(h)' /\ EventsKept(h)' /\ InboxKept'
      /\ \A n : ToCome(n)' <=> ToCome(n)
  BY <1>2, WireKept DEF SameWire
<1>5. SnapshotKept(h)'
  BY <1>2, <1>3 DEF SnapshotKept, SameQuery, SameData, SameLive
<1>6. OpeningKept' /\ StandKept' /\ GapKept'
  BY <1>2, <1>3, <1>4 DEF OpeningKept, StandKept, GapKept, SameServer, SameLive, SameWire
<1>7. LockTold(h)'
  <2> SUFFICES ASSUME view'.chosen, ~view'.gap
               PROVE  \E k \in 0 .. changes :
                        /\ h[k] = "AVAILABLE"
                        /\ \A n \in k + 1 .. changes : h[n] = "LOCKED" => ToCome(n)
    BY <1>2, <1>4 DEF LockTold, SameServer
  <2>1. view.over = "AVAILABLE" /\ view.base = "AVAILABLE"
    BY <1>1 DEF ChoosingDone
  <2>2. view.at \in 0 .. changes /\ h[view.at] = "AVAILABLE"
    BY <1>1, <1>2, <2>1 DEF SnapshotKept, Shown, BoardFacts
  <2>3. \A n \in view.at + 1 .. changes : ToCome(n)
    BY <1>2 DEF GapKept
  <2> QED
    BY <2>2, <2>3
<1> QED
  BY <1>4, <1>5, <1>6, <1>7

\* Leaving the client keeps every part of the invariant: all that was emitted is lost to
\* the next opening.
LEMMA LeaveKeeps ==
  ASSUME BoardTypeOK, NEW h, Stands(h), Leave
  PROVE  Stands(h)'
<1> USE DEF Stands
<1>1. LeaveDone
  BY LeaveEffect
<1>2. /\ SameServer /\ SameWire /\ ~Shown' /\ view'.lost = newest
      /\ view'.gap = view.gap /\ view'.chosen = FALSE
  BY <1>1 DEF LeaveDone
<1>3. /\ HistoryKept(h)' /\ EventsKept(h)' /\ InboxKept'
      /\ \A n : ToCome(n)' <=> ToCome(n)
  BY <1>2, WireKept DEF SameWire
<1>4. OpeningKept'
  <2>1. \A n \in 1 .. changes : n <= newest \/ ToCome(n)
    BY DEF EventsKept, ToCome
  <2> QED
    BY <1>2, <1>3, <2>1 DEF OpeningKept, SameServer
<1>5. StandKept' /\ GapKept' /\ LockTold(h)'
  BY <1>2 DEF StandKept, GapKept, LockTold
<1>6. SnapshotKept(h)'
  BY <1>1 DEF SnapshotKept, LeaveDone, SameQuery
<1> QED
  BY <1>3, <1>4, <1>5, <1>6

\* Losing the socket keeps every part of the invariant.
LEMMA DisconnectKeeps ==
  ASSUME BoardTypeOK, NEW h, Stands(h), Disconnect
  PROVE  Stands(h)'
<1> USE DEF Stands
<1>1. DisconnectDone
  BY DisconnectEffect
<1>2. /\ SameServer /\ SameQuery /\ SameData /\ SameLive /\ view'.inbox = <<>>
      /\ view'.swapped = view.swapped /\ view'.chosen = view.chosen
  BY <1>1 DEF DisconnectDone
<1>3. Shown' <=> Shown
  BY <1>2 DEF Shown, SameData
<1>4. SnapshotKept(h)'
  BY <1>2, <1>3 DEF SnapshotKept, SameQuery, SameData, SameLive
<1>5. CASE view.inbox = <<>>
  <2>1. view'.lost = view.lost /\ view'.gap = view.gap /\ view'.inbox = view.inbox
    BY <1>1, <1>2, <1>5 DEF DisconnectDone
  <2>3. Inbox' = Inbox
    BY <2>1 DEF Inbox
  <2>4. \A n : ToCome(n)' <=> ToCome(n)
    BY <1>2, <2>3 DEF ToCome, SameServer
  <2>5. HistoryKept(h)' /\ EventsKept(h)'
    BY <1>2, <2>3 DEF HistoryKept, EventsKept, SameServer
  <2>6. Len(view'.inbox) = 0 /\ Inbox' = {}
    BY <1>2, EmptySeq, InboxGone
  <2>7. InboxKept'
    BY <1>2, <2>6 DEF InboxKept
  <2>8. OpeningKept' /\ StandKept' /\ GapKept' /\ LockTold(h)'
    BY <1>2, <1>3, <2>1, <2>4, MarksKept DEF SameLive
  <2> QED
    BY <1>4, <2>5, <2>7, <2>8
<1>6. CASE view.inbox # <<>>
  <2>1. view'.lost = newest /\ (view'.gap <=> view.gap \/ Shown)
    BY <1>1, <1>6 DEF DisconnectDone
  <2>2. Len(view'.inbox) = 0 /\ Inbox' = {}
    BY <1>2, EmptySeq, InboxGone
  <2>3. HistoryKept(h)' /\ EventsKept(h)'
    BY <1>2, <2>2 DEF HistoryKept, EventsKept, SameServer
  <2>4. InboxKept'
    BY <1>2, <2>2 DEF InboxKept
  <2>5. \A n \in 1 .. changes' : n <= newest \/ ToCome(n)'
    <3>1. changes' = changes /\ unsent' = unsent
      BY <1>2 DEF SameServer
    <3>2. \A n \in 1 .. changes : n <= newest \/ \E x \in unsent : x.n = n
      BY DEF EventsKept
    <3> QED
      BY <3>1, <3>2 DEF ToCome
  <2>6. OpeningKept'
    BY <2>1, <2>5 DEF OpeningKept
  <2>7. StandKept'
    BY <1>2, <2>1, BoardFactsHold DEF StandKept, SameServer, BoardFacts
  <2>8. GapKept' /\ LockTold(h)'
    BY <1>2, <1>3, <2>1 DEF GapKept, LockTold, SnapshotKept
  <2> QED
    BY <1>4, <2>3, <2>4, <2>6, <2>7, <2>8
<1> QED
  BY <1>5, <1>6

\* Booking.gateway.ts emitting an event keeps every part of the invariant.
LEMMA EmitKeeps ==
  ASSUME BoardTypeOK, NEW h, Stands(h), NEW e \in unsent, Emit(e)
  PROVE  Stands(h)'
<1> USE DEF Stands
<1>1. EmitDone(e) /\ BoardFacts
  BY EmitEffect, BoardFactsHold
<1>2. /\ e \in SeatEvents /\ e.n \in Nat /\ e.n <= changes /\ e.status = h[e.n]
      /\ \A x \in unsent \cup Inbox : x \in SeatEvents /\ x.n \in Nat
  BY <1>1 DEF EventsKept, BoardFacts
<1>3. /\ newest' \in Nat /\ newest <= newest' /\ e.n <= newest'
      /\ ~Late(e) => newest <= e.n /\ newest' = e.n
      /\ newest' = newest \/ newest' = e.n
  BY <1>1, <1>2 DEF EmitDone, Later, Late, BoardFacts
<1>4. /\ seat' = seat /\ changes' = changes /\ unsent' = unsent \ {e}
      /\ SameQuery /\ SameData /\ SameLive /\ view'.chosen = view.chosen
      /\ view'.room = view.room
      /\ view'.swapped <=> Late(e)
  BY <1>1 DEF EmitDone
<1>5. \/ /\ view.room = TRUE /\ Inbox' = Inbox \cup {e} /\ view'.lost = view.lost
         /\ view'.inbox = Append(view.inbox, e)
         /\ view'.gap <=> view.gap \/ Late(e)
      \/ /\ view.room = FALSE /\ Inbox' = {} /\ Inbox = {} /\ view'.inbox = <<>>
         /\ view.inbox = <<>> /\ view'.lost = Later(view.lost, e.n)
         /\ view'.gap <=> view.gap \/ Late(e) \/ Shown
  <2>1. CASE view.room = TRUE
    BY <1>1, <1>2, <2>1, InboxGrows DEF EmitDone
  <2>2. CASE view.room = FALSE
    <3>1. view.inbox = <<>> /\ view'.inbox = view.inbox
      BY <1>1, <2>2 DEF EmitDone, InboxKept
    <3>2. Inbox = {} /\ Inbox' = {}
      BY <3>1, EmptySeq, InboxGone DEF Inbox
    <3> QED
      BY <1>1, <2>2, <3>1, <3>2 DEF EmitDone
  <2> QED
    BY <1>1, <2>1, <2>2 DEF EmitDone
<1>6. Shown' <=> Shown
  BY <1>4 DEF Shown, SameData
<1>7. view.room = TRUE => \A n : ToCome(n)' <=> ToCome(n)
  <2>1. view.room = TRUE => unsent' \cup Inbox' = unsent \cup Inbox
    BY <1>4, <1>5
  <2> QED
    BY <2>1 DEF ToCome
<1>8. \A n : ToCome(n) => ToCome(n)' \/ n = e.n
  BY <1>4, <1>5 DEF ToCome
<1>9. HistoryKept(h)'
  BY <1>4 DEF HistoryKept
<1>10. EventsKept(h)'
  <2>1. IsFiniteSet(unsent')
    BY <1>4, FS_RemoveElement DEF EventsKept
  <2>2. \A x \in unsent' \cup Inbox' : x.n <= changes' /\ x.status = h[x.n]
    BY <1>2, <1>4, <1>5 DEF EventsKept
  <2>3. \A x \in Inbox' : x.n <= newest'
    BY <1>2, <1>3, <1>5, <1>1 DEF EventsKept, BoardFacts
  <2>4. \A x \in unsent' : x.n # newest'
    <3> SUFFICES ASSUME NEW x \in unsent', x.n = e.n
                 PROVE  FALSE
      BY <1>3, <1>4 DEF EventsKept
    <3>1. x \in unsent /\ x # e /\ x.status = h[e.n] /\ x \in SeatEvents
      BY <1>2, <1>4 DEF EventsKept
    <3>2. x = e
      BY <1>2, <3>1 DEF SeatEvents
    <3> QED
      BY <3>1, <3>2
  <2>5. \A n \in 1 .. changes' : n <= newest' \/ \E x \in unsent' : x.n = n
    BY <1>1, <1>3, <1>4 DEF EventsKept, BoardFacts
  <2> QED
    BY <2>1, <2>2, <2>3, <2>4, <2>5 DEF EventsKept
<1>11. InboxKept'
  <2>1. CASE view.room = TRUE
    <3>1. /\ view'.inbox # <<>> /\ Len(view.inbox) \in Nat
          /\ Len(view'.inbox) = Len(view.inbox) + 1
          /\ \A i \in 1 .. Len(view.inbox) : view'.inbox[i] = view.inbox[i]
          /\ view'.inbox[Len(view'.inbox)] = e
      BY <1>2, <1>5, <2>1, InboxGrows
    <3>2. view'.swapped \/ view'.inbox[Len(view'.inbox)].n = newest'
      BY <1>3, <1>4, <3>1
    <3> SUFFICES ASSUME ~view'.gap
                 PROVE  /\ \A i, j \in 1 .. Len(view'.inbox) :
                             i <= j => view'.inbox[i].n <= view'.inbox[j].n
                        /\ \A x \in Inbox' : \A n \in x.n + 1 .. changes' : ToCome(n)'
      BY <1>4, <2>1, <3>2 DEF InboxKept
    <3>3. ~view.gap /\ ~Late(e) /\ newest <= e.n /\ newest' = e.n
      BY <1>3, <1>5, <2>1
    <3>4. ASSUME NEW i \in 1 .. Len(view'.inbox), NEW j \in 1 .. Len(view'.inbox), i <= j
          PROVE  view'.inbox[i].n <= view'.inbox[j].n
      <4>1. CASE j = Len(view'.inbox)
        <5>1. view'.inbox[i] \in Inbox'
          BY DEF Inbox
        <5>2. view'.inbox[i].n <= newest'
          BY <1>10, <5>1 DEF EventsKept
        <5> QED
          BY <3>1, <3>3, <4>1, <5>2
      <4>2. CASE j # Len(view'.inbox)
        <5>1. i \in 1 .. Len(view.inbox) /\ j \in 1 .. Len(view.inbox)
          BY <3>1, <3>4, <4>2
        <5> QED
          BY <3>1, <3>3, <3>4, <5>1 DEF InboxKept
      <4> QED
        BY <4>1, <4>2
    <3>5. ASSUME NEW x \in Inbox', NEW n \in x.n + 1 .. changes
          PROVE  ToCome(n)
      <4>1. CASE x = e
        <5>1. n \in 1 .. changes /\ n > newest
          BY <1>1, <1>2, <3>3, <4>1 DEF BoardFacts
        <5> QED
          BY <1>1, <5>1 DEF EventsKept, ToCome, BoardFacts
      <4>2. CASE x # e
        <5>1. x \in Inbox
          BY <1>5, <2>1, <4>2
        <5> QED
          BY <3>3, <5>1 DEF InboxKept
      <4> QED
        BY <4>1, <4>2
    <3> QED
      BY <1>4, <1>7, <2>1, <3>4, <3>5
  <2>2. CASE view.room = FALSE
    <3>1. Len(view'.inbox) = 0 /\ Inbox' = {} /\ view'.inbox = <<>>
      BY <1>5, <2>2, EmptySeq
    <3> QED
      BY <3>1 DEF InboxKept
  <2> QED
    BY <1>5, <2>1, <2>2
<1>12. SnapshotKept(h)'
  BY <1>4, <1>6 DEF SnapshotKept, SameQuery, SameData, SameLive
<1>13. OpeningKept'
  <2> SUFFICES ASSUME ~Shown, NEW n \in 1 .. changes
               PROVE  n <= view'.lost \/ ToCome(n)'
    BY <1>4, <1>6 DEF OpeningKept
  <2>1. n <= view.lost \/ ToCome(n)
    BY DEF OpeningKept
  <2> QED
    BY <1>1, <1>2, <1>5, <1>7, <1>8, <2>1 DEF Later, BoardFacts
<1>14. StandKept'
  <2> SUFFICES ASSUME view'.inbox = <<>>, ~view'.swapped
               PROVE  newest' <= view'.lost
    BY DEF StandKept
  <2>1. view.room = FALSE
    BY <1>2, <1>5, InboxGrows
  <2> QED
    BY <1>1, <1>2, <1>3, <1>4, <1>5, <2>1 DEF Later, BoardFacts
<1>15. GapKept' /\ LockTold(h)'
  <2>1. CASE view.room = TRUE
    <3>1. ~view'.gap => ~view.gap
      BY <1>5, <2>1
    <3>2. view'.at = view.at
      BY <1>4 DEF SameLive
    <3>3. GapKept'
      BY <1>4, <1>6, <1>7, <2>1, <3>1, <3>2 DEF GapKept
    <3>4. LockTold(h)'
      BY <1>4, <1>7, <2>1, <3>1 DEF LockTold
    <3> QED
      BY <3>3, <3>4
  <2>2. CASE view.room = FALSE
    <3>1. Shown => view'.gap
      BY <1>5, <2>2
    <3>2. view.chosen => Shown
      BY DEF SnapshotKept
    <3> QED
      BY <1>4, <1>6, <3>1, <3>2 DEF GapKept, LockTold
  <2> QED
    BY <1>5, <2>1, <2>2
<1> QED
  BY <1>9, <1>10, <1>11, <1>12, <1>13, <1>14, <1>15

\* An event that arrives keeps every part of the invariant.
LEMMA DeliverKeeps ==
  ASSUME BoardTypeOK, NEW h, Stands(h), Deliver
  PROVE  Stands(h)'
<1> USE DEF Stands
<1>0. PICK e : e = view.inbox[1]
  OBVIOUS
<1>1. DeliverDone(e) /\ BoardFacts
  BY <1>0, DeliverEffect, BoardFactsHold
<1>2. /\ SameServer /\ SameQuery /\ SameData /\ view'.room = view.room
      /\ view'.swapped = view.swapped /\ view'.gap = view.gap /\ view.inbox # <<>>
      /\ \/ /\ Shown /\ view'.at = e.n /\ view'.over = e.status
            /\ view'.lost = view.lost
            /\ view'.chosen => view.chosen /\ e.status # "LOCKED"
         \/ /\ ~Shown /\ SameLive /\ view'.lost = Later(view.lost, e.n)
            /\ view'.chosen = view.chosen
  BY <1>1 DEF DeliverDone
<1>3. /\ e \in Inbox /\ e \in SeatEvents
      /\ Inbox' \subseteq Inbox /\ Inbox \subseteq Inbox' \cup {e}
      /\ Len(view.inbox) \in Nat \ {0} /\ Len(view'.inbox) = Len(view.inbox) - 1
      /\ \A i \in 1 .. Len(view'.inbox) : view'.inbox[i] = view.inbox[i + 1]
      /\ view'.inbox = <<>> <=> Len(view.inbox) = 1
  BY <1>0, <1>1, InboxShrinks DEF DeliverDone
<1>4. /\ e.n \in Nat /\ e.n <= newest /\ e.n <= changes /\ e.status = h[e.n]
      /\ \A x \in unsent \cup Inbox : x.n \in Nat
  BY <1>1, <1>3 DEF EventsKept, BoardFacts
<1>5. Shown' <=> Shown
  BY <1>2 DEF Shown, SameData
<1>6. \A n : ToCome(n) => ToCome(n)' \/ n = e.n
  BY <1>2, <1>3 DEF ToCome, SameServer
<1>7. HistoryKept(h)' /\ EventsKept(h)'
  BY <1>2, <1>3 DEF HistoryKept, EventsKept, SameServer
<1>8. ~view.gap => \A x \in Inbox : e.n <= x.n
  BY <1>0, <1>3 DEF InboxKept, Inbox
<1>9. InboxKept'
  <2>1. view'.inbox # <<>> => /\ view'.room
                              /\ \/ view'.swapped
                                 \/ view'.inbox[Len(view'.inbox)].n = newest'
    <3> SUFFICES ASSUME view'.inbox # <<>>
                 PROVE  view'.inbox[Len(view'.inbox)] = view.inbox[Len(view.inbox)]
      BY <1>2 DEF InboxKept, SameServer
    <3>1. /\ Len(view'.inbox) \in 1 .. Len(view'.inbox)
          /\ Len(view'.inbox) + 1 = Len(view.inbox)
      BY <1>3
    <3> QED
      BY <1>3, <3>1
  <2>2. ASSUME ~view.gap, NEW i \in 1 .. Len(view'.inbox), NEW j \in 1 .. Len(view'.inbox),
               i <= j
        PROVE  view'.inbox[i].n <= view'.inbox[j].n
    <3>1. /\ i + 1 \in 1 .. Len(view.inbox) /\ j + 1 \in 1 .. Len(view.inbox)
          /\ i + 1 <= j + 1
      BY <1>3, <2>2
    <3>2. view'.inbox[i] = view.inbox[i + 1] /\ view'.inbox[j] = view.inbox[j + 1]
      BY <1>3
    <3> QED
      BY <2>2, <3>1, <3>2 DEF InboxKept
  <2>3. ASSUME ~view.gap, NEW x \in Inbox', NEW n \in x.n + 1 .. changes
        PROVE  ToCome(n)'
    <3>1. x \in Inbox /\ e.n <= x.n /\ x.n \in Nat
      BY <1>3, <1>4, <1>8, <2>3
    <3>2. ToCome(n)
      BY <2>3, <3>1 DEF InboxKept
    <3>3. n # e.n
      BY <1>1, <1>4, <3>1 DEF BoardFacts
    <3> QED
      BY <1>6, <3>2, <3>3
  <2> QED
    BY <1>2, <2>1, <2>2, <2>3 DEF InboxKept, SameServer
<1>10. SnapshotKept(h)'
  BY <1>2, <1>4, <1>5 DEF SnapshotKept, SameQuery, SameData, SameLive
<1>11. OpeningKept'
  <2> SUFFICES ASSUME ~Shown, NEW n \in 1 .. changes
               PROVE  n <= view'.lost \/ ToCome(n)'
    BY <1>2, <1>5 DEF OpeningKept, SameServer
  <2>1. n <= view.lost \/ ToCome(n)
    BY DEF OpeningKept
  <2> QED
    BY <1>1, <1>2, <1>4, <1>6, <2>1 DEF Later, BoardFacts
<1>12. StandKept'
  <2> SUFFICES ASSUME Shown, view'.inbox = <<>>, ~view.swapped
               PROVE  newest <= view'.at
    BY <1>2, <1>5 DEF StandKept, SameServer
  <2>1. view.inbox[Len(view.inbox)] = e
    BY <1>0, <1>3
  <2> QED
    BY <1>1, <1>2, <2>1 DEF InboxKept, BoardFacts
<1>13. GapKept'
  <2> SUFFICES ASSUME Shown, ~view.gap, NEW n \in e.n + 1 .. changes
               PROVE  ToCome(n)'
    BY <1>2, <1>5 DEF GapKept, SameServer
  <2>1. ToCome(n) /\ n # e.n
    BY <1>1, <1>3, <1>4 DEF InboxKept, BoardFacts
  <2> QED
    BY <1>6, <2>1
<1>14. LockTold(h)'
  <2> SUFFICES ASSUME view'.chosen, ~view.gap
               PROVE  \E k \in 0 .. changes :
                        /\ h[k] = "AVAILABLE"
                        /\ \A n \in k + 1 .. changes : h[n] = "LOCKED" => ToCome(n)'
    BY <1>2 DEF LockTold, SameServer
  <2>1. view.chosen /\ h[e.n] # "LOCKED"
    BY <1>2, <1>4 DEF SnapshotKept
  <2>2. PICK k \in 0 .. changes :
          /\ h[k] = "AVAILABLE"
          /\ \A n \in k + 1 .. changes : h[n] = "LOCKED" => ToCome(n)
    BY <2>1 DEF LockTold
  <2> QED
    BY <1>6, <2>1, <2>2
<1> QED
  BY <1>7, <1>9, <1>10, <1>11, <1>12, <1>13, <1>14

\* A change of the seat keeps every part of the invariant, for the history with its change.
LEMMA ChangeKeeps ==
  ASSUME BoardTypeOK, NEW h, Stands(h), NEW to \in SeatStatuses, ChangeSeat(to)
  PROVE  BoardKept'
<1> USE DEF Stands
<1>0. PICK new : new = [n |-> changes + 1, status |-> to]
  OBVIOUS
<1>1. /\ changes' = changes + 1 /\ unsent' = unsent \cup {new} /\ seat' = to
      /\ to \in Follows(seat) /\ newest' = newest /\ view' = view
      /\ new.n = changes + 1 /\ new.status = to
      /\ BoardFacts
  BY <1>0, BoardFactsHold DEF ChangeSeat
<1>2. PICK g : g = [n \in 0 .. changes + 1 |-> IF n = changes + 1 THEN to ELSE h[n]]
  OBVIOUS
<1>3. /\ g \in [0 .. changes' -> SeatStatuses] /\ g[changes + 1] = to
      /\ \A n \in 0 .. changes : g[n] = h[n]
  BY <1>1, <1>2 DEF HistoryKept, BoardFacts
<1>4. Inbox' = Inbox
  BY <1>1 DEF Inbox
<1>5. \A x \in unsent \cup Inbox : x.n \in Nat /\ x.n <= changes /\ x.status = g[x.n]
  <2>1. \A x \in unsent \cup Inbox : x.n \in Nat /\ x.n <= changes /\ x.status = h[x.n]
    BY <1>1 DEF EventsKept, BoardFacts
  <2> QED
    BY <1>1, <1>3, <2>1 DEF BoardFacts
<1>6. \A n : ToCome(n) \/ n = changes + 1 => ToCome(n)'
  BY <1>1, <1>4 DEF ToCome
<1>7. HistoryKept(g)'
  <2>1. ASSUME NEW n \in 0 .. changes, g[n] = "AVAILABLE"
        PROVE  g[n + 1] = "LOCKED"
    <3>1. CASE n = changes
      BY <1>1, <1>3, <2>1, <3>1 DEF HistoryKept, Follows, BoardFacts
    <3>2. CASE n # changes
      <4>1. n \in 0 .. changes - 1 /\ n + 1 \in 0 .. changes
        BY <1>1, <3>2 DEF BoardFacts
      <4> QED
        BY <1>3, <2>1, <4>1 DEF HistoryKept
    <3> QED
      BY <3>1, <3>2
  <2>2. changes' - 1 = changes
    BY <1>1 DEF BoardFacts
  <2> QED
    BY <1>1, <1>3, <2>1, <2>2 DEF HistoryKept
<1>8. EventsKept(g)'
  <2>1. IsFiniteSet(unsent')
    BY <1>1, FS_AddElement DEF EventsKept
  <2>2. \A x \in unsent' \cup Inbox' : x.n <= changes' /\ x.status = g[x.n]
    <3>1. new.n <= changes' /\ new.status = g[new.n]
      BY <1>1, <1>3 DEF BoardFacts
    <3>2. \A x \in unsent \cup Inbox : x.n <= changes'
      BY <1>1, <1>5 DEF BoardFacts
    <3> QED
      BY <1>1, <1>4, <1>5, <3>1, <3>2
  <2>3. \A x \in Inbox' : x.n <= newest'
    BY <1>1, <1>4 DEF EventsKept
  <2>4. \A x \in unsent' : x.n # newest'
    BY <1>1 DEF EventsKept, BoardFacts
  <2>5. \A n \in 1 .. changes' : n <= newest' \/ \E x \in unsent' : x.n = n
    <3>1. new \in unsent' /\ unsent \subseteq unsent'
      BY <1>1
    <3> SUFFICES ASSUME NEW n \in 1 .. changes'
                 PROVE  n <= newest' \/ \E x \in unsent' : x.n = n
      OBVIOUS
    <3>2. CASE n = changes + 1
      BY <1>1, <3>1, <3>2
    <3>3. CASE n # changes + 1
      <4>1. n \in 1 .. changes
        BY <1>1, <3>3 DEF BoardFacts
      <4> QED
        BY <1>1, <3>1, <4>1 DEF EventsKept
    <3> QED
      BY <3>2, <3>3
  <2> QED
    BY <2>1, <2>2, <2>3, <2>4, <2>5 DEF EventsKept
<1>9. \A k \in Nat : \A n \in k + 1 .. changes' : n \in k + 1 .. changes \/ n = changes + 1
  BY <1>1 DEF BoardFacts
<1>10. InboxKept'
  <2>1. ASSUME ~view.gap, NEW x \in Inbox, NEW n \in x.n + 1 .. changes'
        PROVE  ToCome(n)'
    BY <1>5, <1>6, <1>9, <2>1 DEF InboxKept
  <2> QED
    BY <1>1, <1>4, <2>1 DEF InboxKept
<1>11. Shown' <=> Shown
  BY <1>1 DEF Shown
<1>12. SnapshotKept(g)'
  <2>1. /\ h[view.of] = g[view.of] /\ h[view.at] = g[view.at]
        /\ h[view.answerOf] = g[view.answerOf]
    BY <1>1, <1>3 DEF BoardFacts
  <2> QED
    BY <1>1, <1>11, <2>1 DEF SnapshotKept
<1>13. OpeningKept'
  <2> SUFFICES ASSUME ~Shown, NEW n \in 1 .. changes'
               PROVE  n <= view.lost \/ ToCome(n)'
    BY <1>1, <1>11 DEF OpeningKept
  <2>1. n \in 1 .. changes \/ n = changes + 1
    BY <1>1 DEF BoardFacts
  <2> QED
    BY <1>6, <2>1 DEF OpeningKept
<1>14. StandKept'
  BY <1>1, <1>11 DEF StandKept
<1>15. GapKept'
  <2> SUFFICES ASSUME Shown, ~view.gap, NEW n \in view.at + 1 .. changes'
               PROVE  ToCome(n)'
    BY <1>1, <1>11 DEF GapKept
  <2>1. n \in view.at + 1 .. changes \/ n = changes + 1
    BY <1>1, <1>9 DEF BoardFacts
  <2> QED
    BY <1>6, <2>1 DEF GapKept
<1>16. LockTold(g)'
  <2> SUFFICES ASSUME view.chosen, ~view.gap
               PROVE  \E k \in 0 .. changes' :
                        /\ g[k] = "AVAILABLE"
                        /\ \A n \in k + 1 .. changes' : g[n] = "LOCKED" => ToCome(n)'
    BY <1>1 DEF LockTold
  <2>1. PICK k \in 0 .. changes :
          /\ h[k] = "AVAILABLE"
          /\ \A n \in k + 1 .. changes : h[n] = "LOCKED" => ToCome(n)
    BY DEF LockTold
  <2>2. k \in 0 .. changes' /\ k \in Nat /\ g[k] = "AVAILABLE"
    BY <1>1, <1>3, <2>1 DEF BoardFacts
  <2>3. ASSUME NEW n \in k + 1 .. changes', g[n] = "LOCKED"
        PROVE  ToCome(n)'
    <3>1. CASE n = changes + 1
      BY <1>6, <3>1
    <3>2. CASE n # changes + 1
      <4>1. n \in k + 1 .. changes /\ n \in 0 .. changes
        BY <1>1, <1>9, <2>2, <3>2 DEF BoardFacts
      <4> QED
        BY <1>3, <1>6, <2>1, <2>3, <4>1
    <3> QED
      BY <3>1, <3>2
  <2> QED
    BY <2>2, <2>3
<1>17. Stands(g)'
  BY <1>7, <1>8, <1>10, <1>12, <1>13, <1>14, <1>15, <1>16
<1> HIDE DEF Stands
<1> QED
  BY <1>3, <1>17 DEF BoardKept
-----------------------------------------------------------------------------
(* The theorems.                                                           *)

\* The inductive invariant.
BoardInv == BoardTypeOK /\ BoardKept

\* It holds at the beginning, for the history that has the seat as it is.
LEMMA BoardBegins == BoardInit => BoardInv
<1> SUFFICES ASSUME BoardInit
             PROVE  BoardInv
  OBVIOUS
<1>1. BoardTypeOK
  BY BoardTypeBegins
<1>2. PICK kind \in {"page", "phone"} : view = Unopened(kind)
  BY DEF BoardInit
<1>3. /\ changes = 0 /\ unsent = {} /\ newest = 0 /\ seat \in SeatStatuses
      /\ view.on = FALSE /\ view.cached = FALSE /\ view.fetch = "none"
      /\ view.of = 0 /\ view.at = 0 /\ view.over = "AVAILABLE"
      /\ view.inbox = <<>> /\ view.chosen = FALSE
  BY <1>2 DEF BoardInit, Unopened, SeatStatuses
<1>4. Len(view.inbox) = 0 /\ Inbox = {} /\ ~Shown
  BY <1>3, EmptySeq DEF Inbox, Shown
<1>5. PICK h : h = [n \in 0 .. changes |-> seat]
  OBVIOUS
<1>6. h \in [0 .. changes -> SeatStatuses] /\ HistoryKept(h)
  BY <1>3, <1>5 DEF HistoryKept
<1>7. EventsKept(h)
  BY <1>3, <1>4, FS_EmptySet DEF EventsKept
<1>8. InboxKept
  BY <1>3, <1>4 DEF InboxKept
<1>9. SnapshotKept(h) /\ OpeningKept /\ StandKept /\ GapKept /\ LockTold(h)
  BY <1>3, <1>4 DEF SnapshotKept, OpeningKept, StandKept, GapKept, LockTold
<1> QED
  BY <1>1, <1>6, <1>7, <1>8, <1>9 DEF BoardInv, BoardKept, Stands

\* It says nothing but of the variables.
LEMMA BoardStays == BoardInv /\ UNCHANGED boardVars => BoardInv'
<1> SUFFICES ASSUME BoardInv, UNCHANGED boardVars
             PROVE  BoardInv'
  OBVIOUS
<1>1. /\ seat' = seat /\ changes' = changes /\ unsent' = unsent /\ newest' = newest
      /\ view' = view /\ leaves' = leaves
  BY DEF boardVars
<1>2. BoardTypeOK'
  BY <1>1 DEF BoardInv, BoardTypeOK
<1>3. PICK h \in [0 .. changes -> SeatStatuses] : Stands(h)
  BY DEF BoardInv, BoardKept
<1>4. Inbox' = Inbox /\ (Shown' <=> Shown) /\ \A n : ToCome(n)' <=> ToCome(n)
  BY <1>1 DEF Inbox, Shown, ToCome
<1>5. HistoryKept(h)' /\ EventsKept(h)' /\ InboxKept'
  BY <1>1, <1>3, <1>4 DEF Stands, HistoryKept, EventsKept, InboxKept
<1>6. SnapshotKept(h)' /\ OpeningKept'
  BY <1>1, <1>3, <1>4 DEF Stands, SnapshotKept, OpeningKept
<1>7. StandKept' /\ GapKept' /\ LockTold(h)'
  BY <1>1, <1>3, <1>4 DEF Stands, StandKept, GapKept, LockTold
<1>8. Stands(h)'
  BY <1>5, <1>6, <1>7 DEF Stands
<1>9. BoardKept'
  BY <1>1, <1>3, <1>8 DEF BoardKept
<1> QED
  BY <1>2, <1>9 DEF BoardInv

\* Every step keeps it.
LEMMA BoardStep == BoardInv /\ [BoardNext]_boardVars => BoardInv'
<1> SUFFICES ASSUME BoardInv, [BoardNext]_boardVars
             PROVE  BoardInv'
  OBVIOUS
<1>0. PICK h \in [0 .. changes -> SeatStatuses] : BoardTypeOK /\ Stands(h)
  BY DEF BoardInv, BoardKept
<1>1. EventsKept(h) /\ IsFiniteSet(unsent)
  BY <1>0 DEF Stands, EventsKept
<1>2. ASSUME NEW to \in SeatStatuses, ChangeSeat(to)
      PROVE  BoardInv'
  BY <1>0, <1>1, <1>2, ChangeKeepsBoardType, ChangeKeeps DEF BoardInv
<1>3. ASSUME BoardTypeOK', Stands(h)', changes' = changes
      PROVE  BoardInv'
  BY <1>0, <1>3 DEF BoardInv, BoardKept
<1>4. ASSUME NEW e \in unsent, Emit(e)
      PROVE  BoardInv'
  <2>1. BoardTypeOK' /\ Stands(h)'
    BY <1>0, <1>1, <1>4, EmitKeepsBoardType, EmitKeeps
  <2> QED
    BY <1>3, <1>4, <2>1 DEF Emit
<1>5. CASE Join \/ Open \/ OpenCached \/ Refetch \/ ReadSeats \/ ShowSeats \/ Deliver
             \/ Select \/ Refused \/ Leave \/ Disconnect
  <2>1. BoardTypeOK'
    BY <1>0, <1>1, <1>5, ClientKeepsBoardType
  <2>2. Stands(h)'
    BY <1>0, <1>5, JoinKeeps, OpenKeeps, OpenCachedKeeps, AskedKeeps, ShowSeatsKeeps,
       DeliverKeeps, ChoosingKeeps, LeaveKeeps, DisconnectKeeps
  <2>3. changes' = changes
    BY <1>5 DEF Join, Open, OpenCached, Refetch, ReadSeats, ShowSeats, Deliver, Select,
       Refused, Leave, Disconnect
  <2> QED
    BY <1>3, <2>1, <2>2, <2>3
<1>6. CASE UNCHANGED boardVars
  BY <1>6, BoardStays
<1> QED
  BY <1>2, <1>4, <1>5, <1>6 DEF BoardNext

\* The inductive invariant holds in every behaviour, for any number of changes and of
\* lost connections.
THEOREM BoardInvariant == BoardSpec => []BoardInv
<1> QED
  BY BoardBegins, BoardStep, PTL DEF BoardSpec

\* The view and the events have their types, and no more events are on their way or
\* unsent than there were changes.
THEOREM BoardTypes == BoardSpec => []BoardTypeOK
<1>1. BoardInv => BoardTypeOK
  BY DEF BoardInv
<1> QED
  BY <1>1, BoardInvariant, PTL

\* When everything has arrived, nothing is to come, and the newest event is the last
\* change's.
LEMMA NothingToCome ==
  ASSUME BoardTypeOK, NEW h, EventsKept(h), AllArrived
  PROVE  newest = changes /\ \A n : ~ToCome(n)
<1>1. BoardFacts /\ view.inbox = <<>> /\ unsent = {}
  BY BoardFactsHold DEF AllArrived
<1>2. Inbox = {}
  BY <1>1, EmptySeq DEF Inbox
<1>3. CASE changes = 0
  BY <1>1, <1>2, <1>3 DEF BoardFacts, ToCome
<1>4. CASE changes # 0
  <2>1. changes \in 1 .. changes
    BY <1>1, <1>4 DEF BoardFacts
  <2> QED
    BY <1>1, <1>2, <2>1 DEF BoardFacts, EventsKept, ToCome
<1> QED
  BY <1>3, <1>4

\* booking/[eventId]/page.tsx and BookingViewModel.kt: when everything has arrived, a seat
\* is shown against the truth only if the last event was lost or emitted after a newer one,
\* or if it is free and the snapshot had it taken.
THEOREM ShownSeatIsTrue == BoardSpec => []ShownIsTrue
<1>1. BoardInv => ShownIsTrue
  <2> SUFFICES ASSUME BoardInv, AllArrived, view.lost <= view.at, ~view.swapped
               PROVE  IF ShownFree THEN seat = "AVAILABLE"
                                   ELSE seat # "AVAILABLE" \/ view.base # "AVAILABLE"
    BY DEF ShownIsTrue
  <2>1. PICK h \in [0 .. changes -> SeatStatuses] : BoardTypeOK /\ Stands(h)
    BY DEF BoardInv, BoardKept
  <2>2. BoardFacts /\ newest = changes
    BY <2>1, BoardFactsHold, NothingToCome DEF Stands
  <2>3. view.at = changes
    BY <2>1, <2>2 DEF Stands, StandKept, AllArrived, BoardFacts
  <2>4. view.over = seat \/ (view.over = "AVAILABLE" /\ view.base = seat)
    BY <2>1, <2>3 DEF Stands, SnapshotKept, HistoryKept, AllArrived, Shown
  <2> QED
    BY <2>4 DEF ShownFree
<1> QED
  BY <1>1, BoardInvariant, PTL

\* page.tsx and BookingViewModel.kt: a chosen seat that is shown as taken is given up, unless
\* an event was lost or late since the page was opened, or an answer was overtaken by the
\* release of a seat that it has as taken.  Beside these a chosen seat is free at the server
\* once everything has arrived.
THEOREM ChosenSeatIsShownFree == BoardSpec => []ChosenIsShownFree
<1>1. BoardInv => ChosenIsShownFree
  <2> SUFFICES ASSUME BoardInv, AllArrived, view.chosen, ~ShownFree, ~view.gap,
                      ~(view.base # "AVAILABLE" /\ view.at > view.of)
               PROVE  FALSE
    BY DEF ChosenIsShownFree
  <2>1. PICK h \in [0 .. changes -> SeatStatuses] : BoardTypeOK /\ Stands(h)
    BY DEF BoardInv, BoardKept
  <2>2. BoardFacts /\ Shown /\ \A n : ~ToCome(n)
    BY <2>1, BoardFactsHold, NothingToCome DEF Stands, AllArrived
  <2>3. view.at = changes
    <3>1. \A n \in view.at + 1 .. changes : FALSE
      BY <2>1, <2>2 DEF Stands, GapKept
    <3> QED
      BY <2>2, <3>1 DEF BoardFacts
  <2>4. seat = "AVAILABLE" /\ h[changes] = "AVAILABLE"
    <3>1. PICK k \in 0 .. changes :
            /\ h[k] = "AVAILABLE"
            /\ \A n \in k + 1 .. changes : h[n] # "LOCKED"
      BY <2>1, <2>2 DEF Stands, LockTold
    <3>2. k = changes
      <4>1. SUFFICES ASSUME k # changes
                     PROVE  FALSE
        OBVIOUS
      <4>2. k \in 0 .. changes - 1 /\ k + 1 \in k + 1 .. changes
        BY <2>2, <4>1 DEF BoardFacts
      <4> QED
        BY <2>1, <3>1, <4>2 DEF Stands, HistoryKept
    <3> QED
      BY <2>1, <3>1, <3>2 DEF Stands, HistoryKept
  <2>5. view.over = "AVAILABLE" /\ view.base # "AVAILABLE"
    BY <2>1, <2>2, <2>3, <2>4 DEF Stands, SnapshotKept, ShownFree
  <2>6. view.of = changes
    BY <2>2, <2>3, <2>5 DEF BoardFacts
  <2> QED
    BY <2>1, <2>2, <2>4, <2>5, <2>6 DEF Stands, SnapshotKept, Shown
<1> QED
  BY <1>1, BoardInvariant, PTL
=============================================================================
