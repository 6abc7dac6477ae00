----------------------------- MODULE TicketIssue -----------------------------
(***************************************************************************)
(* The tickets of a confirmed booking: generateTicketsForBooking           *)
(* (tickets/tickets.service.ts).  No code in the repository calls it; its  *)
(* comments expect a call per confirmation, and replays.  A ticket is told *)
(* by the issue that made it; its row holds the hash of its token, and the *)
(* token itself is only in the answer of that issue.                       *)
(***************************************************************************)
EXTENDS FiniteSets

CONSTANTS Issues,      \* calls, each made once
          BookedSeats  \* the booking's CONFIRMED seats

VARIABLES tickets,  \* committed Ticket rows of each seat
          issue,    \* the calls
          known,    \* the rows whose token reached the caller
          over      \* history: the calls that were over when one began

issueVars == <<tickets, issue, known, over>>

IssueTypeOK ==
  /\ tickets \in [BookedSeats -> SUBSET Issues]
  /\ issue \in [Issues -> [pc : {"idle", "seat", "answer", "done", "dead"},
                           todo : SUBSET BookedSeats, made : SUBSET BookedSeats]]
  /\ known \in [BookedSeats -> SUBSET Issues]
  /\ over \in [Issues -> SUBSET Issues]

IssueInit ==
  /\ tickets = [s \in BookedSeats |-> {}]
  /\ issue = [i \in Issues |-> [pc |-> "idle", todo |-> {}, made |-> {}]]
  /\ known = [s \in BookedSeats |-> {}]
  /\ over = [i \in Issues |-> {}]
-----------------------------------------------------------------------------
Ended == {i \in Issues : issue[i].pc \in {"done", "dead"}}

\* The confirmed seats and the show are read, and the transaction begins.
IssueStart(i) ==
  /\ issue[i].pc = "idle"
  /\ issue' = [issue EXCEPT ![i] = [pc |-> "seat", todo |-> BookedSeats, made |-> {}]]
  /\ over' = [over EXCEPT ![i] = Ended]
  /\ UNCHANGED <<tickets, known>>

\* Mutant of HasTicket: the test for a replay is left out
HasTicketNever(s) == FALSE

\* findFirst by booking and seat: only what others have committed is seen, and
\* no unique key stands behind it.
HasTicket(s) == tickets[s] # {}

\* A seat with a ticket is passed over; the row of another stays the
\* transaction's own until it commits.
IssueSeat(i, s) ==
  /\ issue[i].pc = "seat" /\ s \in issue[i].todo
  /\ issue' = [issue EXCEPT
       ![i].todo = issue[i].todo \ {s},
       ![i].made = IF HasTicket(s) THEN issue[i].made ELSE issue[i].made \cup {s}]
  /\ UNCHANGED <<tickets, known, over>>

\* What a call adds to the rows, or to the tokens that are known.
Added(rows, i) ==
  [s \in BookedSeats |-> IF s \in issue[i].made THEN rows[s] \cup {i} ELSE rows[s]]

IssueCommit(i) ==
  /\ issue[i].pc = "seat" /\ issue[i].todo = {}
  /\ tickets' = Added(tickets, i)
  /\ issue' = [issue EXCEPT ![i].pc = "answer"]
  /\ UNCHANGED <<known, over>>

\* The tokens are returned, those of the rows that this call made.
IssueAnswer(i) ==
  /\ issue[i].pc = "answer"
  /\ known' = Added(known, i)
  /\ issue' = [issue EXCEPT ![i].pc = "done"]
  /\ UNCHANGED <<tickets, over>>

\* The process dies or a query throws: an open transaction is rolled back.
IssueDies(i) ==
  /\ issue[i].pc \in {"seat", "answer"}
  /\ issue' = [issue EXCEPT ![i].pc = "dead"]
  /\ UNCHANGED <<tickets, known, over>>

IssueNext ==
  \E i \in Issues :
    \/ IssueStart(i) \/ IssueCommit(i) \/ IssueAnswer(i) \/ IssueDies(i)
    \/ \E s \in BookedSeats : IssueSeat(i, s)

IssueSpec == IssueInit /\ [][IssueNext]_issueVars
-----------------------------------------------------------------------------
(* Properties                                                              *)

\* Two tickets of one seat come only from calls that ran at the same time: a
\* replay after the first call was over makes none, however that one ended.
OneTicketPerSeat ==
  \A s \in BookedSeats : \A i, j \in tickets[s] :
    i # j => i \notin over[j] /\ j \notin over[i]

\* When a call has ended well, each seat has a ticket whose token somebody holds
\* or will be given, unless a call died between its commit and its answer: then
\* replays pass the seat over and its token is lost.
TokenIsKnown ==
  \A i \in Issues, s \in BookedSeats : issue[i].pc = "done"
    => \/ known[s] # {}
       \/ \E j \in tickets[s] : issue[j].pc \in {"answer", "dead"}

\* A booked seat gets one ticket, and one that can be shown at the gate.
TicketsIssued == OneTicketPerSeat /\ TokenIsKnown
=============================================================================
