---------------------------- MODULE ServicesProofs ----------------------------
(***************************************************************************)
(* The issue of tickets, for any number of calls and seats; the session of *)
(* the web client, for any number of tabs and logins, with the redirects   *)
(* that end; the platform fee, for any number of updates; the seat map,    *)
(* for every instance of Bookings; and reviews of applications, for any    *)
(* number of applications and reviewers: no two tenants of an application  *)
(* or of a name, and no approval undone unless two reviews overlapped.  At *)
(* the end the eight components of MCServices together: each behaves as    *)
(* its own specification says, so that what is proved of each holds of     *)
(* all.                                                                    *)
(***************************************************************************)
EXTENDS MCServices, BookingsProofs, ScanningProofs, CheckoutProofs, SeatBoardProofs

(* The issue of tickets.                                                   *)

\* Calls that were over are over, and rows are those of calls that committed.
OverEnded == \A i \in Issues : over[i] \subseteq Ended

RowsCommitted ==
  \A s \in BookedSeats : \A i \in tickets[s] :
    /\ issue[i].pc \in {"answer", "done", "dead"} /\ s \in issue[i].made
    /\ issue[i].pc = "done" => i \in known[s]

\* A seat that a call is about to give a ticket had none when the call began.
MadeForNone ==
  \A i \in Issues : \A s \in issue[i].made :
    issue[i].pc = "seat" => tickets[s] \cap over[i] = {}

\* What a call passes over has a ticket.
NoSeatLeft ==
  \A i \in Issues, s \in BookedSeats :
    /\ issue[i].pc = "seat" => s \in issue[i].todo \cup issue[i].made \/ tickets[s] # {}
    /\ issue[i].pc \in {"answer", "done"} => tickets[s] # {}

IssueInv ==
  /\ IssueTypeOK /\ OverEnded /\ RowsCommitted /\ MadeForNone /\ NoSeatLeft
  /\ OneTicketPerSeat

LEMMA IssueBegins == IssueInit => IssueInv
BY DEF IssueInit, IssueInv, IssueTypeOK, OverEnded, RowsCommitted, MadeForNone,
       NoSeatLeft, OneTicketPerSeat

\* The rows of one kind after those of a call are added.
LEMMA AddedRows ==
  ASSUME IssueTypeOK, NEW i \in Issues, NEW rows \in [BookedSeats -> SUBSET Issues]
  PROVE  /\ Added(rows, i) \in [BookedSeats -> SUBSET Issues]
         /\ \A s \in BookedSeats :
              /\ s \in issue[i].made => Added(rows, i)[s] = rows[s] \cup {i}
              /\ s \notin issue[i].made => Added(rows, i)[s] = rows[s]
BY DEF Added

LEMMA IssueStep == IssueInv /\ [IssueNext]_issueVars => IssueInv'
<1> SUFFICES ASSUME IssueInv, [IssueNext]_issueVars PROVE IssueInv'
  OBVIOUS
<1> USE DEF IssueInv
<1>1. ASSUME NEW i \in Issues, IssueStart(i)
      PROVE  IssueInv'
  <2>1. /\ issue[i].pc = "idle" /\ UNCHANGED <<tickets, known>>
        /\ issue' \in [Issues -> [pc : {"idle", "seat", "answer", "done", "dead"},
                         todo : SUBSET BookedSeats, made : SUBSET BookedSeats]]
        /\ issue'[i] = [pc |-> "seat", todo |-> BookedSeats, made |-> {}]
        /\ \A j \in Issues \ {i} : issue'[j] = issue[j]
        /\ over' \in [Issues -> SUBSET Issues]
        /\ over'[i] = Ended /\ \A j \in Issues \ {i} : over'[j] = over[j]
    BY <1>1 DEF IssueStart, IssueTypeOK, Ended
  <2>2. i \notin Ended /\ Ended' = Ended
    BY <2>1 DEF Ended
  <2>3. \A s \in BookedSeats : tickets[s] \subseteq Issues /\ i \notin tickets[s]
    BY <2>1 DEF RowsCommitted, IssueTypeOK
  <2>4. IssueTypeOK' /\ OverEnded'
    BY <2>1, <2>2 DEF IssueTypeOK, OverEnded
  <2>7. NoSeatLeft'
    BY <2>1 DEF NoSeatLeft
  <2>5. RowsCommitted' /\ OneTicketPerSeat'
    BY <2>1, <2>3 DEF RowsCommitted, OneTicketPerSeat
  <2>6. MadeForNone'
    BY <2>1 DEF MadeForNone
  <2> QED
    BY <2>4, <2>5, <2>6, <2>7
<1>2. ASSUME NEW i \in Issues, NEW s \in BookedSeats, IssueSeat(i, s)
      PROVE  IssueInv'
  <2>1. /\ issue[i].pc = "seat" /\ s \in issue[i].todo
        /\ UNCHANGED <<tickets, known, over>>
        /\ issue' \in [Issues -> [pc : {"idle", "seat", "answer", "done", "dead"},
                         todo : SUBSET BookedSeats, made : SUBSET BookedSeats]]
        /\ issue'[i].pc = "seat" /\ issue'[i].todo = issue[i].todo \ {s}
        /\ issue'[i].made = IF HasTicket(s) THEN issue[i].made
                                            ELSE issue[i].made \cup {s}
        /\ \A j \in Issues \ {i} : issue'[j] = issue[j]
    BY <1>2 DEF IssueSeat, IssueTypeOK
  <2>2. Ended' = Ended
    BY <2>1 DEF Ended
  <2>3. \A t \in BookedSeats : tickets[t] \subseteq Issues /\ i \notin tickets[t]
    BY <2>1 DEF RowsCommitted, IssueTypeOK
  <2>4. IssueTypeOK' /\ OverEnded' /\ OneTicketPerSeat'
    BY <2>1, <2>2 DEF IssueTypeOK, OverEnded, OneTicketPerSeat
  <2>5. RowsCommitted'
    BY <2>1, <2>3 DEF RowsCommitted
  <2>6. MadeForNone'
    BY <2>1 DEF MadeForNone, HasTicket
  <2>7. NoSeatLeft'
    BY <2>1 DEF NoSeatLeft, HasTicket
  <2> QED
    BY <2>4, <2>5, <2>6, <2>7
<1>3. ASSUME NEW i \in Issues, IssueCommit(i)
      PROVE  IssueInv'
  <2>1. /\ issue[i].pc = "seat" /\ issue[i].todo = {} /\ UNCHANGED <<known, over>>
        /\ issue' \in [Issues -> [pc : {"idle", "seat", "answer", "done", "dead"},
                         todo : SUBSET BookedSeats, made : SUBSET BookedSeats]]
        /\ issue'[i].pc = "answer" /\ issue'[i].made = issue[i].made
        /\ \A j \in Issues \ {i} : issue'[j] = issue[j]
    BY <1>3 DEF IssueCommit, IssueTypeOK
  <2>2. /\ tickets' \in [BookedSeats -> SUBSET Issues]
        /\ \A s \in BookedSeats :
             /\ s \in issue[i].made => tickets'[s] = tickets[s] \cup {i}
             /\ s \notin issue[i].made => tickets'[s] = tickets[s]
    BY <1>3, AddedRows DEF IssueCommit, IssueTypeOK
  <2>3. /\ i \notin Ended /\ Ended' = Ended
        /\ \A j \in Issues : i \notin over[j]
    BY <2>1 DEF Ended, OverEnded
  <2>4. IssueTypeOK' /\ OverEnded'
    BY <2>1, <2>2, <2>3 DEF IssueTypeOK, OverEnded
  <2>5. RowsCommitted'
    BY <2>1, <2>2 DEF RowsCommitted, IssueTypeOK
  <2>8. NoSeatLeft'
    BY <2>1, <2>2 DEF NoSeatLeft, IssueTypeOK
  <2>6. MadeForNone'
    BY <2>1, <2>2, <2>3 DEF MadeForNone, IssueTypeOK
  <2>7. OneTicketPerSeat'
    BY <2>1, <2>2, <2>3 DEF OneTicketPerSeat, MadeForNone, IssueTypeOK
  <2> QED
    BY <2>4, <2>5, <2>6, <2>7, <2>8
<1>4. ASSUME NEW i \in Issues, IssueAnswer(i)
      PROVE  IssueInv'
  <2>1. /\ issue[i].pc = "answer" /\ UNCHANGED <<tickets, over>>
        /\ issue' \in [Issues -> [pc : {"idle", "seat", "answer", "done", "dead"},
                         todo : SUBSET BookedSeats, made : SUBSET BookedSeats]]
        /\ issue'[i].pc = "done" /\ issue'[i].made = issue[i].made
        /\ \A j \in Issues \ {i} : issue'[j] = issue[j]
    BY <1>4 DEF IssueAnswer, IssueTypeOK
  <2>2. /\ known' \in [BookedSeats -> SUBSET Issues]
        /\ \A s \in BookedSeats :
             known[s] \subseteq known'[s] /\ (s \in issue[i].made => i \in known'[s])
    BY <1>4, AddedRows DEF IssueAnswer, IssueTypeOK
  <2>3. Ended \subseteq Ended'
    BY <2>1 DEF Ended
  <2>4. IssueTypeOK' /\ OverEnded' /\ OneTicketPerSeat'
    BY <2>1, <2>2, <2>3 DEF IssueTypeOK, OverEnded, OneTicketPerSeat
  <2>5. RowsCommitted'
    BY <2>1, <2>2 DEF RowsCommitted, IssueTypeOK
  <2>6. MadeForNone'
    BY <2>1 DEF MadeForNone
  <2>7. NoSeatLeft'
    BY <2>1 DEF NoSeatLeft
  <2> QED
    BY <2>4, <2>5, <2>6, <2>7
<1>5. ASSUME NEW i \in Issues, IssueDies(i)
      PROVE  IssueInv'
  <2>1. /\ issue[i].pc \in {"seat", "answer"} /\ UNCHANGED <<tickets, known, over>>
        /\ issue' \in [Issues -> [pc : {"idle", "seat", "answer", "done", "dead"},
                         todo : SUBSET BookedSeats, made : SUBSET BookedSeats]]
        /\ issue'[i].pc = "dead" /\ issue'[i].made = issue[i].made
        /\ \A j \in Issues \ {i} : issue'[j] = issue[j]
    BY <1>5 DEF IssueDies, IssueTypeOK
  <2>2. Ended \subseteq Ended'
    BY <2>1 DEF Ended
  <2>3. IssueTypeOK' /\ OverEnded' /\ OneTicketPerSeat'
    BY <2>1, <2>2 DEF IssueTypeOK, OverEnded, OneTicketPerSeat
  <2>4. RowsCommitted'
    BY <2>1 DEF RowsCommitted, IssueTypeOK
  <2>5. MadeForNone'
    BY <2>1 DEF MadeForNone
  <2>6. NoSeatLeft'
    BY <2>1 DEF NoSeatLeft
  <2> QED
    BY <2>3, <2>4, <2>5, <2>6
<1>6. CASE UNCHANGED issueVars
  BY <1>6 DEF issueVars, IssueTypeOK, OverEnded, Ended, RowsCommitted, MadeForNone,
     NoSeatLeft, OneTicketPerSeat
<1> QED
  BY <1>1, <1>2, <1>3, <1>4, <1>5, <1>6 DEF IssueNext

\* The inductive invariant.
THEOREM IssueInvariant == IssueSpec => []IssueInv
BY IssueBegins, IssueStep, PTL DEF IssueSpec

\* tickets.service.ts generateTicketsForBooking: a seat gets two tickets only
\* from calls that overlap, and its token is lost only by a death after a commit.
THEOREM IssueIsSound == IssueSpec => []TicketsIssued
<1>1. IssueInv => TokenIsKnown
  <2> SUFFICES ASSUME IssueInv, NEW i \in Issues, NEW s \in BookedSeats,
                      issue[i].pc = "done"
               PROVE  known[s] # {} \/ \E j \in tickets[s] :
                                         issue[j].pc \in {"answer", "dead"}
    BY DEF TokenIsKnown
  <2>1. PICK j \in tickets[s] : TRUE
    BY DEF IssueInv, NoSeatLeft
  <2> QED
    BY <2>1 DEF IssueInv, RowsCommitted
<1>2. IssueInv => TicketsIssued
  BY <1>1 DEF IssueInv, TicketsIssued
<1> QED
  BY <1>2, IssueInvariant, PTL
-----------------------------------------------------------------------------
(* The session of the web client.                                          *)

TabRows ==
  [page : Paths \cup {"none"}, mem : Tokens \cup {NoToken},
   pc : {"rest", "asked", "served"}, to : Paths, full : BOOLEAN, back : Paths,
   hops : 0 .. MaxHops + 1, call : Tokens \cup {NoToken, NoCall}, behind : BOOLEAN]

\* The router works in a document, and without one there is no memory.
RouterHasPage ==
  \A i \in Tabs :
    /\ tab[i].pc = "asked" /\ ~tab[i].full => tab[i].page # "none"
    /\ tab[i].page = "none" => tab[i].mem = NoToken

\* What a tab holds was issued, and if it was logged out, by another tab.
MemoryKnown ==
  \A i \in Tabs :
    /\ tab[i].mem \in issued \cup {NoToken}
    /\ tab[i].mem \in out => tab[i].mem \in kept

SessionInv ==
  /\ SessionTypeOK /\ saved \in issued \cup {NoToken}
  /\ RouterHasPage /\ MemoryKnown /\ LoggedOutStaysOut /\ CallsAreItsOwn

\* A row that tab i may have when the sessions stay as they are.
Fits(r) ==
  /\ r \in TabRows /\ r.mem \in issued \cup {NoToken}
  /\ r.mem \in out => r.mem \in kept
  /\ r.pc = "asked" /\ ~r.full => r.page # "none"
  /\ r.page = "none" => r.mem = NoToken
  /\ r.page # "none" /\ ~r.behind => r.mem = saved

LEMMA HomeIsPath == \A role : Home(role) \in Portals \cup {"/"}
BY DEF Home, Portals, RouteGuard

LEMMA PathsAre ==
  /\ Portals \subseteq Paths /\ {"/", "/login", "/platform", "/auth/login"} \subseteq Paths
  /\ "none" \notin Paths
BY DEF Paths, Portals, RouteGuard

LEMMA ClosedFits ==
  ASSUME SessionInv
  PROVE  Fits(Closed)
<1>1. Closed \in TabRows
  BY SessionAssumption, PathsAre DEF Closed, TabRows
<1> QED
  BY <1>1, SessionAssumption DEF Closed, Fits, SessionInv, SessionTypeOK

LEMMA SessionBegins == SessionInit => SessionInv
<1> SUFFICES ASSUME SessionInit PROVE SessionInv
  OBVIOUS
<1>1. Closed \in TabRows
  BY SessionAssumption, PathsAre DEF Closed, TabRows
<1>2. SessionTypeOK
  BY <1>1 DEF SessionInit, SessionTypeOK, TabRows
<1> QED
  BY <1>2, SessionAssumption DEF SessionInit, SessionInv, Closed, RouterHasPage,
     MemoryKnown, LoggedOutStaysOut, CallsAreItsOwn

\* A tab takes a row that fits, and the cookie is a session that was not logged
\* out, or one that a tab still held.
LEMMA SetKeeps ==
  ASSUME SessionInv, NEW i \in Tabs, NEW new, Fits(new), Set(i, new),
         UNCHANGED <<saved, kind, issued, expired, out, kept>>,
         cookie' \in Tokens \cup {NoToken}, cookie' \in out => cookie' \in kept
  PROVE  SessionInv'
<1>1. tab \in [Tabs -> TabRows] /\ tab' = [tab EXCEPT ![i] = new]
  BY DEF SessionInv, SessionTypeOK, TabRows, Set
<1>2. /\ tab' \in [Tabs -> TabRows] /\ tab'[i] = new
      /\ \A j \in Tabs \ {i} : tab'[j] = tab[j]
  BY <1>1 DEF Fits
<1>3. SessionTypeOK'
  BY <1>2 DEF SessionInv, SessionTypeOK, TabRows
<1>4. RouterHasPage' /\ MemoryKnown' /\ CallsAreItsOwn'
  BY <1>2 DEF SessionInv, RouterHasPage, MemoryKnown, CallsAreItsOwn, Fits
<1> QED
  BY <1>3, <1>4 DEF SessionInv, LoggedOutStaysOut

\* The same when it has loaded, and the counts of the others start again.
LEMMA LoadedKeeps ==
  ASSUME SessionInv, NEW i \in Tabs, NEW new, Fits(new), NEW left, Loaded(i, new, left),
         UNCHANGED <<saved, kind, issued, expired, out, kept>>,
         left \in Tokens \cup {NoToken}, left \in out => left \in kept
  PROVE  SessionInv'
<1>1. /\ tab \in [Tabs -> TabRows] /\ 0 \in 0 .. MaxHops + 1 /\ cookie' = left
      /\ new \in TabRows
  BY SessionAssumption DEF SessionInv, SessionTypeOK, TabRows, Loaded, Fits
<1>2. \A j \in Tabs :
        LET x == IF left = cookie THEN tab[j] ELSE [tab[j] EXCEPT !.hops = 0]
        IN  /\ x \in TabRows /\ x.pc = tab[j].pc /\ x.full = tab[j].full
            /\ x.page = tab[j].page /\ x.mem = tab[j].mem /\ x.behind = tab[j].behind
  BY <1>1 DEF TabRows
<1>3. /\ tab' \in [Tabs -> TabRows] /\ tab'[i] = new
      /\ \A j \in Tabs \ {i} :
           /\ tab'[j].pc = tab[j].pc /\ tab'[j].full = tab[j].full
           /\ tab'[j].page = tab[j].page /\ tab'[j].mem = tab[j].mem
           /\ tab'[j].behind = tab[j].behind
  BY <1>1, <1>2 DEF Loaded
<1>4. SessionTypeOK'
  BY <1>1, <1>3 DEF SessionInv, SessionTypeOK, TabRows
<1>5. RouterHasPage' /\ MemoryKnown' /\ CallsAreItsOwn'
  BY <1>3 DEF SessionInv, RouterHasPage, MemoryKnown, CallsAreItsOwn, Fits
<1> QED
  BY <1>1, <1>4, <1>5 DEF SessionInv, LoggedOutStaysOut

LEMMA TabFits ==
  ASSUME SessionInv, NEW i \in Tabs
  PROVE  Fits(tab[i])
BY DEF SessionInv, SessionTypeOK, TabRows, RouterHasPage, MemoryKnown,
       CallsAreItsOwn, Fits

\* Asking for a path, and being sent to one.
LEMMA AsksFit ==
  ASSUME SessionInv, NEW r, Fits(r), NEW p \in Paths, NEW full \in BOOLEAN,
         NEW back \in Paths, r.page # "none" \/ full
  PROVE  /\ Fits(Asks(r, p, full, back)) /\ Fits(Redirect(r, p, full, back))
         /\ Fits([Asks(r, p, full, back) EXCEPT !.hops = 0])
<1>1. Fits(Leaves(r))
  <2>1. Closed \in TabRows /\ r.hops \in 0 .. MaxHops + 1
    BY ClosedFits DEF Fits, TabRows
  <2>2. Leaves(r) \in TabRows
    BY <2>1 DEF Leaves, TabRows
  <2> QED
    BY <2>2, SessionAssumption DEF Leaves, Closed, Fits, SessionInv, SessionTypeOK
<1>2. PICK q : /\ q = (IF full THEN Leaves(r) ELSE r)
               /\ Fits(q) /\ (full \/ q.page # "none")
  BY <1>1
<1>3. Asks(r, p, full, back)
        = [q EXCEPT !.pc = "asked", !.to = p, !.full = full, !.back = back]
  BY <1>2 DEF Asks
<1>4. Hop(r) \in 0 .. MaxHops + 1
  BY SessionAssumption DEF Hop, Fits, TabRows
<1>5. ASSUME NEW h \in 0 .. MaxHops + 1
      PROVE  Fits([Asks(r, p, full, back) EXCEPT !.hops = h])
  <2>1. q \in TabRows
    BY <1>2 DEF Fits
  <2>2. [Asks(r, p, full, back) EXCEPT !.hops = h]
          = [q EXCEPT !.pc = "asked", !.to = p, !.full = full, !.back = back, !.hops = h]
    BY <1>3, <2>1 DEF TabRows
  <2>3. [q EXCEPT !.pc = "asked", !.to = p, !.full = full, !.back = back, !.hops = h]
          \in TabRows
    BY <2>1 DEF TabRows
  <2> DEFINE x == [Asks(r, p, full, back) EXCEPT !.hops = h]
  <2>4. /\ x \in TabRows /\ x.pc = "asked" /\ x.full = full /\ x.page = q.page
        /\ x.mem = q.mem /\ x.behind = q.behind
    BY <2>1, <2>2, <2>3 DEF TabRows
  <2> HIDE DEF x
  <2>5. Fits(x)
    BY <1>2, <2>4 DEF Fits
  <2> QED
    BY <2>5 DEF x
<1>6. Fits(Asks(r, p, full, back))
  <2>1. q \in TabRows
    BY <1>2 DEF Fits
  <2>2. Asks(r, p, full, back) \in TabRows
    BY <1>3, <2>1 DEF TabRows
  <2> QED
    BY <1>2, <1>3, <2>1, <2>2 DEF Fits, TabRows
<1>7. 0 \in 0 .. MaxHops + 1
  BY SessionAssumption
<1> QED
  BY <1>4, <1>5, <1>6, <1>7 DEF Redirect

\* Where tabs are sent is a path.
LEMMA TargetsArePaths ==
  /\ \A p \in Paths : \A k : Routed(p, k) \in Paths
  /\ \A p \in Paths : \A t : Sent(p, t) \in Paths
  /\ \A r \in TabRows : \A t : Destination(r, t) \in Paths
BY HomeIsPath, PathsAre DEF Routed, Sent, GuardHome, Destination, TabRows

LEMMA RestsFits ==
  ASSUME SessionInv, NEW r, Fits(r)
  PROVE  Fits(Rests(r))
<1>1. PICK back \in Paths :
        Rests(r) = [r EXCEPT !.pc = "rest", !.hops = 0, !.to = "/", !.full = TRUE,
                             !.back = back]
  BY PathsAre DEF Rests, Fits, TabRows
<1>2. r \in TabRows /\ 0 \in 0 .. MaxHops + 1 /\ "/" \in Paths
  BY SessionAssumption, PathsAre DEF Fits
<1> DEFINE x == Rests(r)
<1>3. /\ x \in TabRows /\ x.pc = "rest" /\ x.page = r.page /\ x.mem = r.mem
      /\ x.behind = r.behind
  BY <1>1, <1>2 DEF TabRows
<1> HIDE DEF x
<1>4. Fits(x)
  BY <1>3 DEF Fits
<1> QED
  BY <1>4 DEF x

LEMMA AfterEffectsFits ==
  ASSUME SessionInv, NEW r, Fits(r), r.page # "none", NEW appears \in BOOLEAN
  PROVE  Fits(AfterEffects(r, appears))
<1>1. r \in TabRows /\ r.page \in Paths
  BY DEF Fits, TabRows
<1>2. Destination(r, r.mem) \in Paths /\ Sent(r.page, r.mem) \in Paths /\ "/" \in Paths
  BY <1>1, TargetsArePaths, PathsAre
<1>3. /\ Fits(Redirect(r, Destination(r, r.mem), FALSE, "/"))
      /\ Fits(Redirect(r, Sent(r.page, r.mem), FALSE, "/"))
      /\ Fits(Rests(r))
  BY <1>2, AsksFit, RestsFits
<1> QED
  BY <1>3 DEF AfterEffects

\* What changes nothing but the row of one tab, and perhaps the cookie.
LEMMA BrowsingKeeps ==
  ASSUME SessionInv, NEW i \in Tabs,
         \/ \E p \in Visited, full \in BOOLEAN : Visit(i, p, full)
         \/ MiddlewarePasses(i) \/ MiddlewareReroutes(i) \/ MiddlewareToLogin(i)
         \/ LoadDocument(i) \/ LoadRoute(i) \/ LoadSame(i)
         \/ CallApi(i) \/ AnswerOk(i)
  PROVE  SessionInv'
<1> DEFINE r == tab[i]
<1>1. /\ Fits(r) /\ r \in TabRows /\ r.to \in Paths /\ r.full \in BOOLEAN
      /\ r.pc = "asked" => r.page # "none" \/ r.full
  BY TabFits DEF Fits, TabRows
<1>2. /\ cookie \in Tokens \cup {NoToken} /\ saved \in Tokens \cup {NoToken}
      /\ cookie \in out => cookie \in kept
      /\ saved \notin out /\ r.mem \in Tokens \cup {NoToken}
      /\ r.mem \in out => r.mem \in kept
      /\ NoToken \notin out /\ issued \subseteq Tokens
      /\ "/" \in Paths /\ "/login" \in Paths
  BY <1>1, SessionAssumption, PathsAre
     DEF SessionInv, SessionTypeOK, LoggedOutStaysOut, Fits, TabRows
<1>3. ASSUME NEW p \in Visited, NEW full \in BOOLEAN, Visit(i, p, full)
      PROVE  SessionInv'
  <2>1. p \in Paths
    BY VisitedAssumption
  <2>2. Fits([Asks(r, p, full, "/") EXCEPT !.hops = 0])
    BY <1>1, <1>2, <1>3, <2>1, AsksFit DEF Visit
  <2> QED
    BY <1>2, <1>3, <2>2, SetKeeps DEF Visit
<1>4. CASE MiddlewarePasses(i)
  <2> DEFINE x == [r EXCEPT !.pc = "served"]
  <2>1. /\ x \in TabRows /\ x.pc = "served" /\ x.page = r.page /\ x.mem = r.mem
        /\ x.behind = r.behind
    BY <1>1 DEF TabRows
  <2>2. Set(i, x) /\ UNCHANGED <<cookie, saved, kind, issued, expired, out, kept>>
    BY <1>4 DEF MiddlewarePasses
  <2> HIDE DEF x
  <2>3. Fits(x)
    BY <1>1, <2>1 DEF Fits
  <2> QED
    BY <1>2, <2>2, <2>3, SetKeeps
<1>5. CASE MiddlewareReroutes(i)
  <2>1. Routed(r.to, kind[cookie]) \in Paths
    BY <1>1, TargetsArePaths
  <2>2. Fits(Redirect(r, Routed(r.to, kind[cookie]), r.full, "/"))
    BY <1>1, <1>2, <1>5, <2>1, AsksFit DEF MiddlewareReroutes
  <2> QED
    BY <1>2, <1>5, <2>2, SetKeeps DEF MiddlewareReroutes
<1>6. CASE MiddlewareToLogin(i)
  <2>1. PICK back \in Paths : Set(i, Redirect(r, "/login", r.full, back))
    BY <1>1, <1>2, <1>6 DEF MiddlewareToLogin
  <2>2. Fits(Redirect(r, "/login", r.full, back))
    BY <1>1, <1>2, <1>6, AsksFit DEF MiddlewareToLogin
  <2> QED
    BY <1>2, <1>6, <2>1, <2>2, SetKeeps DEF MiddlewareToLogin
<1>7. CASE LoadDocument(i)
  <2> DEFINE x == [r EXCEPT !.page = r.to, !.mem = saved]
  <2>1. /\ x \in TabRows /\ x.pc = "served" /\ x.page \in Paths /\ x.mem = saved
    BY <1>1, <1>2, <1>7 DEF TabRows, LoadDocument
  <2>2. PICK left \in {saved, cookie} : Loaded(i, AfterEffects(x, TRUE), left)
    BY <1>7 DEF LoadDocument
  <2> HIDE DEF x
  <2>3. Fits(x) /\ x.page # "none"
    BY <1>2, <2>1, PathsAre DEF Fits, SessionInv
  <2>4. Fits(AfterEffects(x, TRUE))
    BY <2>3, AfterEffectsFits
  <2>5. UNCHANGED <<saved, kind, issued, expired, out, kept>>
    BY <1>7 DEF LoadDocument
  <2> QED
    BY <1>2, <2>2, <2>4, <2>5, LoadedKeeps
<1>8. CASE LoadRoute(i)
  <2> DEFINE x == [r EXCEPT !.page = r.to]
             appears == r.page # x.page
  <2>1. /\ x \in TabRows /\ x.pc = "asked" /\ x.page \in Paths /\ x.mem = r.mem
        /\ x.behind = r.behind /\ ~r.full /\ r.pc = "asked"
    BY <1>1, <1>8 DEF TabRows, LoadRoute
  <2>2. /\ Loaded(i, AfterEffects(x, appears), CookieAfterEffects(x, appears, cookie))
        /\ UNCHANGED <<saved, kind, issued, expired, out, kept>>
    BY <1>8 DEF LoadRoute
  <2>3. appears \in BOOLEAN
    OBVIOUS
  <2> HIDE DEF x, appears
  <2>4. Fits(x) /\ x.page # "none"
    BY <1>1, <2>1, PathsAre DEF Fits
  <2>5. Fits(AfterEffects(x, appears))
    BY <2>3, <2>4, AfterEffectsFits
  <2>6. PICK left \in {r.mem, cookie} : Loaded(i, AfterEffects(x, appears), left)
    BY <2>1, <2>2 DEF CookieAfterEffects
  <2> QED
    BY <1>2, <2>2, <2>5, <2>6, LoadedKeeps
<1>9. CASE LoadSame(i)
  BY <1>1, <1>2, <1>9, RestsFits, SetKeeps DEF LoadSame
<1>10. ASSUME NEW c \in Tokens \cup {NoToken, NoCall},
              Set(i, [r EXCEPT !.call = c]),
              UNCHANGED <<cookie, saved, kind, issued, expired, out, kept>>
       PROVE  SessionInv'
  <2> DEFINE x == [r EXCEPT !.call = c]
  <2>1. /\ x \in TabRows /\ x.pc = r.pc /\ x.page = r.page /\ x.mem = r.mem
        /\ x.behind = r.behind /\ x.full = r.full
    BY <1>1 DEF TabRows
  <2>2. Set(i, x)
    BY <1>10
  <2> HIDE DEF x
  <2>3. Fits(x)
    BY <1>1, <2>1 DEF Fits
  <2> QED
    BY <1>2, <1>10, <2>2, <2>3, SetKeeps
<1>11. CASE CallApi(i)
  BY <1>2, <1>10, <1>11 DEF CallApi
<1>12. CASE AnswerOk(i)
  BY <1>10, <1>12 DEF AnswerOk
<1> QED
  BY <1>3, <1>4, <1>5, <1>6, <1>7, <1>8, <1>9, <1>11, <1>12

\* A session begins or ends in tab i, and the others are not told.
LEMMA BehindKeeps ==
  ASSUME SessionInv, NEW i \in Tabs, NEW new \in TabRows, Behind(i, new),
         new.pc = "asked" /\ ~new.full => new.page # "none",
         new.page = "none" => new.mem = NoToken,
         new.page # "none" /\ ~new.behind => new.mem = saved',
         new.mem \in (issued' \ out') \cup {NoToken},
         saved' \in (issued' \ out') \cup {NoToken},
         cookie' \in (issued' \ out') \cup {NoToken},
         UNCHANGED <<kind, expired>>, issued \subseteq issued', issued' \subseteq Tokens,
         out' \subseteq issued', kept' \subseteq out',
         \A j \in Tabs \ {i} : tab[j].mem \in out' => tab[j].mem \in kept'
  PROVE  SessionInv'
<1>1. tab \in [Tabs -> TabRows] /\ 0 \in 0 .. MaxHops + 1
  BY SessionAssumption DEF SessionInv, SessionTypeOK, TabRows
<1>2. \A j \in Tabs :
        LET x == [tab[j] EXCEPT !.behind = tab[j].page # "none", !.hops = 0]
        IN  /\ x \in TabRows /\ x.pc = tab[j].pc /\ x.full = tab[j].full
            /\ x.page = tab[j].page /\ x.mem = tab[j].mem
            /\ x.page # "none" => x.behind
  BY <1>1 DEF TabRows
<1>3. /\ tab' \in [Tabs -> TabRows] /\ tab'[i] = new
      /\ \A j \in Tabs \ {i} :
           /\ tab'[j].pc = tab[j].pc /\ tab'[j].full = tab[j].full
           /\ tab'[j].page = tab[j].page /\ tab'[j].mem = tab[j].mem
           /\ tab'[j].page # "none" => tab'[j].behind
  BY <1>2 DEF Behind
<1>4. SessionTypeOK'
  BY <1>3 DEF SessionInv, SessionTypeOK, TabRows
<1>5. RouterHasPage'
  BY <1>3 DEF SessionInv, RouterHasPage
<1>6. NoToken \notin issued'
  BY SessionAssumption
<1>7. MemoryKnown'
  BY <1>3, <1>6 DEF SessionInv, MemoryKnown
<1>8. CallsAreItsOwn' /\ LoggedOutStaysOut'
  BY <1>3, <1>6 DEF CallsAreItsOwn, LoggedOutStaysOut
<1> QED
  BY <1>4, <1>5, <1>7, <1>8 DEF SessionInv

LEMMA LoginKeeps ==
  ASSUME SessionInv, NEW i \in Tabs, NEW t \in Tokens, Login(i, t)
  PROVE  SessionInv'
<1> DEFINE r == tab[i]
           x == Asks(r, Destination(r, t), FALSE, "/")
           new == [x EXCEPT !.mem = t, !.hops = 0, !.behind = FALSE]
<1>1. /\ Fits(r) /\ r \in TabRows /\ r.page = "/login" /\ 0 \in 0 .. MaxHops + 1
      /\ issued \subseteq Tokens /\ out \subseteq issued /\ kept \subseteq out
  BY TabFits, SessionAssumption DEF Fits, Login, SessionInv, SessionTypeOK
<1>2. Destination(r, t) \in Paths /\ "/" \in Paths /\ r.page # "none"
  BY <1>1, TargetsArePaths, PathsAre
<1>3. x \in TabRows /\ x.pc = "asked" /\ x.page = r.page
  <2>1. Fits(x)
    BY <1>1, <1>2, TabFits, AsksFit
  <2>2. x.pc = "asked" /\ x.page = r.page
    BY <1>1, TabFits DEF Asks, Fits, TabRows
  <2> QED
    BY <2>1, <2>2 DEF Fits
<1> HIDE DEF x
<1>4. /\ new \in TabRows /\ new.mem = t /\ new.page = r.page
  BY <1>1, <1>3 DEF TabRows
<1>5. /\ Behind(i, new) /\ issued' = issued \cup {t} /\ t \notin issued
      /\ cookie' = t /\ saved' = t /\ UNCHANGED <<kind, expired, out, kept>>
  BY DEF Login, x
<1> HIDE DEF new
<1>6. \A j \in Tabs : tab[j].mem \in out => tab[j].mem \in kept
  BY DEF SessionInv, MemoryKnown
<1> QED
  BY <1>1, <1>2, <1>4, <1>5, <1>6, BehindKeeps

\* Logging out, by the user or after an answer 401: whatever tab i held is gone.
LEMMA LogoutKeeps ==
  ASSUME SessionInv, NEW i \in Tabs,
         (\E p \in {"/", "/login"} : Logout(i, p)) \/ AnswerUnauthorized(i)
  PROVE  SessionInv'
<1> DEFINE r == tab[i]
<1>1. /\ Fits(r) /\ r \in TabRows /\ "/" \in Paths /\ "/login" \in Paths
      /\ issued \subseteq Tokens /\ out \subseteq issued /\ kept \subseteq out
      /\ r.mem \in issued \cup {NoToken} /\ 0 \in 0 .. MaxHops + 1
      /\ r.page = "none" => r.mem = NoToken
      /\ \A j \in Tabs : tab[j].mem \in out => tab[j].mem \in kept
  BY TabFits, PathsAre, SessionAssumption DEF Fits, SessionInv, SessionTypeOK, MemoryKnown
<1>2. ASSUME NEW p \in {"/", "/login"}, Logout(i, p)
      PROVE  SessionInv'
  <2> DEFINE x == Asks(r, p, FALSE, "/")
             new == [x EXCEPT !.mem = NoToken, !.hops = 0, !.behind = FALSE]
  <2>1. r.page # "none"
    BY <1>1, <1>2, SessionAssumption DEF Logout, Session
  <2>2. x = [r EXCEPT !.pc = "asked", !.to = p, !.full = FALSE, !.back = "/"]
    BY DEF Asks
  <2>3. x \in TabRows /\ x.pc = "asked" /\ x.page = r.page
    <3>1. p \in Paths
      BY <1>1
    <3>2. Fits(x)
      BY <1>1, <2>1, <3>1, AsksFit
    <3>3. x.pc = "asked" /\ x.page = r.page
      BY <1>1, <2>2 DEF TabRows
    <3> QED
      BY <3>2, <3>3 DEF Fits
  <2>4. /\ Behind(i, new) /\ cookie' = NoToken /\ saved' = NoToken
        /\ out' = out \cup {r.mem} /\ r.mem \in Tokens
        /\ kept' = kept \cup {t \in out' : \E j \in Tabs \ {i} : tab[j].mem = t}
        /\ UNCHANGED <<kind, issued, expired>>
    BY <1>2 DEF Logout, Cleared, Session
  <2> HIDE DEF x
  <2>5. new \in TabRows /\ new.mem = NoToken /\ new.page = r.page
    BY <1>1, <2>3 DEF TabRows
  <2> HIDE DEF new
  <2> QED
    BY <1>1, <2>1, <2>4, <2>5, SessionAssumption, BehindKeeps
<1>3. CASE AnswerUnauthorized(i)
  <2> DEFINE x == Asks(r, "/login", TRUE, "/")
             new == [x EXCEPT !.mem = NoToken, !.hops = 0, !.call = NoCall,
                              !.behind = FALSE]
  <2>1. Fits(x)
    BY <1>1, AsksFit
  <2>2. x.full
    <3>1. Leaves(r) = [Closed EXCEPT !.hops = r.hops]
      BY DEF Leaves
    <3> QED
      BY <3>1 DEF Asks, Closed
  <2>3. /\ Behind(i, new) /\ cookie' = NoToken /\ saved' = NoToken
        /\ UNCHANGED <<kind, issued, expired, out, kept>>
    BY <1>3 DEF AnswerUnauthorized, Cleared
  <2> HIDE DEF x
  <2>4. x \in TabRows
    BY <2>1 DEF Fits
  <2>5. new \in TabRows /\ new.mem = NoToken /\ new.full
    BY <1>1, <2>2, <2>4 DEF TabRows
  <2> HIDE DEF new
  <2> QED
    BY <1>1, <2>3, <2>5, SessionAssumption, BehindKeeps
<1> QED
  BY <1>2, <1>3

LEMMA ExpireKeeps ==
  ASSUME SessionInv, NEW t \in Tokens, Expire(t)
  PROVE  SessionInv'
<1>1. /\ tab \in [Tabs -> TabRows] /\ 0 \in 0 .. MaxHops + 1
      /\ t \in issued /\ expired' = expired \cup {t}
      /\ UNCHANGED <<cookie, saved, kind, issued, out, kept>>
      /\ tab' = [i \in Tabs |-> [tab[i] EXCEPT !.hops = 0]]
  BY SessionAssumption DEF SessionInv, SessionTypeOK, TabRows, Expire
<1>2. \A i \in Tabs :
        LET x == [tab[i] EXCEPT !.hops = 0]
        IN  /\ x \in TabRows /\ x.pc = tab[i].pc /\ x.full = tab[i].full
            /\ x.page = tab[i].page /\ x.mem = tab[i].mem /\ x.behind = tab[i].behind
  BY <1>1 DEF TabRows
<1>3. /\ tab' \in [Tabs -> TabRows]
      /\ \A i \in Tabs :
           /\ tab'[i].pc = tab[i].pc /\ tab'[i].full = tab[i].full
           /\ tab'[i].page = tab[i].page /\ tab'[i].mem = tab[i].mem
           /\ tab'[i].behind = tab[i].behind
  BY <1>1, <1>2
<1>4. SessionTypeOK'
  BY <1>1, <1>3 DEF SessionInv, SessionTypeOK, TabRows
<1>5. RouterHasPage' /\ MemoryKnown' /\ CallsAreItsOwn' /\ LoggedOutStaysOut'
  BY <1>1, <1>3 DEF SessionInv, RouterHasPage, MemoryKnown, CallsAreItsOwn,
     LoggedOutStaysOut
<1> QED
  BY <1>1, <1>4, <1>5 DEF SessionInv

LEMMA CloseKeeps ==
  ASSUME SessionInv, CloseBrowser
  PROVE  SessionInv'
<1>1. /\ tab' = [i \in Tabs |-> Closed] /\ cookie' = NoToken
      /\ UNCHANGED <<saved, kind, issued, expired, out, kept>>
      /\ NoToken \notin out
  BY SessionAssumption DEF CloseBrowser, SessionInv, SessionTypeOK
<1>2. Closed \in TabRows
  BY ClosedFits DEF Fits
<1>3. SessionTypeOK'
  BY <1>1, <1>2 DEF SessionInv, SessionTypeOK, TabRows
<1> QED
  BY <1>1, <1>3 DEF SessionInv, Closed, RouterHasPage, MemoryKnown,
     LoggedOutStaysOut, CallsAreItsOwn

LEMMA SessionStep == SessionInv /\ [SessionNext]_sessionVars => SessionInv'
<1> SUFFICES ASSUME SessionInv, [SessionNext]_sessionVars PROVE SessionInv'
  OBVIOUS
<1>1. CASE UNCHANGED sessionVars
  BY <1>1 DEF sessionVars, SessionInv, SessionTypeOK, RouterHasPage, MemoryKnown,
     LoggedOutStaysOut, CallsAreItsOwn
<1>2. CASE SessionNext
  BY <1>2, BrowsingKeeps, LoginKeeps, LogoutKeeps, ExpireKeeps, CloseKeeps
     DEF SessionNext
<1> QED
  BY <1>1, <1>2

\* The inductive invariant.
THEOREM SessionInvariant == SessionSpec => []SessionInv
BY SessionBegins, SessionStep, PTL DEF SessionSpec

\* authStore.ts logout: a session logged out in one tab comes back only from
\* another tab's memory.
THEOREM LogoutLasts == SessionSpec => []LoggedOutStaysOut
<1>1. SessionInv => LoggedOutStaysOut
  BY DEF SessionInv
<1> QED
  BY <1>1, SessionInvariant, PTL

\* lib/api.ts: the token sent is that of the session shown, unless another tab
\* has changed it since.
THEOREM CallsCarryOwn == SessionSpec => []CallsAreItsOwn
<1>1. SessionInv => CallsAreItsOwn
  BY DEF SessionInv
<1> QED
  BY <1>1, SessionInvariant, PTL
-----------------------------------------------------------------------------
(* The redirects of a tab end.                                             *)

\* The redirects that count, when the cookie is ck and the tab holds r: s is what
\* localStorage holds, k the kinds of the tokens, gone those that are over.
Counts(r, ck, s, k, gone) ==
  ck \in Tokens \ gone =>
    ck = (IF r.full THEN s ELSE r.mem) /\ k[ck] # "ADMIN_NO_TENANT"

\* How many of them the tab has before it at most: with a session that is good,
\* to the home of its role, or to the page that does not exist; without one, to
\* the login page first, and from it once, for the page stays where it is when it
\* is asked for again.
Left(r, ck, s, k, gone) ==
  IF r.pc = "rest" \/ ~Counts(r, ck, s, k, gone) THEN 0
  ELSE IF ck \in Tokens \ gone
    THEN IF r.to \in {Home(Role(k[ck])), "/auth/login"} THEN 0
         ELSE IF r.pc = "served" /\ r.to \in Portals \cup {"/login"} THEN 2 ELSE 1
  ELSE IF r.pc = "served" THEN IF r.to = "/login" THEN 2 ELSE 4
  ELSE IF ~r.full /\ r.page = "/login" THEN IF r.to = "/login" THEN 0 ELSE 1
  ELSE IF r.to = "/login" THEN 2 ELSE 3

FewLeft ==
  \A i \in Tabs : tab[i].hops + Left(tab[i], cookie, saved, kind, expired) <= 4

HopInv == SessionInv /\ FewLeft

\* A count that starts again leaves room for all of them.
LEMMA LeftIsFew ==
  \A r, ck, s, k, gone : Left(r, ck, s, k, gone) \in 0 .. 4
BY DEF Left

\* The home of a role is a page of that role.
LEMMA HomeIsOwn ==
  /\ \A role : /\ Home(role) \notin {"/login", "/platform", "/auth/login"}
               /\ Home(role) \in Portals => RouteGuard[Home(role)] = role
               /\ GuardHome(role) \in {Home(role), "/login"}
  /\ \A p \in Portals : Home(RouteGuard[p]) = p
  /\ Portals \cap {"/", "/login", "/platform", "/auth/login"} = {}
BY DEF Home, GuardHome, Portals, RouteGuard

LEMMA RoutedIs ==
  ASSUME NEW p \in Paths, NEW k
  PROVE  /\ Routed("/login", k) = Home(Role(k))
         /\ Routed(p, k) # p /\ k # "ADMIN_NO_TENANT" =>
              /\ Routed(p, k) = Home(Role(k))
              /\ p \notin {Home(Role(k)), "/auth/login"}
         /\ Routed(p, k) = p /\ p \in Portals => RouteGuard[p] = Role(k)
<1>1. p \in Portals => Routed(p, k) =
        IF RouteGuard[p] # Role(k) THEN Home(Role(k))
        ELSE IF k = "ADMIN_NO_TENANT" THEN "/login" ELSE p
  BY HomeIsOwn DEF Routed
<1>2. p \notin Portals => Routed(p, k) = IF p = "/login" THEN Home(Role(k)) ELSE p
  BY DEF Routed
<1>3. Routed("/login", k) = Home(Role(k))
  BY DEF Routed
<1> QED
  BY <1>1, <1>2, <1>3, HomeIsOwn

\* What a redirect makes of a row.
LEMMA RedirectIs ==
  ASSUME NEW r \in TabRows, NEW p, NEW full \in BOOLEAN, NEW back
  PROVE  LET x == Redirect(r, p, full, back)
         IN  /\ x.pc = "asked" /\ x.to = p /\ x.full = full /\ x.hops = Hop(r)
             /\ ~full => x.page = r.page /\ x.mem = r.mem
<1>1. Leaves(r) = [Closed EXCEPT !.hops = r.hops]
  BY DEF Leaves
<1> QED
  BY <1>1 DEF Redirect, Asks, Closed, TabRows

LEMMA HopIs ==
  ASSUME NEW r \in TabRows
  PROVE  /\ Hop(r) \in Nat /\ Hop(r) <= r.hops + 1
         /\ ~OneSession(r) => Hop(r) = 0
         /\ OneSession(r) <=> Counts(r, cookie, saved, kind, expired)
BY SessionAssumption DEF Hop, TabRows, OneSession, Counts, Valid, Session, Held

\* A tab takes a row with few redirects left, and the cookie stays as good as it
\* was.
LEMMA SetFew ==
  ASSUME HopInv, NEW i \in Tabs, NEW new, Set(i, new),
         UNCHANGED <<saved, kind, expired>>,
         cookie' = cookie \/ (~Valid(cookie) /\ cookie' = NoToken),
         new.hops + Left(new, cookie', saved, kind, expired) <= 4
  PROVE  FewLeft'
<1>1. tab' = [tab EXCEPT ![i] = new] /\ tab \in [Tabs -> TabRows]
  BY DEF Set, HopInv, SessionInv, SessionTypeOK, TabRows
<1>2. \A r : Left(r, cookie', saved, kind, expired) = Left(r, cookie, saved, kind, expired)
  BY SessionAssumption DEF Left, Counts, Valid, Session
<1>3. \A j \in Tabs : tab'[j].hops + Left(tab'[j], cookie', saved, kind, expired) <= 4
  BY <1>1, <1>2 DEF HopInv, FewLeft
<1> QED
  BY <1>3 DEF FewLeft

\* A tab that has loaded takes such a row, and the others keep the cookie or start
\* again.
LEMMA LoadedFew ==
  ASSUME HopInv, NEW i \in Tabs, NEW new, NEW left, Loaded(i, new, left),
         UNCHANGED <<saved, kind, expired>>,
         new.hops + Left(new, left, saved, kind, expired) <= 4
  PROVE  FewLeft'
<1>1. tab \in [Tabs -> TabRows] /\ cookie' = left
  BY DEF Loaded, HopInv, SessionInv, SessionTypeOK, TabRows
<1>2. /\ tab'[i] = new
      /\ \A j \in Tabs \ {i} : IF left = cookie THEN tab'[j] = tab[j] ELSE tab'[j].hops = 0
  BY <1>1 DEF Loaded, TabRows
<1>3. \A j \in Tabs : tab'[j].hops + Left(tab'[j], left, saved, kind, expired) <= 4
  BY <1>2, LeftIsFew DEF HopInv, FewLeft
<1> QED
  BY <1>1, <1>3 DEF FewLeft

\* The counts of all tabs start again.
LEMMA StartAgainFew ==
  ASSUME \A j \in Tabs : tab'[j].hops = 0
  PROVE  FewLeft'
<1>1. \A j \in Tabs :
        tab'[j].hops + Left(tab'[j], cookie', saved', kind', expired') <= 4
  BY LeftIsFew
<1> QED
  BY <1>1 DEF FewLeft

LEMMA BehindFew ==
  ASSUME HopInv, NEW i \in Tabs, NEW new, Behind(i, new), new.hops = 0
  PROVE  FewLeft'
<1>1. tab \in [Tabs -> TabRows]
  BY DEF HopInv, SessionInv, SessionTypeOK, TabRows
<1>2. \A j \in Tabs : tab'[j].hops = 0
  BY <1>1 DEF Behind, TabRows
<1> QED
  BY <1>2, StartAgainFew

\* The middleware: a reroute is the last but for one, a login the first of three.
LEMMA MiddlewareFew ==
  ASSUME HopInv, NEW i \in Tabs,
         MiddlewarePasses(i) \/ MiddlewareReroutes(i) \/ MiddlewareToLogin(i)
  PROVE  FewLeft'
<1> DEFINE r == tab[i]
<1>1. /\ r \in TabRows /\ r.to \in Paths /\ r.full \in BOOLEAN /\ r.hops \in Nat
      /\ r.hops + Left(r, cookie, saved, kind, expired) <= 4
      /\ NoToken \notin Tokens
  BY TabFits, SessionAssumption DEF HopInv, FewLeft, Fits, TabRows
<1>2. r.pc = "asked"
  BY DEF MiddlewarePasses, MiddlewareReroutes, MiddlewareToLogin
<1> HIDE DEF r
<1>3. CASE MiddlewarePasses(i)
  <2> DEFINE x == [r EXCEPT !.pc = "served"]
  <2>1. /\ x.pc = "served" /\ x.to = r.to /\ x.full = r.full /\ x.mem = r.mem
        /\ x.hops = r.hops
    BY <1>1 DEF TabRows
  <2>2. /\ Set(i, x) /\ UNCHANGED <<cookie, saved, kind, expired>>
        /\ r.full /\ LetThrough(r)
    BY <1>3 DEF MiddlewarePasses, r
  <2> HIDE DEF x
  <2>3. Counts(x, cookie, saved, kind, expired) = Counts(r, cookie, saved, kind, expired)
    BY <2>1 DEF Counts
  <2>4. IF cookie \in Tokens \ expired
          THEN r.to # "/login" /\ (r.to \in Portals => r.to = Home(Role(kind[cookie])))
          ELSE r.to = "/login"
    BY <1>1, <2>2, RoutedIs, HomeIsOwn DEF LetThrough, Valid, Session
  <2>5. Left(x, cookie, saved, kind, expired) <= Left(r, cookie, saved, kind, expired)
    BY <1>2, <2>1, <2>2, <2>3, <2>4 DEF Left
  <2>6. x.hops + Left(x, cookie, saved, kind, expired) <= 4
    BY <1>1, <2>1, <2>5, LeftIsFew
  <2> QED
    BY <2>2, <2>6, SetFew
<1>4. CASE MiddlewareReroutes(i)
  <2> DEFINE p == Routed(r.to, kind[cookie])
             x == Redirect(r, p, r.full, "/")
  <2>1. /\ Set(i, x) /\ UNCHANGED <<cookie, saved, kind, expired>>
        /\ cookie \in Tokens \ expired /\ p # r.to
    BY <1>4 DEF MiddlewareReroutes, r, Valid, Session
  <2>2. /\ x.pc = "asked" /\ x.to = p /\ x.hops = Hop(r)
        /\ x.full = r.full /\ (~r.full => x.mem = r.mem)
    BY <1>1, RedirectIs
  <2> HIDE DEF x
  <2>3. Counts(x, cookie, saved, kind, expired) = Counts(r, cookie, saved, kind, expired)
    BY <2>2 DEF Counts
  <2>4. ASSUME ~OneSession(r)
        PROVE  x.hops + Left(x, cookie, saved, kind, expired) <= 4
    BY <1>1, <2>2, <2>4, HopIs, LeftIsFew
  <2>5. ASSUME OneSession(r)
        PROVE  x.hops + Left(x, cookie, saved, kind, expired) <= 4
    <3>1. Counts(r, cookie, saved, kind, expired) /\ kind[cookie] # "ADMIN_NO_TENANT"
      BY <1>1, <2>1, <2>5, HopIs DEF Counts
    <3>2. p = Home(Role(kind[cookie])) /\ r.to \notin {p, "/auth/login"}
      BY <1>1, <2>1, <3>1, RoutedIs
    <3> HIDE DEF p
    <3>3. Left(r, cookie, saved, kind, expired) = 1
      BY <1>2, <2>1, <3>1, <3>2 DEF Left
    <3>4. Left(x, cookie, saved, kind, expired) = 0
      BY <2>1, <2>2, <2>3, <3>1, <3>2 DEF Left
    <3> QED
      BY <1>1, <2>2, <3>3, <3>4, HopIs
  <2>6. x.hops + Left(x, cookie, saved, kind, expired) <= 4
    BY <2>4, <2>5
  <2> QED
    BY <2>1, <2>6, SetFew
<1>5. CASE MiddlewareToLogin(i)
  <2>1. PICK back : /\ Set(i, Redirect(r, "/login", r.full, back))
                    /\ UNCHANGED <<saved, kind, expired>>
                    /\ cookie' = NoToken /\ ~Valid(cookie) /\ r.to # "/login"
    BY <1>5 DEF MiddlewareToLogin, r
  <2> DEFINE x == Redirect(r, "/login", r.full, back)
  <2>2. /\ x.pc = "asked" /\ x.to = "/login" /\ x.hops = Hop(r)
        /\ x.full = r.full /\ (~r.full => x.page = r.page)
    BY <1>1, RedirectIs
  <2> HIDE DEF x
  <2>3. cookie \notin Tokens \ expired /\ NoToken \notin Tokens \ expired
    BY <1>1, <2>1 DEF Valid, Session
  <2>4. Left(r, cookie, saved, kind, expired) = IF ~r.full /\ r.page = "/login" THEN 1 ELSE 3
    BY <1>2, <2>1, <2>3 DEF Left, Counts
  <2>5. Left(x, NoToken, saved, kind, expired) = IF ~r.full /\ r.page = "/login" THEN 0 ELSE 2
    BY <1>1, <2>2, <2>3 DEF Left, Counts
  <2>6. x.hops + Left(x, NoToken, saved, kind, expired) <= 4
    BY <1>1, <2>2, <2>4, <2>5, HopIs
  <2>7. Set(i, x)
    BY <2>1 DEF x
  <2> QED
    BY <2>1, <2>6, <2>7, SetFew
<1> QED
  BY <1>3, <1>4, <1>5

\* The tab shows a page: it rests, or the page sends it on.
LEMMA EffectsAre ==
  ASSUME NEW r \in TabRows, NEW appears \in BOOLEAN
  PROVE  \/ AfterEffects(r, appears) = Rests(r)
         \/ /\ r.page = "/login" /\ appears /\ Session(r.mem)
            /\ AfterEffects(r, appears) = Redirect(r, Destination(r, r.mem), FALSE, "/")
         \/ /\ r.page # "/login" /\ Sent(r.page, r.mem) # r.page
            /\ AfterEffects(r, appears) = Redirect(r, Sent(r.page, r.mem), FALSE, "/")
BY DEF AfterEffects

\* A page that is not the login page sends on from a portal of another role, or
\* from /platform.
LEMMA SentIs ==
  ASSUME NEW p \in Paths, NEW t \in Tokens, Sent(p, t) # p
  PROVE  \/ p = "/platform" /\ Sent(p, t) = "/auth/login"
         \/ /\ p \in Portals /\ RouteGuard[p] # Role(kind[t])
            /\ Sent(p, t) \in {Home(Role(kind[t])), "/login"}
BY HomeIsOwn DEF Sent, Session

LEMMA LoadDocumentFew ==
  ASSUME HopInv, NEW i \in Tabs, LoadDocument(i)
  PROVE  FewLeft'
<1> DEFINE q == tab[i]
           r == [q EXCEPT !.page = q.to, !.mem = saved]
           new == AfterEffects(r, TRUE)
           left == IF Session(saved) THEN saved ELSE cookie
<1>1. /\ q \in TabRows /\ q.to \in Paths /\ q.hops \in Nat
      /\ q.hops + Left(q, cookie, saved, kind, expired) <= 4
      /\ saved \in Tokens \cup {NoToken} /\ NoToken \notin Tokens
  BY TabFits, SessionAssumption
     DEF HopInv, FewLeft, Fits, TabRows, SessionInv, SessionTypeOK
<1>2. /\ Loaded(i, new, left) /\ UNCHANGED <<saved, kind, expired>>
      /\ q.pc = "served" /\ q.full
  BY <1>1 DEF LoadDocument, TabRows
<1> HIDE DEF q
<1>3. /\ r \in TabRows /\ r.page = q.to /\ r.mem = saved /\ r.full /\ r.hops = q.hops
  BY <1>1, <1>2 DEF TabRows
<1> HIDE DEF r
<1>4. /\ OneSession(r) <=> Counts(q, cookie, saved, kind, expired)
      /\ Hop(r) \in Nat /\ Hop(r) <= q.hops + 1 /\ (~OneSession(r) => Hop(r) = 0)
  <2>1. Counts(r, cookie, saved, kind, expired) <=> Counts(q, cookie, saved, kind, expired)
    BY <1>2, <1>3 DEF Counts
  <2> QED
    BY <1>3, <2>1, HopIs
<1> HIDE DEF new, left
<1>5. ASSUME new = Rests(r)
      PROVE  new.hops + Left(new, left, saved, kind, expired) <= 4
  BY <1>3, <1>5, LeftIsFew DEF Rests, TabRows
<1>6. ASSUME NEW p, NEW x, x = Redirect(r, p, FALSE, "/"),
             \/ r.page = "/login" /\ Session(saved)
             \/ r.page # "/login" /\ p = Sent(r.page, saved) /\ p # r.page
      PROVE  x.hops + Left(x, left, saved, kind, expired) <= 4
  <2>1. /\ x.pc = "asked" /\ x.to = p /\ x.full = FALSE /\ x.hops = Hop(r)
        /\ x.page = r.page /\ x.mem = saved
    BY <1>3, <1>6 DEF Redirect, Asks, TabRows
  <2>2. CASE ~OneSession(r)
    BY <1>4, <2>1, <2>2, LeftIsFew
  <2>3. CASE OneSession(r) /\ cookie \in Tokens \ expired
    <3>1. /\ Counts(q, cookie, saved, kind, expired) /\ cookie = saved /\ left = saved
      BY <1>2, <1>4, <2>3 DEF Counts, Session, left
    <3>2. CASE r.page = "/login"
      <4>1. Left(q, cookie, saved, kind, expired) = 2
        BY <1>2, <1>3, <2>3, <3>1, <3>2, HomeIsOwn DEF Left
      <4>2. Left(x, saved, saved, kind, expired) \in 0 .. 1
        BY <2>1, <2>3, <3>1 DEF Left
      <4> QED
        BY <1>1, <1>4, <2>1, <3>1, <4>1, <4>2
    <3>3. CASE r.page # "/login"
      <4>1. p = Sent(q.to, saved) /\ p # q.to
        BY <1>3, <1>6, <3>3
      <4>2. \/ q.to = "/platform" /\ p = "/auth/login"
            \/ /\ q.to \in Portals /\ RouteGuard[q.to] # Role(kind[saved])
               /\ p \in {Home(Role(kind[saved])), "/login"}
        BY <1>1, <2>3, <3>1, <4>1, SentIs
      <4>3. q.to \notin {Home(Role(kind[cookie])), "/auth/login", "/login"}
        BY <1>3, <3>1, <3>3, <4>2, HomeIsOwn
      <4>4. CASE p = "/login"
        <5>1. Left(q, cookie, saved, kind, expired) = 2
          BY <1>2, <2>3, <3>1, <4>2, <4>3, <4>4 DEF Left
        <5>2. Left(x, saved, saved, kind, expired) \in 0 .. 1
          BY <2>1, <2>3, <3>1 DEF Left
        <5> QED
          BY <1>1, <1>4, <2>1, <3>1, <5>1, <5>2
      <4>5. CASE p # "/login"
        <5>1. Left(q, cookie, saved, kind, expired) \in 1 .. 2
          BY <1>2, <2>3, <3>1, <4>3 DEF Left
        <5>2. Left(x, saved, saved, kind, expired) = 0
          BY <2>1, <2>3, <3>1, <4>2, <4>5 DEF Left
        <5> QED
          BY <1>1, <1>4, <2>1, <3>1, <5>1, <5>2
      <4> QED
        BY <4>4, <4>5
    <3> QED
      BY <3>2, <3>3
  <2>4. CASE cookie \notin Tokens \ expired
    <3>1. Counts(q, cookie, saved, kind, expired)
      BY <2>4 DEF Counts
    <3>2. Left(q, cookie, saved, kind, expired) = IF q.to = "/login" THEN 2 ELSE 4
      BY <1>2, <2>4, <3>1 DEF Left
    <3>3. Left(x, left, saved, kind, expired) \in 0 .. (IF q.to = "/login" THEN 1 ELSE 3)
      BY <1>3, <2>1 DEF Left
    <3> QED
      BY <1>1, <1>4, <2>1, <3>2, <3>3
  <2> QED
    BY <2>2, <2>3, <2>4
<1>7. new.hops + Left(new, left, saved, kind, expired) <= 4
  <2>1. \/ new = Rests(r)
        \/ /\ r.page = "/login" /\ Session(saved)
           /\ new = Redirect(r, Destination(r, saved), FALSE, "/")
        \/ /\ r.page # "/login" /\ Sent(r.page, saved) # r.page
           /\ new = Redirect(r, Sent(r.page, saved), FALSE, "/")
    BY <1>3, EffectsAre DEF new
  <2> QED
    BY <1>5, <1>6, <2>1
<1> QED
  BY <1>2, <1>7, LoadedFew

LEMMA LoadRouteFew ==
  ASSUME HopInv, NEW i \in Tabs, LoadRoute(i)
  PROVE  FewLeft'
<1> DEFINE q == tab[i]
           r == [q EXCEPT !.page = q.to]
           appears == q.page # r.page
           new == AfterEffects(r, appears)
           left == CookieAfterEffects(r, appears, cookie)
<1>1. /\ q \in TabRows /\ q.to \in Paths /\ q.hops \in Nat
      /\ q.hops + Left(q, cookie, saved, kind, expired) <= 4
      /\ q.mem \in Tokens \cup {NoToken} /\ NoToken \notin Tokens
  BY TabFits, SessionAssumption DEF HopInv, FewLeft, Fits, TabRows
<1>2. /\ Loaded(i, new, left) /\ UNCHANGED <<saved, kind, expired>>
      /\ q.pc = "asked" /\ ~q.full /\ LetThrough(r)
  BY <1>1 DEF LoadRoute, TabRows
<1> HIDE DEF q
<1>3. /\ r \in TabRows /\ r.page = q.to /\ r.to = q.to /\ r.mem = q.mem /\ ~r.full
      /\ r.hops = q.hops
  BY <1>1, <1>2 DEF TabRows
<1> HIDE DEF r
<1>4. /\ OneSession(r) <=> Counts(q, cookie, saved, kind, expired)
      /\ Hop(r) \in Nat /\ Hop(r) <= q.hops + 1 /\ (~OneSession(r) => Hop(r) = 0)
  <2>1. Counts(r, cookie, saved, kind, expired) <=> Counts(q, cookie, saved, kind, expired)
    BY <1>2, <1>3 DEF Counts
  <2> QED
    BY <1>3, <2>1, HopIs
<1>5. IF cookie \in Tokens \ expired
        THEN q.to # "/login" /\ (q.to \in Portals => RouteGuard[q.to] = Role(kind[cookie]))
        ELSE q.to = "/login"
  BY <1>1, <1>2, <1>3, RoutedIs, HomeIsOwn DEF LetThrough, Valid, Session
<1> HIDE DEF new, left
<1>6. ASSUME new = Rests(r)
      PROVE  new.hops + Left(new, left, saved, kind, expired) <= 4
  BY <1>3, <1>6, LeftIsFew DEF Rests, TabRows
<1>7. ASSUME r.page = "/login", appears, NEW p, NEW x, x = Redirect(r, p, FALSE, "/")
      PROVE  x.hops + Left(x, left, saved, kind, expired) <= 4
  <2>1. /\ x.pc = "asked" /\ x.full = FALSE /\ x.hops = Hop(r) /\ x.page = "/login"
    BY <1>3, <1>7 DEF Redirect, Asks, TabRows
  <2>2. q.page # "/login" /\ q.to = "/login" /\ cookie \notin Tokens \ expired
    BY <1>3, <1>5, <1>7
  <2>3. Left(q, cookie, saved, kind, expired) = 2
    BY <1>2, <2>2 DEF Left, Counts
  <2>4. Left(x, left, saved, kind, expired) \in 0 .. 1
    BY <2>1 DEF Left
  <2> QED
    BY <1>1, <1>4, <2>1, <2>3, <2>4
<1>8. ASSUME r.page # "/login", NEW p, NEW x, x = Redirect(r, p, FALSE, "/"),
             p = Sent(r.page, r.mem), p # r.page
      PROVE  x.hops + Left(x, left, saved, kind, expired) <= 4
  <2>1. /\ x.pc = "asked" /\ x.to = p /\ x.full = FALSE /\ x.hops = Hop(r) /\ x.mem = q.mem
    BY <1>3, <1>8 DEF Redirect, Asks, TabRows
  <2>2. left = cookie /\ cookie \in Tokens \ expired
    BY <1>3, <1>5, <1>8 DEF CookieAfterEffects, left
  <2>3. CASE ~OneSession(r)
    BY <1>4, <2>1, <2>3, LeftIsFew
  <2>4. CASE OneSession(r)
    <3>1. Counts(q, cookie, saved, kind, expired) /\ q.mem = cookie
      BY <1>2, <1>4, <2>2, <2>4 DEF Counts
    <3>2. q.to = "/platform" /\ p = "/auth/login"
      BY <1>1, <1>3, <1>5, <1>8, <2>2, <3>1, SentIs
    <3>3. Left(q, cookie, saved, kind, expired) = 1
      BY <1>2, <2>2, <3>1, <3>2, HomeIsOwn DEF Left
    <3>4. Left(x, cookie, saved, kind, expired) = 0
      BY <2>1, <2>2, <3>1, <3>2 DEF Left
    <3> QED
      BY <1>1, <1>4, <2>1, <2>2, <3>3, <3>4
  <2> QED
    BY <2>3, <2>4
<1>9. new.hops + Left(new, left, saved, kind, expired) <= 4
  <2>1. \/ new = Rests(r)
        \/ /\ r.page = "/login" /\ appears
           /\ new = Redirect(r, Destination(r, r.mem), FALSE, "/")
        \/ /\ r.page # "/login" /\ Sent(r.page, r.mem) # r.page
           /\ new = Redirect(r, Sent(r.page, r.mem), FALSE, "/")
    BY <1>3, EffectsAre DEF new
  <2> QED
    BY <1>6, <1>7, <1>8, <2>1
<1> QED
  BY <1>2, <1>9, LoadedFew

\* What is no redirect: the row of the tab has no more of them before it.
LEMMA StaysFew ==
  ASSUME HopInv, NEW i \in Tabs,
         \/ LoadSame(i) \/ CallApi(i) \/ AnswerOk(i)
         \/ \E p \in Visited, full \in BOOLEAN : Visit(i, p, full)
  PROVE  FewLeft'
<1> DEFINE r == tab[i]
<1>1. r \in TabRows /\ r.hops + Left(r, cookie, saved, kind, expired) <= 4
  BY TabFits DEF HopInv, FewLeft, Fits
<1>2. ASSUME NEW p, NEW full \in BOOLEAN, Visit(i, p, full)
      PROVE  FewLeft'
  <2> DEFINE x == [Asks(r, p, full, "/") EXCEPT !.hops = 0]
  <2>1. Leaves(r) = [Closed EXCEPT !.hops = r.hops]
    BY DEF Leaves
  <2>2. x.hops = 0
    BY <1>1, <2>1 DEF Asks, Closed, TabRows
  <2>3. Set(i, x) /\ UNCHANGED <<cookie, saved, kind, expired>>
    BY <1>2 DEF Visit
  <2> HIDE DEF x
  <2>4. x.hops + Left(x, cookie, saved, kind, expired) <= 4
    BY <2>2, LeftIsFew
  <2> QED
    BY <2>3, <2>4, SetFew
<1>3. CASE LoadSame(i)
  <2> DEFINE x == Rests(r)
  <2>1. x.hops = 0
    BY <1>1 DEF Rests, TabRows
  <2>2. Set(i, x) /\ UNCHANGED <<cookie, saved, kind, expired>>
    BY <1>3 DEF LoadSame
  <2> HIDE DEF x
  <2>3. x.hops + Left(x, cookie, saved, kind, expired) <= 4
    BY <2>1, LeftIsFew
  <2> QED
    BY <2>2, <2>3, SetFew
<1>4. ASSUME NEW call, Set(i, [r EXCEPT !.call = call]),
             UNCHANGED <<cookie, saved, kind, expired>>
      PROVE  FewLeft'
  <2> DEFINE x == [r EXCEPT !.call = call]
  <2>1. /\ x.hops = r.hops /\ x.pc = r.pc /\ x.full = r.full /\ x.to = r.to
        /\ x.page = r.page /\ x.mem = r.mem
    BY <1>1 DEF TabRows
  <2>2. Set(i, x)
    BY <1>4
  <2> HIDE DEF x, r
  <2>3. Counts(x, cookie, saved, kind, expired) = Counts(r, cookie, saved, kind, expired)
    BY <2>1 DEF Counts
  <2>4. Left(x, cookie, saved, kind, expired) = Left(r, cookie, saved, kind, expired)
    BY <2>1, <2>3 DEF Left
  <2> QED
    BY <1>1, <1>4, <2>1, <2>2, <2>4, SetFew
<1>5. CASE CallApi(i)
  BY <1>4, <1>5 DEF CallApi
<1>6. CASE AnswerOk(i)
  BY <1>4, <1>6 DEF AnswerOk
<1> QED
  BY <1>2, <1>3, <1>5, <1>6

\* A session begins or ends: all start again.
LEMMA BeginsOrEndsFew ==
  ASSUME HopInv,
         \/ CloseBrowser \/ \E t \in Tokens : Expire(t)
         \/ \E i \in Tabs : \/ AnswerUnauthorized(i)
                            \/ \E t \in Tokens : Login(i, t)
                            \/ \E p \in {"/", "/login"} : Logout(i, p)
  PROVE  FewLeft'
<1>1. tab \in [Tabs -> TabRows]
  BY DEF HopInv, SessionInv, SessionTypeOK, TabRows
<1>2. CASE CloseBrowser
  <2>1. \A j \in Tabs : tab'[j].hops = 0
    BY <1>2 DEF CloseBrowser, Closed
  <2> QED
    BY <2>1, StartAgainFew
<1>3. ASSUME NEW t \in Tokens, Expire(t)
      PROVE  FewLeft'
  <2>1. \A j \in Tabs : tab'[j].hops = 0
    BY <1>1, <1>3 DEF Expire, TabRows
  <2> QED
    BY <2>1, StartAgainFew
<1>4. ASSUME NEW i \in Tabs, NEW p, NEW full \in BOOLEAN, NEW new,
             \/ \E t : new = [Asks(tab[i], p, full, "/") EXCEPT
                                !.mem = t, !.hops = 0, !.behind = FALSE]
             \/ new = [Asks(tab[i], p, full, "/") EXCEPT
                         !.mem = NoToken, !.hops = 0, !.call = NoCall, !.behind = FALSE]
      PROVE  new.hops = 0
  <2>1. Leaves(tab[i]) = [Closed EXCEPT !.hops = tab[i].hops]
    BY DEF Leaves
  <2> QED
    BY <1>1, <1>4, <2>1 DEF Asks, Closed, TabRows
<1>5. ASSUME NEW i \in Tabs, NEW t \in Tokens, Login(i, t)
      PROVE  FewLeft'
  BY <1>4, <1>5, BehindFew DEF Login
<1>6. ASSUME NEW i \in Tabs, NEW p \in {"/", "/login"}, Logout(i, p)
      PROVE  FewLeft'
  BY <1>4, <1>6, BehindFew DEF Logout
<1>7. ASSUME NEW i \in Tabs, AnswerUnauthorized(i)
      PROVE  FewLeft'
  BY <1>4, <1>7, BehindFew DEF AnswerUnauthorized
<1> QED
  BY <1>2, <1>3, <1>5, <1>6, <1>7

LEMMA HopBegins == SessionInit => HopInv
<1> SUFFICES ASSUME SessionInit PROVE HopInv
  OBVIOUS
<1>1. \A i \in Tabs : tab[i].hops = 0
  BY DEF SessionInit, Closed
<1>2. FewLeft
  BY <1>1, LeftIsFew DEF FewLeft
<1> QED
  BY <1>2, SessionBegins DEF HopInv

LEMMA HopStep == HopInv /\ [SessionNext]_sessionVars => HopInv'
<1> SUFFICES ASSUME HopInv, [SessionNext]_sessionVars PROVE HopInv'
  OBVIOUS
<1>1. SessionInv'
  BY SessionStep DEF HopInv
<1>2. CASE UNCHANGED sessionVars
  <2>1. FewLeft'
    BY <1>2 DEF sessionVars, HopInv, FewLeft
  <2> QED
    BY <1>1, <2>1 DEF HopInv
<1>3. CASE SessionNext
  <2>1. FewLeft'
    BY <1>3, MiddlewareFew, LoadDocumentFew, LoadRouteFew, StaysFew, BeginsOrEndsFew
       DEF SessionNext
  <2> QED
    BY <1>1, <2>1 DEF HopInv
<1> QED
  BY <1>2, <1>3

\* The inductive invariant.
THEOREM HopInvariant == SessionSpec => []HopInv
BY HopBegins, HopStep, PTL DEF SessionSpec

\* middleware.ts, login/page.tsx and usePortalGuard.ts: no tab is sent round more
\* than four times while the cookie is its own session's, whatever the tokens, the
\* tabs and the pages they open.
THEOREM RedirectsEnd ==
  ASSUME MaxHops >= 4
  PROVE  SessionSpec => []HopsEnd
<1>1. HopInv => HopsEnd
  <2> SUFFICES ASSUME HopInv, NEW i \in Tabs PROVE tab[i].hops <= MaxHops
    BY DEF HopsEnd
  <2>1. tab[i].hops \in Nat
    BY TabFits, SessionAssumption DEF HopInv, Fits, TabRows
  <2>2. tab[i].hops + Left(tab[i], cookie, saved, kind, expired) <= 4
    BY DEF HopInv, FewLeft
  <2> QED
    BY <2>1, <2>2, LeftIsFew, SessionAssumption
<1> QED
  BY <1>1, HopInvariant, PTL
-----------------------------------------------------------------------------
(* The platform fee.                                                       *)

\* An update that runs alone holds the fee it will merge into; all that run
\* passed the tests.
UpdatesHold ==
  \A u \in Running :
    /\ WithinLimit(update[u].req)
    /\ u \notin beside => update[u].read = fee
    /\ \A v \in Running \ {u} : u \in beside

FeeInv == FeeTypeOK /\ UpdatesHold /\ AuditTellsFee /\ FeeWithinLimit

LEMMA FeeBegins == FeeInit => FeeInv
<1> SUFFICES ASSUME FeeInit PROVE FeeInv
  OBVIOUS
<1>1. PICK v \in Values : v <= MaxPercent /\ fee = [type |-> "PERCENTAGE", value |-> v]
  BY DEF FeeInit
<1>2. /\ audit = fee /\ latest = NoUpdate /\ beside = {} /\ partial = FALSE
      /\ update = [u \in Updates |->
           [pc |-> "idle", req |-> [type |-> Missing, value |-> Missing], read |-> fee]]
  BY DEF FeeInit
<1>3. fee \in Fee
  BY <1>1 DEF Fee, FeeTypes
<1>4. FeeTypeOK
  BY <1>2, <1>3 DEF FeeTypeOK, Request
<1>5. Running = {}
  BY <1>2 DEF Running
<1>6. fee.value <= MaxPercent
  BY <1>1
<1> QED
  BY <1>2, <1>4, <1>5, <1>6 DEF FeeInv, UpdatesHold, AuditTellsFee, FeeWithinLimit

LEMMA MergedIsFee ==
  ASSUME NEW f \in Fee, NEW q \in Request
  PROVE  Merged(q, f) \in Fee
BY DEF Merged, Fee, Request

LEMMA FeeStep == FeeInv /\ [FeeNext]_feeVars => FeeInv'
<1> SUFFICES ASSUME FeeInv, [FeeNext]_feeVars PROVE FeeInv'
  OBVIOUS
<1> USE DEF FeeInv
<1>1. ASSUME NEW u \in Updates, NEW q \in Request, UpdateRead(u, q)
      PROVE  FeeInv'
  <2>1. /\ update[u].pc = "idle" /\ WithinLimit(q)
        /\ update' = [update EXCEPT ![u] = [pc |-> "write", req |-> q, read |-> fee]]
        /\ beside' = IF Running = {} THEN beside ELSE beside \cup Running \cup {u}
        /\ UNCHANGED <<fee, audit, latest, partial>>
    BY <1>1 DEF UpdateRead
  <2>2. /\ update'[u] = [pc |-> "write", req |-> q, read |-> fee]
        /\ \A v \in Updates \ {u} : update'[v] = update[v]
        /\ Running' = Running \cup {u} /\ u \notin Running /\ Running \subseteq Updates
    BY <2>1 DEF FeeTypeOK, Running
  <2>3. FeeTypeOK'
    BY <2>1, <2>2 DEF FeeTypeOK
  <2>4. UpdatesHold'
    BY <2>1, <2>2 DEF UpdatesHold, WithinLimit
  <2>5. AuditTellsFee' /\ FeeWithinLimit'
    BY <2>1 DEF AuditTellsFee, FeeWithinLimit
  <2> QED
    BY <2>3, <2>4, <2>5
<1>2. ASSUME NEW u \in Updates, UpdateWrite(u) \/ UpdateThrows(u)
      PROVE  FeeInv'
  <2>1. /\ update[u].pc = "write" /\ update[u].req \in Request /\ update[u].read \in Fee
        /\ update' = [update EXCEPT ![u].pc = "done"] /\ UNCHANGED beside
        /\ u \in Running /\ fee \in Fee
    BY <1>2 DEF UpdateWrite, UpdateThrows, FeeTypeOK, Running
  <2>2. /\ update' \in [Updates -> [pc : {"idle", "write", "done"}, req : Request,
                                    read : Fee]]
        /\ \A v \in Updates \ {u} : update'[v] = update[v]
        /\ Running' = Running \ {u}
    BY <2>1 DEF FeeTypeOK, Running
  <2>3. CASE UpdateThrows(u)
    <3>1. UNCHANGED <<fee, audit, latest, partial>>
      BY <2>3 DEF UpdateThrows
    <3>2. FeeTypeOK'
      BY <2>1, <2>2, <3>1 DEF FeeTypeOK
    <3>3. UpdatesHold'
      BY <2>1, <2>2, <3>1 DEF UpdatesHold, WithinLimit, Running
    <3> QED
      BY <2>1, <3>1, <3>2, <3>3 DEF AuditTellsFee, FeeWithinLimit
  <2>4. CASE UpdateWrite(u)
    <3>1. /\ audit' = Merged(update[u].req, update[u].read)
          /\ fee' = Merged(update[u].req, fee) /\ latest' = u
          /\ partial' = (partial \/ Missing \in {update[u].req.type, update[u].req.value})
      BY <2>4 DEF UpdateWrite, Audited
    <3>2. audit' \in Fee /\ fee' \in Fee
      BY <2>1, <3>1, MergedIsFee
    <3>3. FeeTypeOK'
      BY <2>1, <2>2, <3>1, <3>2 DEF FeeTypeOK
    <3>4. \A v \in Running' : v \in beside /\ v \in Updates /\ update'[v] = update[v]
      BY <2>1, <2>2 DEF UpdatesHold, Running
    <3>5. UpdatesHold'
      BY <2>1, <2>2, <3>4 DEF UpdatesHold, WithinLimit
    <3>6. AuditTellsFee'
      BY <2>1, <3>1 DEF UpdatesHold, AuditTellsFee
    <3>7. FeeWithinLimit'
      <4> SUFFICES ASSUME fee'.type = "PERCENTAGE",
                          Missing \notin {update[u].req.type, update[u].req.value}
                   PROVE  fee'.value <= MaxPercent
        BY <3>1 DEF FeeWithinLimit
      <4>1. fee'.type = update[u].req.type /\ fee'.value = update[u].req.value
        BY <3>1 DEF Merged
      <4>2. WithinLimit(update[u].req)
        BY <2>1 DEF UpdatesHold
      <4> QED
        BY <4>1, <4>2 DEF WithinLimit
    <3> QED
      BY <3>3, <3>5, <3>6, <3>7
  <2> QED
    BY <1>2, <2>3, <2>4
<1>3. CASE UNCHANGED feeVars
  BY <1>3 DEF feeVars, FeeTypeOK, UpdatesHold, Running, WithinLimit, AuditTellsFee,
     FeeWithinLimit
<1> QED
  BY <1>1, <1>2, <1>3 DEF FeeNext

\* The inductive invariant.
THEOREM FeeInvariant == FeeSpec => []FeeInv
BY FeeBegins, FeeStep, PTL DEF FeeSpec

\* admin.service.ts updateMonetization: the last audit row tells the fee unless
\* updates overlapped, and only an incomplete one passes the limit.
THEOREM FeeIsAccounted == FeeSpec => []FeeAccounted
<1>1. FeeInv => FeeAccounted
  BY DEF FeeInv, FeeAccounted
<1> QED
  BY <1>1, FeeInvariant, PTL
-----------------------------------------------------------------------------
(* The seat map.                                                           *)

Reading == {"busy", "keys", "values"}

\* The answer has no row of seat s.
NoRow(s) == \A x \in map.rows : s \notin req[x[1]].seats

NoOccupant(s) == \A b \in Reqs : s \in req[b].seats => ~Occupies(b)

\* What is known, while the map is read, of a seat that was never free and that
\* no booking has come to occupy: somebody holds it; if the query found no
\* booking of it then its lock does, and no booking will; and the lock's key is
\* among those found.
HolderFound(s) ==
  /\ map.pc \in Reading => ~Unheld(s)
  /\ map.pc \in {"keys", "values"} /\ NoRow(s) => Present(s) /\ NoOccupant(s)
  /\ map.pc = "values" /\ NoRow(s) => s \in map.keys

MapInv ==
  /\ SaleInv /\ MapTypeOK
  /\ map.pc \in Reading => map.now <= clock
  /\ \A x \in map.rows : booking[x[1]].status # "none"
  /\ \A s \in Seats \ (free \cup moved) : HolderFound(s)
  /\ ShownFreeWasFree

LEMMA MapBegins == MapInit => MapInv
<1> SUFFICES ASSUME MapInit PROVE MapInv
  OBVIOUS
<1>1. SaleInv
  BY SaleBegins DEF MapInit
<1>2. MapTypeOK
  BY DEF MapInit, MapTypeOK, IdleMap, Answers
<1>3. map.pc = "idle" /\ map.rows = {}
  BY DEF MapInit, IdleMap
<1> QED
  BY <1>1, <1>2, <1>3 DEF MapInv, HolderFound, Reading, ShownFreeWasFree

\* Only a request that has no booking yet is given its seats.
LEMMA SeatsStay ==
  ASSUME TypeOK, RequestProgress, [Next]_vars, NEW b \in Reqs
  PROVE  \/ req'[b].seats = req[b].seats
         \/ booking[b].status = "none" /\ booking'[b] = booking[b]
<1>1. ASSUME NEW q \in Reqs, NEW u \in Users, NEW S \in (SUBSET Seats) \ {{}},
             StartInitiate(q, u, S)
      PROVE  \/ req'[b].seats = req[b].seats
             \/ booking[b].status = "none" /\ booking'[b] = booking[b]
  BY <1>1 DEF StartInitiate, TypeOK, RequestProgress, Progress
<1>2. ASSUME NEW q \in Reqs, NEW s \in Seats, ValidateLock(q, s)
      PROVE  req'[b].seats = req[b].seats
  BY <1>2 DEF ValidateLock, TypeOK, ReqType
<1> QED
  BY <1>1, <1>2, StepKinds DEF TokensKept, bookingVars

\* A booking that occupies its seats counts for the query of any earlier time.
LEMMA OccupantIsBusy ==
  ASSUME TypeOK, NEW b \in Reqs, Occupies(b), NEW now \in Nat, now <= clock
  PROVE  Busy(b, now) /\ booking[b].status # "none"
<1>1. clock \in Nat /\ booking[b].expiresAt \in Nat
  BY DEF TypeOK, LockTypeOK, BookingType
<1> QED
  BY <1>1 DEF Occupies, Busy

\* Bookings goes on.
LEMMA MeanwhileKeeps ==
  ASSUME MapInv, Meanwhile
  PROVE  MapInv'
<1> USE DEF MapInv
<1>1. Next /\ UNCHANGED map /\ TypeOK /\ RequestProgress /\ WriterTargets
  BY DEF Meanwhile, SaleInv
<1>2. SaleInv'
  BY <1>1, SaleStep
<1>3. UnheldSeats' \subseteq Seats
  BY DEF UnheldSeats
<1>4. \A b \in Reqs : req[b].seats \subseteq Seats
  BY <1>1 DEF TypeOK, ReqType
<1>5. MapTypeOK'
  BY <1>1, <1>3, <1>4 DEF Meanwhile, MapTypeOK
<1>6. clock \in Nat /\ clock' \in Nat /\ clock <= clock'
  <2>1. clock \in Nat
    BY <1>1 DEF TypeOK, LockTypeOK
  <2>2. ASSUME \/ \E r \in Reqs : CreateBooking(r)
               \/ \E h \in Hooks : ConfirmBooking(h)
               \/ \E b \in Reqs : ExpiryUpdate(b)
        PROVE  clock' = clock
    BY <2>2 DEF CreateBooking, ConfirmBooking, ExpiryUpdate, lockVars
  <2> QED
    BY <1>1, <2>1, <2>2, BookingSteps
<1>7. map'.pc \in Reading => map'.now <= clock'
  BY <1>1, <1>6 DEF MapTypeOK
<1>8. \A x \in map.rows : x[1] \in Reqs
  BY DEF MapTypeOK
<1>9. \A x \in map.rows : /\ booking'[x[1]].status # "none"
                          /\ req'[x[1]].seats = req[x[1]].seats
  <2> SUFFICES ASSUME NEW x \in map.rows
               PROVE  /\ booking'[x[1]].status # "none"
                      /\ req'[x[1]].seats = req[x[1]].seats
    OBVIOUS
  <2>1. x[1] \in Reqs /\ booking[x[1]].status # "none"
    BY <1>8
  <2> QED
    BY <1>1, <2>1, BookingStays, SeatsStay
<1>10. ASSUME NEW s \in Seats \ (free' \cup moved')
       PROVE  HolderFound(s)'
  <2>1. CASE map.pc \in Reading
    <3>1. /\ free' = free \cup UnheldSeats'
          /\ moved' = moved \cup UNION {req[b].seats : b \in
                        {c \in Reqs : ~Occupies(c) /\ Occupies(c)'}}
      BY <2>1 DEF Meanwhile, Reading
    <3>2. s \in Seats /\ s \notin free \cup moved /\ HolderFound(s)
      BY <3>1
    <3>3. ~Unheld(s)'
      BY <3>1 DEF UnheldSeats
    <3>4. NoRow(s)' <=> NoRow(s)
      BY <1>1, <1>9 DEF NoRow
    <3>5. ASSUME NoOccupant(s)
          PROVE  NoOccupant(s)'
      <4> SUFFICES ASSUME NEW b \in Reqs, s \in req'[b].seats, Occupies(b)'
                   PROVE  FALSE
        BY DEF NoOccupant
      <4>1. CASE req'[b].seats = req[b].seats
        BY <3>1, <3>5, <4>1 DEF NoOccupant
      <4>2. CASE booking[b].status = "none" /\ booking'[b] = booking[b]
        BY <4>2 DEF Occupies
      <4> QED
        BY <1>1, <4>1, <4>2, SeatsStay
    <3>6. ASSUME NoOccupant(s)'
          PROVE  Present(s)'
      BY <3>3, <3>6 DEF Unheld, NoOccupant
    <3> QED
      BY <1>1, <3>2, <3>3, <3>4, <3>5, <3>6 DEF HolderFound
  <2>2. CASE map.pc \notin Reading
    BY <1>1, <2>2 DEF HolderFound, Reading
  <2> QED
    BY <2>1, <2>2
<1>11. ShownFreeWasFree'
  <2> SUFFICES ASSUME map'.pc = "done"
               PROVE  \A s \in Seats : map'.seats[s] = "AVAILABLE" => s \in free' \cup moved'
    BY DEF ShownFreeWasFree
  <2>1. map.pc = "done" /\ free' = free /\ moved' = moved
    BY <1>1 DEF Meanwhile
  <2> QED
    BY <1>1, <2>1 DEF ShownFreeWasFree
<1> QED
  BY <1>1, <1>2, <1>5, <1>7, <1>9, <1>10, <1>11

\* The request takes a step.
LEMMA ReadingKeeps ==
  ASSUME MapInv, (\E u \in Users : MapStart(u)) \/ MapBusy \/ MapKeys
  PROVE  MapInv'
<1> USE DEF MapInv
<1>1. UNCHANGED vars
  BY DEF MapStart, MapBusy, MapKeys
<1>2. SaleInv'
  BY <1>1, SaleStep
<1>3. TypeOK /\ clock \in Nat
  BY DEF SaleInv, TypeOK, LockTypeOK
<1>4. clock' = clock /\ booking' = booking /\ req' = req /\ lock' = lock
  BY <1>1 DEF vars, lockVars, bookingVars
<1>5. ASSUME NEW u \in Users, MapStart(u)
      PROVE  MapInv'
  <2>1. /\ map.pc = "idle" /\ map' = [map EXCEPT !.pc = "busy", !.user = u, !.now = clock]
        /\ free' = UnheldSeats /\ moved' = moved
    BY <1>5 DEF MapStart
  <2>2. MapTypeOK'
    BY <1>3, <2>1 DEF MapTypeOK, UnheldSeats
  <2>3. map'.pc = "busy" /\ map'.now = clock /\ map'.rows = map.rows
    BY <2>1 DEF MapTypeOK
  <2>4. \A s \in Seats \ (free' \cup moved') : ~Unheld(s)
    BY <2>1 DEF UnheldSeats
  <2>5. \A s \in Seats : Unheld(s)' <=> Unheld(s)
    BY <1>4 DEF Unheld, Present, Occupies
  <2>6. \A s \in Seats \ (free' \cup moved') : HolderFound(s)'
    BY <2>3, <2>4, <2>5 DEF HolderFound
  <2> QED
    BY <1>2, <1>3, <1>4, <2>2, <2>3, <2>6 DEF ShownFreeWasFree
<1>6. CASE MapBusy
  <2> DEFINE found == {c \in Reqs : Busy(c, map.now)}
  <2>1. /\ map.pc = "busy"
        /\ map' = [map EXCEPT !.pc = "keys",
                     !.rows = {<<b, booking[b].status>> : b \in found}]
        /\ free' = free /\ moved' = moved
    BY <1>6 DEF MapBusy
  <2>2. \A b \in Reqs : booking[b].status \in Statuses
    BY <1>3 DEF TypeOK, BookingType
  <2>3. {<<b, booking[b].status>> : b \in found} \in SUBSET (Reqs \X Statuses)
    BY <2>2
  <2>4. MapTypeOK'
    BY <2>1, <2>3 DEF MapTypeOK
  <2>5. /\ map'.pc = "keys" /\ map'.now = map.now /\ map.now \in Nat /\ map.now <= clock
        /\ map'.rows = {<<b, booking[b].status>> : b \in found}
    BY <2>1 DEF MapTypeOK, Reading
  <2>6. \A x \in map'.rows : booking'[x[1]].status # "none"
    BY <1>4, <2>5 DEF Busy
  <2>7. ASSUME NEW s \in Seats \ (free' \cup moved')
        PROVE  HolderFound(s)'
    <3>1. ~Unheld(s)
      BY <2>1 DEF HolderFound, Reading
    <3>2. ASSUME NoRow(s)'
          PROVE  NoOccupant(s)
      <4> SUFFICES ASSUME NEW b \in Reqs, s \in req[b].seats, Occupies(b)
                   PROVE  FALSE
        BY DEF NoOccupant
      <4>1. b \in found
        BY <1>3, <2>5, OccupantIsBusy
      <4>2. <<b, booking[b].status>> \in map'.rows
        BY <2>5, <4>1
      <4> QED
        BY <1>4, <3>2, <4>2 DEF NoRow
    <3>3. ASSUME NoOccupant(s)
          PROVE  Present(s)
      BY <3>1, <3>3 DEF Unheld, NoOccupant
    <3> QED
      BY <1>4, <2>5, <3>1, <3>2, <3>3
         DEF HolderFound, Unheld, NoOccupant, Present, Occupies
  <2> QED
    BY <1>2, <1>4, <2>4, <2>5, <2>6, <2>7 DEF ShownFreeWasFree
<1>7. CASE MapKeys
  <2>1. /\ map.pc = "keys"
        /\ map' = [map EXCEPT !.pc = "values", !.keys = {s \in Seats : Present(s)}]
        /\ free' = free /\ moved' = moved
    BY <1>7 DEF MapKeys
  <2>2. MapTypeOK'
    BY <2>1 DEF MapTypeOK
  <2>3. /\ map'.pc = "values" /\ map'.now = map.now /\ map'.rows = map.rows
        /\ map'.keys = {s \in Seats : Present(s)}
    BY <2>1 DEF MapTypeOK
  <2>4. ASSUME NEW s \in Seats \ (free' \cup moved')
        PROVE  HolderFound(s)'
    <3>1. HolderFound(s) /\ s \in Seats
      BY <2>1
    <3> QED
      BY <1>4, <2>1, <2>3, <3>1
         DEF HolderFound, Reading, Unheld, NoRow, NoOccupant, Present, Occupies
  <2> QED
    BY <1>2, <1>4, <2>1, <2>2, <2>3, <2>4 DEF ShownFreeWasFree, Reading
<1> QED
  BY <1>5, <1>6, <1>7

\* The answer.
LEMMA AnswerKeeps ==
  ASSUME MapInv, MapValues
  PROVE  MapInv'
<1> USE DEF MapInv
<1>1. PICK seats \in [Seats -> Answers] :
        /\ \A s \in Seats : seats[s] \in SeatAnswer(s, {k \in map.keys : Present(k)})
        /\ map' = [IdleMap EXCEPT !.pc = "done", !.seats = seats]
  BY DEF MapValues
<1>2. map.pc = "values" /\ UNCHANGED <<vars, free, moved>>
  BY DEF MapValues
<1>3. SaleInv'
  BY <1>2, SaleStep
<1>4. MapTypeOK'
  BY <1>1, <1>2 DEF MapTypeOK, IdleMap
<1>5. map'.pc = "done" /\ map'.rows = {} /\ map'.seats = seats
  BY <1>1 DEF IdleMap
<1>6. ASSUME NEW s \in Seats, seats[s] = "AVAILABLE"
      PROVE  s \in free \cup moved
  <2>1. seats[s] \in SeatAnswer(s, {k \in map.keys : Present(k)})
    BY <1>1
  <2>2. NoRow(s)
    BY <1>6, <2>1 DEF SeatAnswer, NoRow
  <2>3. s \notin {k \in map.keys : Present(k)}
    BY <1>6, <2>1, <2>2 DEF SeatAnswer, NoRow
  <2> QED
    BY <1>2, <2>2, <2>3 DEF HolderFound
<1> QED
  BY <1>2, <1>3, <1>4, <1>5, <1>6 DEF HolderFound, Reading, ShownFreeWasFree

LEMMA MapStep == MapInv /\ [MapNext]_<<vars, mapVars>> => MapInv'
<1> SUFFICES ASSUME MapInv, [MapNext]_<<vars, mapVars>> PROVE MapInv'
  OBVIOUS
<1>1. CASE UNCHANGED <<vars, mapVars>>
  <2>1. UNCHANGED <<vars, map, free, moved>>
    BY <1>1 DEF mapVars
  <2>2. SaleInv'
    BY <2>1, SaleStep DEF MapInv
  <2>3. clock' = clock /\ booking' = booking /\ req' = req /\ lock' = lock
    BY <2>1 DEF vars, lockVars, bookingVars
  <2> QED
    BY <2>1, <2>2, <2>3 DEF MapInv, MapTypeOK, HolderFound, ShownFreeWasFree,
       NoRow, NoOccupant, Unheld, Present, Occupies
<1>2. CASE MapNext
  BY <1>2, MeanwhileKeeps, ReadingKeeps, AnswerKeeps DEF MapNext
<1> QED
  BY <1>1, <1>2

\* The inductive invariant.
THEOREM MapInvariant == MapSpec => []MapInv
BY MapBegins, MapStep, PTL DEF MapSpec

\* events.service.ts getSeatMap: the order of its reads shows as AVAILABLE no
\* seat that somebody held all the time, unless a booking came to occupy it
\* meanwhile.
THEOREM MapShowsFree == MapSpec => []ShownFreeWasFree
<1>1. MapInv => ShownFreeWasFree
  BY DEF MapInv
<1> QED
  BY <1>1, MapInvariant, PTL
-----------------------------------------------------------------------------
(* The applications.                                                       *)

\* The variables have their types; the uniqueness of OnboardTypeOK is not needed.
Typed ==
  /\ app \in [Apps -> [pc : {"unsent", "email", "pending", "create", "refused",
                             "PENDING", "APPROVED", "REJECTED"},
                       email : Emails, slug : Slugs]]
  /\ review \in [Reviewers -> [pc : {"idle", "slug", "email", "commit", "reject",
                                     "done", "threw"},
                               a : Apps \cup {NoApp}]]
  /\ tenants \subseteq [slug : Slugs, by : Reviewers \cup {NoReviewer}]
  /\ users \subseteq [email : Emails, by : Reviewers \cup {NoReviewer}]
  /\ crossed \subseteq Apps

\* What a review made: all of it, once the review has ended, and with the slug and
\* the email of its application.
MadeByReviews ==
  /\ \A t \in tenants : t.by \in Reviewers =>
       /\ review[t.by].pc = "done" /\ review[t.by].a \in Apps
       /\ t.slug = app[review[t.by].a].slug
       /\ \E u \in users : u.by = t.by
  /\ \A u \in users : u.by \in Reviewers =>
       /\ review[u.by].pc = "done" /\ review[u.by].a \in Apps
       /\ u.email = app[review[u.by].a].email
       /\ \E t \in tenants : t.by = u.by

\* The unique keys of Tenant.slug and User.email.
RowsAreUnique ==
  /\ \A t, s \in tenants : t.slug = s.slug => t = s
  /\ \A u, v \in users : u.email = v.email => u = v

\* An APPROVED application has its tenant; another one that has is crossed.
ApprovedAndMade ==
  /\ \A a \in Apps : app[a].pc = "APPROVED" => TenantsOf(a) # {}
  /\ MadeStaysApproved

\* A review that is under way has an application, PENDING still unless another
\* review was under way with it.
ReviewsPending ==
  \A r \in Reviewers : Deciding(r) =>
    /\ review[r].a \in Apps
    /\ app[review[r].a].pc = "PENDING" \/ review[r].a \in crossed

TwoReviewsCross ==
  \A r, q \in Reviewers :
    r # q /\ Deciding(r) /\ Deciding(q) /\ review[r].a = review[q].a
      => review[r].a \in crossed

OnboardInv ==
  /\ Typed /\ MadeByReviews /\ RowsAreUnique /\ ApprovedAndMade
  /\ ReviewsPending /\ TwoReviewsCross

LEMMA OnboardBegins == OnboardInit => OnboardInv
<1> SUFFICES ASSUME OnboardInit PROVE OnboardInv
  OBVIOUS
<1>1. Typed
  BY DEF OnboardInit, Typed
<1>2. \A r \in Reviewers : ~Deciding(r)
  BY DEF OnboardInit, Deciding
<1>3. \A a \in Apps : app[a].pc = "unsent"
  BY DEF OnboardInit
<1> QED
  BY <1>1, <1>2, <1>3 DEF OnboardInit, OnboardInv, MadeByReviews, RowsAreUnique,
     ApprovedAndMade, MadeStaysApproved, TenantsOf, ReviewsPending, TwoReviewsCross

\* A step that leaves reviews alone, what they made, and every application's slug,
\* email and decision.
Quiet ==
  /\ UNCHANGED <<review, crossed>>
  /\ tenants \subseteq tenants' /\ users \subseteq users'
  /\ \A t \in tenants' \ tenants : t.by = NoReviewer
  /\ \A u \in users' \ users : u.by = NoReviewer
  /\ \A a \in Apps : /\ app'[a].slug = app[a].slug /\ app'[a].email = app[a].email
                     /\ \/ app'[a].pc = app[a].pc
                        \/ /\ app[a].pc \notin {"PENDING", "APPROVED", "REJECTED"}
                           /\ app'[a].pc \notin {"APPROVED", "REJECTED"}

LEMMA QuietKeeps ==
  ASSUME OnboardInv, Quiet, Typed', RowsAreUnique'
  PROVE  OnboardInv'
<1> USE OnboardingAssumption DEF OnboardInv
<1>1. MadeByReviews'
  BY DEF Quiet, Typed, MadeByReviews
<1>2. ReviewsPending' /\ TwoReviewsCross'
  BY DEF Quiet, Typed, ReviewsPending, TwoReviewsCross, Deciding
<1>3. \A a \in Apps : TenantsOf(a)' = TenantsOf(a)
  BY DEF Quiet, TenantsOf
<1>4. \A a \in Apps : /\ app'[a].pc = "APPROVED" => app[a].pc = "APPROVED"
                     /\ app[a].pc = "APPROVED" => app'[a].pc = "APPROVED"
  BY Zenon DEF Quiet
<1>5. ApprovedAndMade'
  BY <1>3, <1>4 DEF Quiet, ApprovedAndMade, MadeStaysApproved
<1> QED
  BY <1>1, <1>2, <1>5

LEMMA ApplyingKeeps ==
  ASSUME OnboardInv, NEW a \in Apps, Applying(a)
  PROVE  OnboardInv'
<1>1. PICK from \in {"unsent", "email", "pending", "create"},
           to \in {"refused", "email", "pending", "create", "PENDING"} :
        /\ Goes(a, from, to)
        /\ UNCHANGED <<review, tenants, users, crossed>>
  BY DEF Applying, ApplySlug, ApplyEmail, ApplyPending, ApplyCreate, ApplicationStep
<1>2. Typed'
  BY <1>1 DEF Goes, OnboardInv, Typed
<1>3. Quiet
  BY <1>1 DEF Goes, Quiet, OnboardInv, Typed
<1>4. RowsAreUnique'
  BY <1>1 DEF OnboardInv, RowsAreUnique
<1> QED
  BY <1>2, <1>3, <1>4, QuietKeeps

LEMMA OthersKeep ==
  ASSUME OnboardInv,
         (\E s \in Slugs : CreateTenant(s)) \/ (\E e \in Emails : RegisterUser(e))
           \/ UNCHANGED onboardVars
  PROVE  OnboardInv'
<1>1. Typed'
  BY DEF CreateTenant, RegisterUser, onboardVars, OnboardInv, Typed
<1>2. Quiet
  BY DEF CreateTenant, RegisterUser, onboardVars, OnboardInv, Typed, Quiet
<1>3. RowsAreUnique'
  BY DEF CreateTenant, RegisterUser, SlugTaken, EmailTaken, onboardVars, OnboardInv,
     RowsAreUnique
<1> QED
  BY <1>1, <1>2, <1>3, QuietKeeps

\* A step of review r, which had not ended and has made nothing yet.
LEMMA OthersMade ==
  ASSUME OnboardInv, NEW r \in Reviewers, review[r].pc # "done",
         \A q \in Reviewers \ {r} : review'[q] = review[q],
         UNCHANGED <<tenants, users>>,
         \A a \in Apps : app'[a].slug = app[a].slug /\ app'[a].email = app[a].email
  PROVE  MadeByReviews' /\ RowsAreUnique' /\ \A a \in Apps : TenantsOf(a)' = TenantsOf(a)
<1> USE DEF OnboardInv
<1>1. /\ \A t \in tenants : t.by \in Reviewers => review'[t.by] = review[t.by]
      /\ \A u \in users : u.by \in Reviewers => review'[u.by] = review[u.by]
  BY DEF MadeByReviews
<1>2. MadeByReviews'
  BY <1>1 DEF MadeByReviews
<1>3. \A a \in Apps : TenantsOf(a)' = TenantsOf(a)
  BY <1>1 DEF TenantsOf
<1> QED
  BY <1>2, <1>3 DEF RowsAreUnique

LEMMA ReviewReadKeeps ==
  ASSUME OnboardInv, NEW r \in Reviewers, NEW a \in Apps,
         NEW first \in {"slug", "reject"}, ReviewRead(r, a, first)
  PROVE  OnboardInv'
<1> USE DEF OnboardInv
<1>1. /\ review[r].pc # "done"
      /\ review' = [review EXCEPT ![r] = [pc |-> first, a |-> a]]
      /\ app[a].pc = "PENDING"
      /\ crossed \subseteq crossed' /\ crossed' \subseteq Apps
      /\ UNCHANGED <<app, tenants, users>>
      /\ \A q \in Reviewers \ {r} : Deciding(q) /\ review[q].a = a => a \in crossed'
  BY DEF ReviewRead, BeginReview, Typed
<1>2. Typed'
  BY <1>1 DEF Typed
<1>3. /\ review'[r] = [pc |-> first, a |-> a]
      /\ \A q \in Reviewers \ {r} : review'[q] = review[q]
  BY <1>1 DEF Typed
<1>4. /\ MadeByReviews' /\ RowsAreUnique'
      /\ \A b \in Apps : TenantsOf(b)' = TenantsOf(b)
  BY <1>1, <1>3, OthersMade
<1>5. ApprovedAndMade'
  BY <1>1, <1>4 DEF ApprovedAndMade, MadeStaysApproved
<1>6. ReviewsPending'
  BY <1>1, <1>3 DEF ReviewsPending, Deciding
<1>7. TwoReviewsCross'
  BY <1>1, <1>3 DEF TwoReviewsCross, Deciding
<1> QED
  BY <1>2, <1>4, <1>5, <1>6, <1>7

\* A review that goes on or ends changes no application but its own, and the other
\* reviews of that one know it as crossed.
LEMMA MoveKeeps ==
  ASSUME OnboardInv, NEW r \in Reviewers, Deciding(r),
         NEW pc \in {"email", "commit", "done", "threw"}, GoesOn(r, pc),
         UNCHANGED crossed,
         \A b \in Apps \ {review[r].a} : app'[b] = app[b],
         pc \in {"email", "commit"} => UNCHANGED app
  PROVE  /\ ReviewsPending' /\ TwoReviewsCross'
         /\ review[r].pc # "done" /\ review'[r] = [pc |-> pc, a |-> review[r].a]
         /\ \A q \in Reviewers \ {r} : review'[q] = review[q]
<1> USE DEF OnboardInv
<1>1. /\ review'[r] = [pc |-> pc, a |-> review[r].a]
      /\ \A q \in Reviewers \ {r} : review'[q] = review[q]
  BY DEF GoesOn, Typed
<1>2. review[r].pc # "done"
  BY DEF Deciding
<1>3. TwoReviewsCross'
  BY <1>1 DEF TwoReviewsCross, Deciding
<1>4. ASSUME NEW q \in Reviewers, Deciding(q)'
      PROVE  /\ review'[q].a \in Apps
             /\ app'[review'[q].a].pc = "PENDING" \/ review'[q].a \in crossed'
  <2>1. review'[q].a = review[q].a /\ Deciding(q)
    BY <1>1, <1>4 DEF Deciding
  <2>2. CASE q = r
    <3>1. pc \in {"email", "commit"}
      BY <1>1, <1>4, <2>2 DEF Deciding
    <3> QED
      BY <2>1, <3>1 DEF ReviewsPending
  <2>3. CASE q # r /\ review[q].a = review[r].a
    <3>1. review[q].a \in Apps /\ review[q].a \in crossed
      BY <2>1, <2>3 DEF TwoReviewsCross, ReviewsPending
    <3> QED
      BY <2>1, <3>1
  <2>4. CASE review[q].a # review[r].a
    BY <2>1, <2>4 DEF ReviewsPending
  <2> QED
    BY <2>2, <2>3, <2>4
<1> QED
  BY <1>1, <1>2, <1>3, <1>4 DEF ReviewsPending

\* A check, or a write that throws.
LEMMA NothingWritten ==
  ASSUME OnboardInv, NEW r \in Reviewers, Deciding(r),
         NEW pc \in {"email", "commit", "threw"}, GoesOn(r, pc),
         UNCHANGED <<app, tenants, users, crossed>>
  PROVE  OnboardInv'
<1> USE DEF OnboardInv
<1>1. /\ ReviewsPending' /\ TwoReviewsCross'
      /\ review[r].pc # "done"
      /\ \A q \in Reviewers \ {r} : review'[q] = review[q]
  BY MoveKeeps
<1>2. /\ MadeByReviews' /\ RowsAreUnique'
      /\ \A b \in Apps : TenantsOf(b)' = TenantsOf(b)
  BY <1>1, OthersMade
<1>3. Typed'
  BY DEF GoesOn, Typed
<1> QED
  BY <1>1, <1>2, <1>3 DEF ApprovedAndMade, MadeStaysApproved

LEMMA CheckKeeps ==
  ASSUME OnboardInv, NEW r \in Reviewers, CheckSlug(r) \/ CheckEmail(r)
  PROVE  OnboardInv'
<1>1. /\ Deciding(r)
      /\ \E pc \in {"email", "commit", "threw"} : GoesOn(r, pc)
      /\ UNCHANGED <<app, tenants, users, crossed>>
  BY DEF CheckSlug, CheckEmail, ReviewCheck, Deciding
<1> QED
  BY <1>1, NothingWritten

LEMMA ApproveKeeps ==
  ASSUME OnboardInv, NEW r \in Reviewers, Approve(r)
  PROVE  OnboardInv'
<1> USE DEF OnboardInv
<1>1. PICK a \in Apps : review[r].a = a /\ Deciding(r) /\ UNCHANGED crossed
  BY DEF Approve, Deciding, ReviewsPending
<1>2. CASE CannotApprove(a)
  <2>1. GoesOn(r, "threw") /\ UNCHANGED <<app, tenants, users>>
    BY <1>1, <1>2 DEF Approve
  <2> QED
    BY <1>1, <2>1, NothingWritten
<1>3. CASE ~CannotApprove(a)
  <2> DEFINE t0 == [slug |-> app[a].slug, by |-> r]
             u0 == [email |-> app[a].email, by |-> r]
  <2>1. /\ GoesOn(r, "done")
        /\ app' = [app EXCEPT ![a].pc = "APPROVED"]
        /\ tenants' = tenants \cup {t0} /\ users' = users \cup {u0}
    BY <1>1, <1>3 DEF Approve
  <2>2. /\ \A t \in tenants : t.slug # app[a].slug
        /\ \A u \in users : u.email # app[a].email
    BY <1>3 DEF CannotApprove, SlugTaken, EmailTaken
  <2>3. /\ app'[a].pc = "APPROVED"
        /\ \A b \in Apps : app'[b].slug = app[b].slug /\ app'[b].email = app[b].email
        /\ \A b \in Apps \ {a} : app'[b] = app[b]
    BY <1>1, <2>1 DEF Typed
  <2>4. Typed'
    BY <1>1, <2>1 DEF GoesOn, Typed
  <2>5. /\ ReviewsPending' /\ TwoReviewsCross'
        /\ review[r].pc # "done" /\ review'[r] = [pc |-> "done", a |-> a]
        /\ \A q \in Reviewers \ {r} : review'[q] = review[q]
    BY <1>1, <2>1, <2>3, MoveKeeps
  <2>6. review'[r].pc = "done" /\ review'[r].a = a
    BY <2>5
  <2>7. /\ \A t \in tenants : t.by \in Reviewers => review'[t.by] = review[t.by]
        /\ \A u \in users : u.by \in Reviewers => review'[u.by] = review[u.by]
    BY <2>5 DEF MadeByReviews
  <2>8. MadeByReviews'
    <3>1. t0 \in tenants' /\ u0 \in users' /\ t0.by = r /\ u0.by = r
      BY <2>1
    <3>2. ASSUME NEW t \in tenants', t.by \in Reviewers
          PROVE  /\ review'[t.by].pc = "done" /\ review'[t.by].a \in Apps
                 /\ t.slug = app'[review'[t.by].a].slug
                 /\ \E u \in users' : u.by = t.by
      <4>1. CASE t = t0
        BY <1>1, <2>3, <2>6, <3>1, <4>1
      <4>2. CASE t \in tenants
        <5>1. /\ review[t.by].pc = "done" /\ review[t.by].a \in Apps
              /\ t.slug = app[review[t.by].a].slug
              /\ \E u \in users : u.by = t.by
          BY <3>2, <4>2 DEF MadeByReviews
        <5> QED
          BY <2>1, <2>3, <2>7, <3>2, <4>2, <5>1
      <4> QED
        BY <2>1, <4>1, <4>2
    <3>3. ASSUME NEW u \in users', u.by \in Reviewers
          PROVE  /\ review'[u.by].pc = "done" /\ review'[u.by].a \in Apps
                 /\ u.email = app'[review'[u.by].a].email
                 /\ \E t \in tenants' : t.by = u.by
      <4>1. CASE u = u0
        BY <1>1, <2>3, <2>6, <3>1, <4>1
      <4>2. CASE u \in users
        <5>1. /\ review[u.by].pc = "done" /\ review[u.by].a \in Apps
              /\ u.email = app[review[u.by].a].email
              /\ \E t \in tenants : t.by = u.by
          BY <3>3, <4>2 DEF MadeByReviews
        <5> QED
          BY <2>1, <2>3, <2>7, <3>3, <4>2, <5>1
      <4> QED
        BY <2>1, <4>1, <4>2
    <3> QED
      BY <3>2, <3>3 DEF MadeByReviews
  <2>9. RowsAreUnique'
    BY <2>1, <2>2 DEF RowsAreUnique
  <2>10. /\ t0 \in TenantsOf(a)'
         /\ \A b \in Apps \ {a} : TenantsOf(b)' = TenantsOf(b)
    <3>1. t0 \in tenants' /\ t0.by = r
      BY <2>1
    <3>2. t0 \in TenantsOf(a)'
      BY <2>6, <3>1 DEF TenantsOf
    <3>3. ASSUME NEW b \in Apps \ {a}
          PROVE  TenantsOf(b)' = TenantsOf(b)
      <4>1. t0 \notin TenantsOf(b)'
        BY <2>6, <3>1 DEF TenantsOf
      <4> HIDE DEF t0
      <4>2. tenants' = tenants \cup {t0}
        BY <2>1
      <4>3. \A t \in tenants : t \in TenantsOf(b)' <=> t \in TenantsOf(b)
        BY <2>7, <4>2 DEF TenantsOf
      <4> QED
        BY <4>1, <4>2, <4>3 DEF TenantsOf
    <3> QED
      BY <3>2, <3>3
  <2>11. ApprovedAndMade'
    <3>1. ASSUME NEW b \in Apps
          PROVE  /\ app'[b].pc = "APPROVED" => TenantsOf(b)' # {}
                 /\ TenantsOf(b)' # {} => app'[b].pc = "APPROVED" \/ b \in crossed'
      <4>1. CASE b = a
        BY <2>3, <2>10, <4>1
      <4>2. CASE b # a
        BY <1>1, <2>3, <2>10, <4>2 DEF ApprovedAndMade, MadeStaysApproved
      <4> QED
        BY <4>1, <4>2
    <3> QED
      BY <3>1 DEF ApprovedAndMade, MadeStaysApproved
  <2> QED
    BY <2>4, <2>5, <2>8, <2>9, <2>11
<1> QED
  BY <1>2, <1>3

LEMMA RejectKeeps ==
  ASSUME OnboardInv, NEW r \in Reviewers, Reject(r)
  PROVE  OnboardInv'
<1> DEFINE a == review[r].a
<1> USE DEF OnboardInv
<1>1. Deciding(r) /\ a \in Apps /\ UNCHANGED <<tenants, users, crossed>>
  BY DEF Reject, Deciding, ReviewsPending
<1>2. PICK pc \in {"done", "threw"} :
        /\ GoesOn(r, pc)
        /\ app' = app \/ app' = [app EXCEPT ![a].pc = "REJECTED"]
  BY DEF Reject
<1>3. /\ \A b \in Apps : app'[b].slug = app[b].slug /\ app'[b].email = app[b].email
      /\ app'[a].pc \in {app[a].pc, "REJECTED"}
      /\ \A b \in Apps \ {a} : app'[b] = app[b]
  BY <1>1, <1>2 DEF Typed
<1>4. Typed'
  <2>1. CASE app' = app
    BY <1>1, <1>2, <2>1 DEF GoesOn, Typed
  <2>2. CASE app' = [app EXCEPT ![a].pc = "REJECTED"]
    BY <1>1, <1>2, <2>2 DEF GoesOn, Typed
  <2> QED
    BY <1>2, <2>1, <2>2
<1>5. /\ ReviewsPending' /\ TwoReviewsCross'
      /\ review[r].pc # "done"
      /\ \A q \in Reviewers \ {r} : review'[q] = review[q]
  BY <1>1, <1>2, <1>3, MoveKeeps
<1>6. /\ MadeByReviews' /\ RowsAreUnique'
      /\ \A b \in Apps : TenantsOf(b)' = TenantsOf(b)
  BY <1>1, <1>3, <1>5, OthersMade
<1>7. TenantsOf(a) # {} => a \in crossed
  BY <1>1 DEF ReviewsPending, ApprovedAndMade, MadeStaysApproved
<1>8. ApprovedAndMade'
  BY <1>1, <1>3, <1>6, <1>7 DEF ApprovedAndMade, MadeStaysApproved
<1> QED
  BY <1>4, <1>5, <1>6, <1>8

LEMMA OnboardStep == OnboardInv /\ [OnboardNext]_onboardVars => OnboardInv'
BY ApplyingKeeps, OthersKeep, ReviewReadKeeps, CheckKeeps, ApproveKeeps, RejectKeeps
   DEF OnboardNext

\* The inductive invariant.
THEOREM OnboardInvariant == OnboardSpec => []OnboardInv
BY OnboardBegins, OnboardStep, PTL DEF OnboardSpec

LEMMA OneOfEach ==
  ASSUME OnboardInv, NEW a \in Apps, TenantsOf(a) # {} \/ AccountsOf(a) # {}
  PROVE  \E r \in Reviewers :
           /\ TenantsOf(a) = {[slug |-> app[a].slug, by |-> r]}
           /\ AccountsOf(a) = {[email |-> app[a].email, by |-> r]}
<1> USE DEF OnboardInv
<1>1. PICK t \in tenants, u \in users :
        t.by \in Reviewers /\ u.by = t.by /\ review[t.by].a = a
  BY DEF MadeByReviews, TenantsOf, AccountsOf
<1>2. t.slug = app[a].slug /\ u.email = app[a].email
  BY <1>1 DEF MadeByReviews
<1>3. /\ t = [slug |-> app[a].slug, by |-> t.by]
      /\ u = [email |-> app[a].email, by |-> t.by]
  BY <1>1, <1>2 DEF Typed
<1>4. TenantsOf(a) = {t}
  BY <1>1, <1>2 DEF TenantsOf, MadeByReviews, RowsAreUnique
<1>5. AccountsOf(a) = {u}
  BY <1>1, <1>2 DEF AccountsOf, MadeByReviews, RowsAreUnique
<1> QED
  BY <1>1, <1>3, <1>4, <1>5

\* theater-onboarding.service.ts approveApplication: an approval makes one tenant
\* and one account of an application, however many reviews approve it at once, and
\* no two share a slug or an email.
THEOREM ApprovedHasTenant == OnboardSpec => []ApprovedIsMade
<1>1. OnboardInv => ApprovedIsMade
  <2> SUFFICES ASSUME OnboardInv PROVE ApprovedIsMade
    OBVIOUS
  <2>1. \A a \in Apps : TenantsOf(a) = {} => app[a].pc # "APPROVED"
    BY DEF OnboardInv, ApprovedAndMade
  <2> QED
    BY <2>1, OneOfEach DEF OnboardInv, RowsAreUnique, ApprovedIsMade
<1> QED
  BY <1>1, OnboardInvariant, PTL

\* theater-onboarding.service.ts reviewApplication: only a second review that
\* read the application before the first one ended takes an approval back.
THEOREM ApprovalStays == OnboardSpec => []MadeStaysApproved
<1>1. OnboardInv => MadeStaysApproved
  BY DEF OnboardInv, ApprovedAndMade
<1> QED
  BY <1>1, OnboardInvariant, PTL

\* Unique key (email, status) of TheaterApplication.
KeysAreUnique ==
  \A a, b \in Rows : a # b => app[a].email # app[b].email \/ app[a].pc # app[b].pc

LEMMA OneRowMoves ==
  ASSUME Typed, KeysAreUnique, NEW a \in Apps,
         NEW to \in {"refused", "email", "pending", "create",
                     "PENDING", "APPROVED", "REJECTED"},
         to \in {"PENDING", "APPROVED", "REJECTED"} => ~Taken(a, to),
         app' = [app EXCEPT ![a].pc = to]
  PROVE  KeysAreUnique'
<1>1. /\ app'[a].pc = to /\ app'[a].email = app[a].email
      /\ \A b \in Apps \ {a} : app'[b] = app[b]
  BY DEF Typed
<1>2. Rows' \subseteq Apps /\ Rows' \ {a} = Rows \ {a}
  BY <1>1 DEF Rows
<1>3. a \in Rows' => \A b \in Rows' \ {a} : app'[b].email # app'[a].email
                                            \/ app'[b].pc # app'[a].pc
  BY <1>1, <1>2 DEF Rows, Taken
<1>4. \A b, c \in Rows' \ {a} : b # c => app'[b].email # app'[c].email
                                         \/ app'[b].pc # app'[c].pc
  BY <1>1, <1>2 DEF KeysAreUnique
<1> QED
  BY <1>3, <1>4 DEF KeysAreUnique

\* Every write of a status asks whether another application of the email has it.
LEMMA KeysStep ==
  OnboardInv /\ KeysAreUnique /\ [OnboardNext]_onboardVars => KeysAreUnique'
<1> SUFFICES ASSUME OnboardInv, KeysAreUnique, [OnboardNext]_onboardVars
             PROVE  KeysAreUnique'
  OBVIOUS
<1>0. Typed
  BY DEF OnboardInv
<1>1. CASE UNCHANGED app
  BY <1>1 DEF KeysAreUnique, Rows
<1>2. ASSUME NEW a \in Apps, Applying(a) PROVE KeysAreUnique'
  <2>1. PICK to \in {"refused", "email", "pending", "create", "PENDING"} :
          app' = [app EXCEPT ![a].pc = to] /\ (to = "PENDING" => ~Taken(a, "PENDING"))
    BY <1>2 DEF Applying, ApplySlug, ApplyEmail, ApplyPending, ApplyCreate,
       ApplicationStep, Goes
  <2> QED
    BY <1>0, <2>1, OneRowMoves
<1>3. ASSUME NEW r \in Reviewers, Approve(r) \/ Reject(r) PROVE KeysAreUnique'
  <2>1. review[r].a \in Apps
    BY <1>3 DEF OnboardInv, ReviewsPending, Deciding, Approve, Reject
  <2>2. \/ UNCHANGED app
        \/ \E to \in {"APPROVED", "REJECTED"} :
             /\ app' = [app EXCEPT ![review[r].a].pc = to]
             /\ ~Taken(review[r].a, to)
    BY <1>3 DEF Approve, Reject, CannotApprove
  <2> QED
    BY <1>0, <1>1, <2>1, <2>2, OneRowMoves
<1> QED
  BY <1>1, <1>2, <1>3 DEF OnboardNext, onboardVars, CreateTenant, RegisterUser, ReviewRead,
     BeginReview, CheckSlug, CheckEmail, ReviewCheck

\* theater-onboarding.service.ts: no email has two applications of one status,
\* whichever of apply and reviewApplication writes it.
THEOREM OnboardTypes == OnboardSpec => []OnboardTypeOK
<1>1. OnboardInit => KeysAreUnique
  BY DEF OnboardInit, KeysAreUnique, Rows
<1>2. OnboardInv /\ KeysAreUnique => OnboardTypeOK
  BY DEF OnboardInv, Typed, KeysAreUnique, OnboardTypeOK
<1> QED
  BY <1>1, <1>2, KeysStep, OnboardInvariant, PTL DEF OnboardSpec

(***************************************************************************)
(* The eight components beside each other, as MCServices runs them.        *)

servicesVars == <<scanVars, checkoutVars, onboardVars, sessionVars, boardVars,
                  seatMapVars, moreVars, focus>>

\* A step of one component is a step of that component alone: each of the
\* eight sees its own step or a stutter.
LEMMA OneOfEightSteps ==
  ASSUME [ServicesNext]_servicesVars
  PROVE  /\ [ScanNext]_scanVars
         /\ [CheckoutNext]_checkoutVars
         /\ [OnboardNext]_onboardVars
         /\ [SessionNext]_sessionVars
         /\ [BoardNext]_boardVars
         /\ [MapNext]_<<vars, mapVars>>
         /\ [FeeNext]_feeVars
         /\ [IssueNext]_issueVars
<1>1. CASE UNCHANGED servicesVars
  BY <1>1 DEF servicesVars, seatMapVars, moreVars
<1>2. CASE ServicesNext
  BY <1>2 DEF ServicesNext, seatMapVars, moreVars
<1> QED
  BY <1>1, <1>2

\* The composition implements each of its components.  They share no variable,
\* so a component takes its own step or none: what is proved of it alone holds
\* of it here, where the services run checks it.
THEOREM ServicesImplementEach ==
  ServicesSpec => /\ ScanSpec
                  /\ CheckoutSpec
                  /\ OnboardSpec
                  /\ SessionSpec
                  /\ BoardSpec
                  /\ MapSpec
                  /\ FeeSpec
                  /\ IssueSpec
<1>1. ServicesInit => /\ ScanInit /\ CheckoutInit /\ OnboardInit /\ SessionInit
                      /\ BoardInit /\ MapInit /\ FeeInit /\ IssueInit
  BY DEF ServicesInit
<1>2. [ServicesNext]_servicesVars => /\ [ScanNext]_scanVars
                                     /\ [CheckoutNext]_checkoutVars
                                     /\ [OnboardNext]_onboardVars
                                     /\ [SessionNext]_sessionVars
                                     /\ [BoardNext]_boardVars
                                     /\ [MapNext]_<<vars, mapVars>>
                                     /\ [FeeNext]_feeVars
                                     /\ [IssueNext]_issueVars
  BY OneOfEightSteps
<1> QED
  BY <1>1, <1>2, PTL
  DEF ServicesSpec, servicesVars, ScanSpec, CheckoutSpec, OnboardSpec, SessionSpec,
      BoardSpec, MapSpec, FeeSpec, IssueSpec

\* In the composition the variables of every component have their types, whether
\* or not the behaviour is about it.
THEOREM ServicesTypes == ServicesSpec => []ServicesTypeOK
<1>1. /\ ScanInv => ScanTypeOK
      /\ SessionInv => SessionTypeOK
      /\ MapInv => TypeOK /\ MapTypeOK
      /\ FeeInv => FeeTypeOK
      /\ IssueInv => IssueTypeOK
  BY DEF ScanInv, SessionInv, MapInv, SaleInv, FeeInv, IssueInv
<1> DEFINE AllTyped == /\ ScanTypeOK /\ CheckoutTypeOK /\ OnboardTypeOK /\ SessionTypeOK
                       /\ BoardTypeOK /\ TypeOK /\ MapTypeOK /\ FeeTypeOK /\ IssueTypeOK
<1>2. ServicesSpec => []AllTyped
  BY <1>1, ServicesImplementEach, ScanInvariant, CheckoutTypes, OnboardTypes,
     SessionInvariant, BoardTypes, MapInvariant, FeeInvariant, IssueInvariant, PTL
<1> DEFINE Named == focus \in {"scan", "checkout", "onboard", "session", "board",
                              "map", "fee", "issue"}
<1>3. ServicesSpec => []Named
  <2>1. ServicesInit => Named
    BY DEF ServicesInit
  <2>2. Named /\ [ServicesNext]_servicesVars => Named'
    BY DEF ServicesNext, servicesVars
  <2> QED
    BY <2>1, <2>2, PTL DEF ServicesSpec, servicesVars
<1>4. AllTyped /\ Named => ServicesTypeOK
  BY DEF ServicesTypeOK
<1> QED
  BY <1>2, <1>3, <1>4, PTL

\* What the services run checks on an instance, for every instance: each
\* component keeps its promises beside the others.
THEOREM ServicesKeepPromises ==
  ServicesSpec =>
    /\ [](OneEntryAtTheGate /\ SecondEntryOnlyByOverlap /\ ReplayWritesNothing
            /\ NoEntryAfterRevocation)
    /\ [](ShownIsCharged /\ AmountsAddUp /\ PaidFailedCause /\ RevenueIsReceived
            /\ PaidTwiceOnlyByTwins)
    /\ ConfirmedStays
    /\ [](ApprovedIsMade /\ MadeStaysApproved)
    /\ [](LoggedOutStaysOut /\ CallsAreItsOwn)
    /\ [](ShownIsTrue /\ ChosenIsShownFree)
    /\ [](ShownFreeWasFree /\ FeeAccounted /\ TicketsIssued)
BY ServicesImplementEach, PTL,
   OneGateEntry, SecondEntryOverlaps, ReplayIsIgnored, RevokedEnterNobody,
   ShownAmountIsCharged, RowAmountsAddUp, PaidIsFailedWithCause,
   RevenueIsWhatWasReceived, PaidTwiceIsByTwins, ConfirmedIsKept,
   ApprovedHasTenant, ApprovalStays, LogoutLasts, CallsCarryOwn,
   ShownSeatIsTrue, ChosenSeatIsShownFree,
   MapShowsFree, FeeIsAccounted, IssueIsSound
=============================================================================
