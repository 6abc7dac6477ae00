----------------------------- MODULE MCServices -----------------------------
(* Finite instances of eight components for TLC.  They share no state and call *)
(* nothing of each other: focus says which of them a behaviour is about, and  *)
(* the others stay as they began.                                             *)
EXTENDS Scanning, Checkout, Onboarding, Session, SeatBoard, SeatMap,
        Monetization, TicketIssue, TLC

CONSTANTS x1, x2, y1, y2

VARIABLE focus

seatMapVars == <<vars, mapVars>>
moreVars == <<feeVars, issueVars>>

\* The components that stay as they began have one beginning.  The two sessions
\* of a browser are a client's and one of another kind.
ServicesInit ==
  /\ focus \in {"scan", "checkout", "onboard", "session", "board", "map",
               "fee", "issue"}
  /\ ScanInit /\ CheckoutInit /\ OnboardInit /\ SessionInit /\ BoardInit /\ MapInit
  /\ FeeInit /\ IssueInit
  /\ focus # "checkout" => cart.total = 0
  /\ focus # "onboard" => \A a \in Apps : /\ app[a].email = (CHOOSE e \in Emails : TRUE)
                                         /\ app[a].slug = (CHOOSE g \in Slugs : TRUE)
  /\ IF focus = "session" THEN {t \in Tokens : kind[t] = "USER"} \in {{y1}, {y2}}
                        ELSE \A t \in Tokens : kind[t] = "USER"
  /\ focus # "board" => view.kind = "page" /\ seat = "AVAILABLE"

ServicesNext ==
  /\ \/ focus = "scan" /\ ScanNext
        /\ UNCHANGED <<checkoutVars, onboardVars, sessionVars, boardVars, seatMapVars, moreVars>>
     \/ focus = "checkout" /\ CheckoutNext
        /\ UNCHANGED <<scanVars, onboardVars, sessionVars, boardVars, seatMapVars, moreVars>>
     \/ focus = "onboard" /\ OnboardNext
        /\ UNCHANGED <<scanVars, checkoutVars, sessionVars, boardVars, seatMapVars, moreVars>>
     \/ focus = "session" /\ SessionNext
        /\ UNCHANGED <<scanVars, checkoutVars, onboardVars, boardVars, seatMapVars, moreVars>>
     \/ focus = "board" /\ BoardNext
        /\ UNCHANGED <<scanVars, checkoutVars, onboardVars, sessionVars, seatMapVars, moreVars>>
     \/ focus = "map" /\ MapNext
        /\ UNCHANGED <<scanVars, checkoutVars, onboardVars, sessionVars, boardVars, moreVars>>
     \/ focus = "fee" /\ FeeNext
        /\ UNCHANGED <<scanVars, checkoutVars, onboardVars, sessionVars, boardVars,
                       seatMapVars, issueVars>>
     \/ focus = "issue" /\ IssueNext
        /\ UNCHANGED <<scanVars, checkoutVars, onboardVars, sessionVars, boardVars,
                       seatMapVars, feeVars>>
  /\ UNCHANGED focus

ServicesSpec ==
  ServicesInit
    /\ [][ServicesNext]_<<scanVars, checkoutVars, onboardVars, sessionVars, boardVars,
                           seatMapVars, moreVars, focus>>

\* The components that stay as they began make no difference.
ServicesView ==
  <<focus, CASE focus = "scan"     -> <<scanVars>>
             [] focus = "checkout" -> <<checkoutVars>>
             [] focus = "onboard"  -> <<onboardVars>>
             [] focus = "session"  -> <<sessionVars>>
             [] focus = "board"    -> <<boardVars>>
             [] focus = "map"      -> <<seatMapVars>>
             [] focus = "fee"      -> <<feeVars>>
             [] focus = "issue"    -> <<issueVars>> >>

\* x1 and x2, and y1 and y2, play the same parts in every component.
ServicesSymmetry == Permutations({x1, x2}) \cup Permutations({y1, y2})

\* The variables of the component have their types, those of the others are as
\* they began.
ServicesTypeOK ==
  CASE focus = "scan"     -> ScanTypeOK
    [] focus = "checkout" -> CheckoutTypeOK
    [] focus = "onboard"  -> OnboardTypeOK
    [] focus = "session"  -> SessionTypeOK
    [] focus = "board"    -> BoardTypeOK
    [] focus = "map"      -> TypeOK /\ MapTypeOK
    [] focus = "fee"      -> FeeTypeOK
    [] focus = "issue"    -> IssueTypeOK
=============================================================================
