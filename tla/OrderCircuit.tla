---------------------------- MODULE OrderCircuit ----------------------------
(***************************************************************************)
(* The circuit breaker of payments/payments.service.ts around the calls    *)
(* that createRazorpayOrder makes: the order at Razorpay and the update of *)
(* the booking.  The code between two awaited calls is one step, and the   *)
(* breaker's fields belong to one process.                                 *)
(***************************************************************************)
EXTENDS Naturals, FiniteSets

CONSTANTS Calls,      \* createRazorpayOrder requests that may run at once
          Threshold,  \* FAILURE_THRESHOLD
          Window,     \* WINDOW_PERIOD, in ticks
          Cooldown    \* COOLDOWN_PERIOD, in ticks: longer than the window

ASSUME CircuitAssumption ==
  /\ IsFiniteSet(Calls)
  /\ Threshold \in Nat \ {0} /\ Window \in Nat /\ Cooldown \in Nat
  /\ Window < Cooldown

VARIABLES circuit,     \* circuitState
          failures,    \* failureCount
          sinceError,  \* ticks since lastErrorTime, counted to Cooldown + 1
          call,        \* Calls -> "idle", "out" (sent, not answered)
          streak       \* history: failures since the last success, counted to
                       \* Threshold, however far apart

circuitVars == <<circuit, failures, sinceError, call, streak>>

CircuitTypeOK ==
  /\ circuit \in {"CLOSED", "OPEN", "HALF_OPEN"}
  /\ failures \in Nat
  /\ sinceError \in 0 .. Cooldown + 1
  /\ call \in [Calls -> {"idle", "out"}]
  /\ streak \in 0 .. Threshold
  /\ circuit = "CLOSED" => failures < Threshold

\* lastErrorTime is 0, the epoch.
CircuitInit ==
  /\ circuit = "CLOSED" /\ failures = 0
  /\ sinceError = Cooldown + 1
  /\ call = [c \in Calls |-> "idle"]
  /\ streak = 0

CircuitTick ==
  /\ sinceError <= Cooldown
  /\ sinceError' = sinceError + 1
  /\ UNCHANGED <<circuit, failures, call, streak>>

\* Mutant of Passes: the request of the last tick of the cooldown is let through
PassesEarly == circuit = "OPEN" => sinceError >= Cooldown

\* Mutant of Passes: an open circuit never closes again
PassesNever == circuit # "OPEN"

\* What a request finds: the cooldown over, or the circuit not open.
Passes == circuit = "OPEN" => sinceError > Cooldown

Checked == IF circuit = "OPEN" THEN "HALF_OPEN" ELSE circuit

\* checkCircuit lets the request through and the order is asked for.
CallStart(c) ==
  /\ call[c] = "idle" /\ Passes
  /\ circuit' = Checked
  /\ call' = [call EXCEPT ![c] = "out"]
  /\ UNCHANGED <<failures, sinceError, streak>>

\* checkCircuit lets a request through whose booking has an order: it is
\* answered at once, and neither recordSuccess nor recordFailure runs.
CallRepeated ==
  /\ Passes
  /\ circuit' = Checked
  /\ UNCHANGED <<failures, sinceError, call, streak>>

\* Mutant of CallSucceeds: recordSuccess keeps the count
CallSucceedsCounting(c) ==
  /\ call[c] = "out"
  /\ call' = [call EXCEPT ![c] = "idle"]
  /\ circuit' = "CLOSED" /\ streak' = 0
  /\ UNCHANGED <<failures, sinceError>>

\* recordSuccess
CallSucceeds(c) ==
  /\ call[c] = "out"
  /\ call' = [call EXCEPT ![c] = "idle"]
  /\ failures' = 0 /\ circuit' = "CLOSED"
  /\ streak' = 0
  /\ UNCHANGED sinceError

\* recordFailure
Counted == IF sinceError > Window THEN 1 ELSE failures + 1

\* Razorpay refuses or the update of the booking throws.
CallFails(c) ==
  /\ call[c] = "out"
  /\ call' = [call EXCEPT ![c] = "idle"]
  /\ failures' = Counted
  /\ circuit' = IF Counted >= Threshold THEN "OPEN" ELSE circuit
  /\ sinceError' = 0
  /\ streak' = IF streak < Threshold THEN streak + 1 ELSE streak

CircuitNext ==
  \/ CircuitTick \/ CallRepeated
  \/ \E c \in Calls : CallStart(c) \/ CallSucceeds(c) \/ CallFails(c)

\* Time passes, clients go on asking for orders, and every call ends: the HTTP
\* and database clients give up after a while.
CircuitFairness ==
  /\ WF_circuitVars(CircuitTick)
  /\ \A c \in Calls : /\ WF_circuitVars(CallStart(c))
                      /\ WF_circuitVars(CallSucceeds(c) \/ CallFails(c))

CircuitSpec == CircuitInit /\ [][CircuitNext]_circuitVars
-----------------------------------------------------------------------------
(* Properties                                                              *)

\* When the threshold is reached, requests are turned away until the cooldown
\* is over, and no early request, late failure or answer of an existing order
\* lets one through before: only a success takes the count back.
TurnedAwayForCooldown ==
  failures >= Threshold => circuit = "OPEN" \/ sinceError > Cooldown

\* An open circuit stands for as many failures as the threshold with no success
\* among them, although calls overlap, the count starts again when failures lie
\* apart, and a failure that arrives late may set it back while the circuit is
\* open.
OpenAfterFailures == circuit = "OPEN" => streak >= Threshold

\* Calls that fail late put the end of the cooldown off, but not for ever.
CircuitRecovers == circuit = "OPEN" ~> circuit # "OPEN"
=============================================================================
