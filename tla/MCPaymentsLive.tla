--------------------------- MODULE MCPaymentsLive ---------------------------
(* Finite instances of PaymentLifecycle and of OrderCircuit for TLC, each on *)
(* its own: part says which of the two a behaviour is about.                 *)
EXTENDS PaymentRefinement, OrderCircuit

VARIABLE part

LiveInit == Init /\ CircuitInit /\ part \in {"payments", "circuit"}

LiveNext ==
  /\ \/ part = "payments" /\ Next /\ UNCHANGED circuitVars
     \/ part = "circuit" /\ CircuitNext /\ UNCHANGED vars
  /\ UNCHANGED part

LiveSpec ==
  /\ LiveInit /\ [][LiveNext]_<<vars, circuitVars, part>>
  /\ part = "payments" => Fairness
  /\ part = "circuit" => CircuitFairness
=============================================================================
