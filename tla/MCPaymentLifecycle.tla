------------------------- MODULE MCPaymentLifecycle -------------------------
(* Finite instances of PaymentLifecycle for TLC. *)
EXTENDS PaymentLifecycle, TLC

\* Webhook handlers are interchangeable.
Symmetry == Permutations(Hooks)
=============================================================================
