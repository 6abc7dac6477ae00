---------------------------- MODULE MCSeatLocks ----------------------------
(* Finite instances of SeatLocks for TLC. *)
EXTENDS SeatLocks
=============================================================================
