---------------------------- MODULE MCIdempotency ----------------------------
(* The idempotency protocol for TLC.  Calls, slots and hashes are          *)
(* interchangeable in every safety run; the liveness run uses no symmetry. *)
EXTENDS Idempotency, TLC

Symmetry == Permutations(Calls) \cup Permutations(Slots) \cup Permutations(Hashes)
=============================================================================
