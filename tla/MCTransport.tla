---------------------------- MODULE MCTransport ----------------------------
(* Model checking of Transport on small instances. *)
EXTENDS Transport, TLC

Symmetry == Permutations(Reqs)
=============================================================================
