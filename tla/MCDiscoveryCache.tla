-------------------------- MODULE MCDiscoveryCache --------------------------
(* Small instances of DiscoveryCache for TLC. *)
EXTENDS DiscoveryCache, TLC

\* Processes are alike, and so are entities.  Not for the liveness run.
Symmetry == Permutations(Procs) \cup Permutations(Entities)
=============================================================================
