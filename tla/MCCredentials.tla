--------------------------- MODULE MCCredentials ---------------------------
(* Small instances of Credentials for TLC. *)
EXTENDS Credentials, TLC

\* Processes are alike.  Not for the liveness run.
Symmetry == Permutations(Procs)
=============================================================================
