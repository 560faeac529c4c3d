---------------------------- MODULE MCBulkWrite ----------------------------
(* Model checking of BulkWrite on small instances. *)
EXTENDS BulkWrite

Plain(v) == [verb |-> v, failFast |-> FALSE, backups |-> TRUE, all |-> FALSE, dryRun |-> FALSE]

\* Every verb, and each switch once.
EveryCommand ==
  {Plain(v) : v \in AllVerbs}
    \cup {[Plain("each") EXCEPT !.failFast = TRUE], [Plain("update") EXCEPT !.all = TRUE, !.backups = FALSE],
          [Plain("delete") EXCEPT !.dryRun = TRUE]}

OneUpdate == {Plain("update")}
=============================================================================
