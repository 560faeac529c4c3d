--------------------------- MODULE MCPublication ---------------------------
(* Model checking of Publication on small instances. *)
EXTENDS Publication

Update(m, r) == [verb |-> "update", mode |-> m, reset |-> r]
Plain(v) == [verb |-> v, mode |-> "plain", reset |-> FALSE]

\* Every verb and every mode; a body that publishes is like --publish.
EveryCommand ==
  {Update(m, FALSE) : m \in Modes \ {"publishedBody"}} \cup {Update("plain", TRUE)}
    \cup {Plain(v) : v \in {"publish", "unpublish", "repair", "restate", "restore", "undo"}}
    \cup {[Plain("restore") EXCEPT !.mode = m] : m \in {"draft", "unpublish"}}
    \cup {[Plain("undo") EXCEPT !.mode = m] : m \in {"draft"}}
=============================================================================
