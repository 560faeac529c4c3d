----------------------------- MODULE Transport -----------------------------
(***************************************************************************)
(* How one process sends its requests (internal/payload: Client.Do, send,  *)
(* classifyAttempt, Budget.Take, promotePlan, handleStale).  Requests run  *)
(* in goroutines of their own and share the retry budget and the           *)
(* once-per-process re-discovery.                                          *)
(*                                                                         *)
(* External: the network may lose a request or its answer, or delay a      *)
(* request past the client's timeout; the server may execute a request it  *)
(* answers with an error.  net/http may have read some of a request's body *)
(* when it finds that the server closed the idle connection.               *)
(*                                                                         *)
(* Left out: durations (a sleep may always be one that the deadline does   *)
(* not allow) and redirects.                                               *)
(***************************************************************************)
EXTENDS Integers, FiniteSets

CONSTANTS
  Reqs,         \* the requests of the process
  Kinds,        \* the kinds of request it may make
  MaxAttempts,  \* RetryPolicy.MaxAttempts
  RetryBudget   \* the retries all requests share

\* A GET that may be overridden, any other read, a write, a streamed upload.
AllKinds == {"get", "read", "write", "upload"}

\* How an attempt may end.  With an error: a pooled connection was closed, nothing
\* could be dialled, the certificate is bad, the answer is missing or cut short, the
\* user gave up.  With an answer: success, a proxy's 429 or 50x, a 413 414 or 431, a
\* path or route the server does not know, any other status.
Unsent  == {"idle", "preflight", "tls"}
Answers == Unsent \cup {"lost", "canceled", "ok", "busy", "toolong", "unknown", "refused"}

ASSUME ReqsAssumption == IsFiniteSet(Reqs)
ASSUME KindsAssumption == Kinds \subseteq AllKinds
ASSUME AttemptsAssumption == MaxAttempts \in Nat \ {0}
ASSUME BudgetAssumption == RetryBudget \in Nat

VARIABLES
  kind,      \* per request: its kind
  pc,        \* per request: where its goroutine is
  attempts,  \* per request: send's attempts
  freeUsed,  \* per request: send's free retry was taken
  promoted,  \* per request: rewritten as an override POST
  answer,    \* per request: how its last attempt ended
  seenLeft,  \* per request: the budget it loaded, before the compare-and-swap
  resent,    \* per request: sent again after the re-discovery
  budget,    \* Budget.remaining
  staleUsed, \* clientState.staleUsed
  taken,     \* external: per request, the server executed the attempt under way
  flying,    \* external: per request, an attempt given up may yet be executed
  drained,   \* external: per request, an earlier attempt read some of the body
  applied,   \* history: per request, how often the server executed the write
  sent,      \* history: attempts of all requests
  renewed    \* history: how often discovery was run again

request == <<kind, promoted, answer, resent>>
loop    == <<attempts, freeUsed, seenLeft>>
shared  == <<budget, staleUsed>>
network == <<taken, flying, drained, applied>>
history == <<sent, renewed>>
vars    == <<request, pc, loop, shared, network, history>>

-----------------------------------------------------------------------------
IsReadOnly(r) == kind[r] \in {"get", "read"}

CanPromote(r) == kind[r] = "get" /\ ~promoted[r]

\* Mutant: a write is retried like a read.
ClassifyAttemptWrites(r, a) ==
  IF a = "idle" /\ ~freeUsed[r] THEN "free"
  ELSE IF a \in {"idle", "preflight", "lost", "busy"} THEN "backoff"
  ELSE IF a = "toolong" /\ IsReadOnly(r) /\ ~promoted[r] THEN "promote"
  ELSE "stop"

\* classifyAttempt.  What the server said of a write is final; an error of a write
\* is retried only if nothing had left.
ClassifyAttempt(r, a) ==
  IF a = "idle" /\ ~freeUsed[r] THEN "free"
  ELSE IF a \in {"idle", "preflight"} \/ (IsReadOnly(r) /\ a \in {"lost", "busy"}) THEN "backoff"
  ELSE IF a = "toolong" /\ IsReadOnly(r) /\ ~promoted[r] THEN "promote"
  ELSE "stop"

-----------------------------------------------------------------------------
Init ==
  /\ kind \in [Reqs -> Kinds]
  /\ pc = [r \in Reqs |-> "plan"]
  /\ attempts = [r \in Reqs |-> 0] /\ seenLeft = attempts /\ applied = attempts
  /\ freeUsed = [r \in Reqs |-> FALSE] /\ promoted = freeUsed /\ resent = freeUsed
  /\ taken = freeUsed /\ flying = freeUsed /\ drained = freeUsed
  /\ answer = [r \in Reqs |-> "none"]
  /\ budget = RetryBudget /\ staleUsed = FALSE
  /\ sent = 0 /\ renewed = 0

Goto(r, from, next) == pc[r] = from /\ pc' = [pc EXCEPT ![r] = next]

\* plan: a long URL is promoted before it is sent, if it may be.
Plans(r) ==
  /\ Goto(r, "plan", "send")
  /\ \E long \in BOOLEAN : promoted' = [promoted EXCEPT ![r] = long /\ CanPromote(r)]
  /\ UNCHANGED <<kind, answer, resent, loop, shared, network, history>>

\* A round trip begins; when the attempts are used up send returns the last answer.
Sends(r) ==
  /\ pc[r] = "send"
  /\ IF attempts[r] < MaxAttempts
       THEN /\ pc' = [pc EXCEPT ![r] = "wait"]
            /\ attempts' = [attempts EXCEPT ![r] = @ + 1]
            /\ answer' = [answer EXCEPT ![r] = "none"]
            /\ sent' = sent + 1
       ELSE pc' = [pc EXCEPT ![r] = "answered"] /\ UNCHANGED <<attempts, answer, sent>>
  /\ UNCHANGED <<kind, promoted, resent, freeUsed, seenLeft, shared, network, renewed>>

\* The server executes the attempt under way, or one the client gave up.
Executes(r) ==
  /\ \/ pc[r] = "wait" /\ ~taken[r] /\ taken' = [taken EXCEPT ![r] = TRUE] /\ UNCHANGED flying
     \/ flying[r] /\ flying' = [flying EXCEPT ![r] = FALSE] /\ UNCHANGED taken
  /\ applied' = [applied EXCEPT ![r] = IF IsReadOnly(r) THEN @ ELSE @ + 1]
  /\ UNCHANGED <<request, pc, loop, shared, drained, history>>

\* The network's part of an attempt that ends with a: only an executed one
\* succeeds, an error that proves it never left was not executed, and one given up
\* may be executed later.
Ends(r, a) ==
  /\ a = "ok" => taken[r]
  /\ a \in Unsent \cup {"toolong", "unknown"} => ~taken[r]
  /\ taken' = [taken EXCEPT ![r] = FALSE]
  /\ flying' = [flying EXCEPT ![r] =
       @ \/ (a \in {"lost", "canceled"} /\ ~taken[r] /\ ~IsReadOnly(r))]
  /\ \E read \in BOOLEAN : drained' = [drained EXCEPT ![r] =
       @ \/ (read /\ a = "idle" /\ kind[r] = "upload")]

\* What send does next.
Decides(r, a) ==
  CASE ClassifyAttempt(r, a) = "free"    -> "send"
    [] ClassifyAttempt(r, a) = "promote" -> "promote"
    [] ClassifyAttempt(r, a) = "backoff" -> IF attempts[r] < MaxAttempts THEN "take" ELSE "answered"
    [] ClassifyAttempt(r, a) = "stop"    -> "answered"

\* Mutant: the free retry may be had again and again.
AttemptEndsFreely(r) ==
  /\ pc[r] = "wait"
  /\ \E a \in Answers :
       /\ Ends(r, a)
       /\ answer' = [answer EXCEPT ![r] = a]
       /\ pc' = [pc EXCEPT ![r] = Decides(r, a)]
  /\ UNCHANGED <<kind, promoted, resent, loop, shared, applied, history>>

\* Mutant: an attempt has no timeout, it ends when the server has answered.
AttemptEndsUntimed(r) ==
  /\ pc[r] = "wait" /\ taken[r]
  /\ \E a \in Answers :
       /\ Ends(r, a)
       /\ answer' = [answer EXCEPT ![r] = a]
       /\ freeUsed' = [freeUsed EXCEPT ![r] = @ \/ ClassifyAttempt(r, a) = "free"]
       /\ pc' = [pc EXCEPT ![r] = Decides(r, a)]
  /\ UNCHANGED <<kind, promoted, resent, attempts, seenLeft, shared, applied, history>>

\* attempt returns, with an answer or an error; at the latest when it times out.
AttemptEnds(r) ==
  /\ pc[r] = "wait"
  /\ \E a \in Answers :
       /\ Ends(r, a)
       /\ answer' = [answer EXCEPT ![r] = a]
       /\ freeUsed' = [freeUsed EXCEPT ![r] = @ \/ ClassifyAttempt(r, a) = "free"]
       /\ pc' = [pc EXCEPT ![r] = Decides(r, a)]
  /\ UNCHANGED <<kind, promoted, resent, attempts, seenLeft, shared, applied, history>>

\* promotePlan; what the server answered stands if the request cannot be promoted.
Promotes(r) ==
  /\ Goto(r, "promote", IF CanPromote(r) THEN "send" ELSE "answered")
  /\ promoted' = [promoted EXCEPT ![r] = @ \/ CanPromote(r)]
  /\ UNCHANGED <<kind, answer, resent, loop, shared, network, history>>

\* Budget.Take: load, then compare and swap.
LoadsBudget(r) ==
  /\ Goto(r, "take", IF budget = 0 THEN "answered" ELSE "swap")
  /\ seenLeft' = [seenLeft EXCEPT ![r] = budget]
  /\ UNCHANGED <<request, attempts, freeUsed, shared, network, history>>

\* Mutant: what was loaded is checked, and the counter decremented.
DecrementsBudget(r) ==
  /\ pc[r] = "swap"
  /\ budget' = budget - 1
  /\ \E next \in {"send", "answered"} : pc' = [pc EXCEPT ![r] = next]
  /\ seenLeft' = [seenLeft EXCEPT ![r] = 0]
  /\ UNCHANGED <<request, attempts, freeUsed, staleUsed, network, history>>

\* The swap, and then the sleep unless the deadline does not allow it.
SwapsBudget(r) ==
  /\ pc[r] = "swap"
  /\ IF budget = seenLeft[r]
       THEN /\ budget' = budget - 1
            /\ \E next \in {"send", "answered"} : pc' = [pc EXCEPT ![r] = next]
       ELSE pc' = [pc EXCEPT ![r] = "take"] /\ UNCHANGED budget
  /\ seenLeft' = [seenLeft EXCEPT ![r] = 0]
  /\ UNCHANGED <<request, attempts, freeUsed, staleUsed, network, history>>

\* Mutant: the guard is looked at here and set only when discovery has run.
ReturnsUnguarded(r) ==
  /\ \E reactive \in BOOLEAN :
       Goto(r, "answered", IF reactive /\ answer[r] = "unknown" /\ ~resent[r] /\ ~staleUsed
                             THEN "renew" ELSE "done")
  /\ attempts' = [attempts EXCEPT ![r] = 0] /\ freeUsed' = [freeUsed EXCEPT ![r] = FALSE]
  /\ UNCHANGED <<request, seenLeft, shared, network, history>>

\* send has returned.  To Do, a path or route the server does not know is a sign
\* that the schema is stale, if the context opted in; staleUsed.Swap lets one request
\* of the process act on it.  handleStale takes what its own send returns.
Returns(r) ==
  /\ \E reactive \in BOOLEAN :
       LET stale == reactive /\ answer[r] = "unknown" /\ ~resent[r]
       IN  /\ Goto(r, "answered", IF stale /\ ~staleUsed THEN "renew" ELSE "done")
           /\ staleUsed' = (staleUsed \/ stale)
  /\ attempts' = [attempts EXCEPT ![r] = 0] /\ freeUsed' = [freeUsed EXCEPT ![r] = FALSE]
  /\ UNCHANGED <<request, seenLeft, budget, network, history>>

\* Invalidate: discovery runs, and a read is sent again; or it fails, or declines.
Renews(r) ==
  /\ renewed' = renewed + 1
  /\ \E revalidated \in BOOLEAN :
       LET again == revalidated /\ IsReadOnly(r)
       IN  Goto(r, "renew", IF again THEN "send" ELSE "done")
           /\ resent' = [resent EXCEPT ![r] = again]
  /\ UNCHANGED <<kind, promoted, answer, loop, shared, network, sent>>

\* The requests are answered.
Done == (\A r \in Reqs : pc[r] = "done") /\ UNCHANGED vars

Step(r) ==
  \/ Plans(r) \/ Sends(r) \/ AttemptEnds(r) \/ Promotes(r) \/ LoadsBudget(r) \/ SwapsBudget(r)
  \/ Returns(r) \/ Renews(r)

Next == Done \/ \E r \in Reqs : Step(r) \/ Executes(r)

Spec == Init /\ [][Next]_vars

\* Goroutines run, and an attempt ends: it has a timeout.  The server need not
\* execute anything.
FairSpec == Spec /\ \A r \in Reqs : WF_vars(Step(r))

-----------------------------------------------------------------------------
(* Properties.                                                              *)

PCs == {"plan", "send", "wait", "promote", "take", "swap", "answered", "renew", "done"}

\* The types of the variables; what is left of the budget is never negative.
TypeOK ==
  /\ kind \in [Reqs -> Kinds] /\ pc \in [Reqs -> PCs]
  /\ attempts \in [Reqs -> 0 .. MaxAttempts] /\ seenLeft \in [Reqs -> 0 .. RetryBudget]
  /\ freeUsed \in [Reqs -> BOOLEAN] /\ promoted \in [Reqs -> BOOLEAN] /\ resent \in [Reqs -> BOOLEAN]
  /\ answer \in [Reqs -> Answers \cup {"none"}]
  /\ budget \in 0 .. RetryBudget /\ staleUsed \in BOOLEAN
  /\ taken \in [Reqs -> BOOLEAN] /\ flying \in [Reqs -> BOOLEAN] /\ drained \in [Reqs -> BOOLEAN]
  /\ applied \in [Reqs -> Nat] /\ sent \in Nat /\ renewed \in Nat

\* "Payload has no idempotency key, so a retried POST duplicates the doc": the
\* server executes a write at most once, whatever the network loses or delays.
AtMostOnce == \A r \in Reqs : ~IsReadOnly(r) => applied[r] <= 1

\* A write reported as never having left was not executed and will not be: the
\* user may safely run the command again.
UnsentIsTrue ==
  \A r \in Reqs : pc[r] = "done" /\ answer[r] \in Unsent /\ ~IsReadOnly(r) =>
    applied[r] = 0 /\ ~flying[r]

\* A dead server is not hammered: beyond the retries taken from the budget, a call of
\* send makes one attempt and one free retry, and a promotion costs one.
ServerSpared ==
  LET Calls == Cardinality({r \in Reqs : pc[r] # "plan"}) + Cardinality({r \in Reqs : resent[r]})
  IN  sent <= 2 * Calls + Cardinality({r \in Reqs : promoted[r]}) + RetryBudget - budget

\* Only a GET is ever sent through the method override: Payload may discard the
\* body of one, and a write without its where acts on every document.
OverridesOnlyGets == \A r \in Reqs : promoted[r] => kind[r] = "get"

\* One command re-discovers at most once, however many requests meet the signal.
RenewsOnce == renewed <= 1

\* Every request ends.
RequestsEnd == \A r \in Reqs : <>(pc[r] = "done")

\* The server never stores an upload whose first bytes went to an earlier attempt.
UploadsWhole == \A r \in Reqs : applied[r] > 0 => ~drained[r]
\* Re-sending is restrained: in how often, and in what is sent another way.
Restrained == ServerSpared /\ OverridesOnlyGets

=============================================================================
