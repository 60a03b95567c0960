----------------------------- MODULE RateLimiter -----------------------------
(***************************************************************************)
(* How often a person may submit: the rateLimiter of internal/httpapi.  It *)
(* remembers when each person was last let in, in memory.  A call of Allow *)
(* holds its lock from end to end and is one step.                         *)
(***************************************************************************)
EXTENDS Clock

CONSTANTS
  Users,
  Limit,            \* SubmitLimit
  Window            \* one hour

ASSUME LimiterAssumption == Limit \in Nat \ {0} /\ Window \in Nat \ {0}

VARIABLES
  hits,             \* the attempts kept for each person: number -> time
  admitted          \* auxiliary: the times of all attempts let in since the server started

limiterVars == <<hits, admitted>>

LimiterInit ==
  /\ hits = [u \in Users |-> [i \in {} |-> 0]]
  /\ admitted = [u \in Users |-> <<>>]

-----------------------------------------------------------------------------
\* (Mutant: an attempt is forgotten a moment too early.)
KeptLess(u) ==
  LET recent == {i \in DOMAIN hits[u] : hits[u][i] > now - Window + 1}
  IN [i \in recent |-> hits[u][i]]

\* (Mutant: nothing is forgotten.)
KeptAll(u) == hits[u]

\* The attempts of u that are younger than the window.
Kept(u) ==
  LET recent == {i \in DOMAIN hits[u] : hits[u][i] > now - Window}
  IN [i \in recent |-> hits[u][i]]

Refuse(u) ==
  /\ Cardinality(DOMAIN Kept(u)) >= Limit
  /\ hits' = [hits EXCEPT ![u] = Kept(u)]
  /\ UNCHANGED admitted

\* Attempts are numbered as they are let in.
Admit(u) ==
  /\ Cardinality(DOMAIN Kept(u)) < Limit
  /\ hits' = [hits EXCEPT ![u] = Put(Kept(u), Len(admitted[u]) + 1, now)]
  /\ admitted' = [admitted EXCEPT ![u] = Append(@, now)]

\* The list is lost with the server.
ForgetHits ==
  /\ hits' = [u \in Users |-> [i \in {} |-> 0]]
  /\ admitted' = [u \in Users |-> <<>>]

=============================================================================
