---------------------------- MODULE GitHubAccess ----------------------------
(***************************************************************************)
(* What the rate limiter and the token source promise together.  Allow     *)
(* looks at every attempt of the last window, and Token gives out a token  *)
(* that lasts for a call, renewing the one it has exactly when that one is *)
(* about to expire.  Both answer at once: no lock, no list that is pruned, *)
(* no wait for GitHub to mint a token.                                     *)
(***************************************************************************)
EXTENDS Clock

CONSTANTS Users, Requests, Requester, Limit, Window,
          CallTimeout, RefreshMargin, Lifetime, Skew

VARIABLES
  attempts,     \* when each person was let in since the server started
  asking,       \* how far each request is
  token,        \* the expiry of the token in use; empty when there is none
  calls         \* the calls under way: until when, and with which token

vars == <<now, attempts, asking, token, calls>>

Init ==
  /\ now = 0
  /\ attempts = [u \in Users |-> <<>>]
  /\ asking = [r \in Requests |-> "done"]
  /\ token = {}
  /\ calls = [r \in {} |-> 0]

Recent(u) == {i \in DOMAIN attempts[u] : attempts[u][i] > now - Window}

Becomes(r, state) == asking' = [asking EXCEPT ![r] = state]

LetIn(r) ==
  /\ asking[r] # "running"
  /\ Cardinality(Recent(Requester[r])) < Limit
  /\ attempts' = [attempts EXCEPT ![Requester[r]] = Append(@, now)]
  /\ Becomes(r, "running")
  /\ UNCHANGED <<now, token, calls>>

TurnAway(r) ==
  /\ asking[r] # "running"
  /\ Cardinality(Recent(Requester[r])) >= Limit
  /\ Becomes(r, "refused")
  /\ UNCHANGED <<now, attempts, token, calls>>

\* A request that only reads is not limited.
Look(r) ==
  /\ asking[r] # "running"
  /\ Becomes(r, "running")
  /\ UNCHANGED <<now, attempts, token, calls>>

\* The token in use, unless it is about to expire: then one that was minted
\* within the time that a call may take.
Tokens ==
  IF \E exp \in token : now + RefreshMargin < exp
  THEN token
  ELSE {minted + Skew + Lifetime : minted \in now - CallTimeout .. now}

\* GitHub sees no token that expires before the call is given up.
Send(r) ==
  /\ asking[r] = "running"
  /\ r \notin DOMAIN calls
  /\ \E exp \in Tokens :
       /\ now + CallTimeout + Skew < exp
       /\ token' = {exp}
       /\ calls' = Put(calls, r, [until |-> now + CallTimeout, carries |-> exp])
  /\ UNCHANGED <<now, attempts, asking>>

Finish(r) ==
  /\ r \in DOMAIN calls
  /\ calls' = [q \in DOMAIN calls \ {r} |-> calls[q]]
  /\ UNCHANGED asking \/ Becomes(r, "done")
  /\ UNCHANGED <<now, attempts, token>>

\* No token could be had.
GiveUp(r) ==
  /\ asking[r] = "running"
  /\ r \notin DOMAIN calls
  /\ Becomes(r, "done")
  /\ UNCHANGED <<now, attempts, token, calls>>

Tick ==
  /\ \A r \in DOMAIN calls : now < calls[r].until
  /\ now' = now + 1
  /\ UNCHANGED <<attempts, asking, token, calls>>

Restart ==
  /\ attempts' = [u \in Users |-> <<>>]
  /\ asking' = [r \in Requests |-> "done"]
  /\ token' = {}
  /\ calls' = [r \in {} |-> 0]
  /\ UNCHANGED now

Next ==
  \/ \E r \in Requests :
       LetIn(r) \/ TurnAway(r) \/ Look(r) \/ Send(r) \/ Finish(r) \/ GiveUp(r)
  \/ Tick
  \/ Restart

Spec == Init /\ [][Next]_vars

=============================================================================
