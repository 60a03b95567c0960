------------------------------ MODULE CallPath ------------------------------
(***************************************************************************)
(* Requests on their way to GitHub.  A submission first asks the rate      *)
(* limiter, and makes many calls if it is let in; a request that only      *)
(* reads makes one call.  All calls share the cached token, and the clock  *)
(* goes on while they wait.  A request ends at its first failing call, and *)
(* a browser makes one after the other.                                    *)
(***************************************************************************)
EXTENDS RateLimiter, TokenSource

CONSTANTS
  Requester,        \* who makes each of the requests
  Calls,            \* how many calls on GitHub a submission makes
  MaxTime           \* a bound on the clock, for TLC

ASSUME CallPathAssumption ==
  /\ Requester \in [Requests -> Users]
  /\ Calls \in Nat \ {0} /\ MaxTime \in Nat

VARIABLES
  pc,               \* how far each request is
  left              \* the calls it has still to make, the one under way included

vars == <<now, limiterVars, tokenVars, pc, left>>

Init ==
  /\ now = 0
  /\ LimiterInit
  /\ TokenInit
  /\ pc = [r \in Requests |-> "done"]
  /\ left = [r \in Requests |-> 0]

-----------------------------------------------------------------------------
Begin(r, calls) ==
  /\ pc' = [pc EXCEPT ![r] = "running"]
  /\ left' = [left EXCEPT ![r] = calls]

\* A browser may ask again as soon as it has its answer.
Submit(r) ==
  /\ pc[r] # "running"
  /\ \/ Admit(Requester[r]) /\ Begin(r, Calls)
     \/ /\ Refuse(Requester[r])
        /\ pc' = [pc EXCEPT ![r] = "refused"]
        /\ UNCHANGED left
  /\ UNCHANGED <<now, tokenVars>>

Read(r) ==
  /\ pc[r] # "running"
  /\ Begin(r, 1)
  /\ UNCHANGED <<now, limiterVars, tokenVars>>

\* The request ends at a call that fails, and after the last one.
AfterCall(r) ==
  \/ /\ left[r] > 1
     /\ left' = [left EXCEPT ![r] = @ - 1]
     /\ UNCHANGED pc
  \/ /\ left' = [left EXCEPT ![r] = 0]
     /\ pc' = [pc EXCEPT ![r] = "done"]

Call(r) ==
  /\ pc[r] = "running"
  /\ \/ /\ BeginCall(r) \/ UseCached(r) \/ Renew(r) \/ Minted(r)
        /\ UNCHANGED <<pc, left>>
     \/ CallEnds(r) /\ AfterCall(r)
     \/ /\ MintFails(r)
        /\ left' = [left EXCEPT ![r] = 0]
        /\ pc' = [pc EXCEPT ![r] = "done"]
  /\ UNCHANGED <<now, limiterVars>>

Tick ==
  /\ now < MaxTime
  /\ InTime
  /\ now' = now + 1
  /\ UNCHANGED <<limiterVars, tokenVars, pc, left>>

\* The server stops and starts again: what it knew is gone.
Restart ==
  /\ pc' = [r \in Requests |-> "done"]
  /\ left' = [r \in Requests |-> 0]
  /\ ForgetHits
  /\ ForgetToken
  /\ UNCHANGED now

Next ==
  \/ \E r \in Requests : Submit(r) \/ Read(r) \/ Call(r)
  \/ Tick
  \/ Restart

Spec == Init /\ [][Next]_vars

\* Calls end by their deadline, and sync.Mutex hands itself to whoever has
\* waited for a millisecond, so nobody who waits is passed over forever.
\* Nothing is assumed of the clock.
FairSpec == Spec /\ \A r \in Requests : SF_vars(Call(r))

-----------------------------------------------------------------------------
(* Properties.                                                             *)

LimiterTypeOK ==
  /\ hits = [u \in Users |-> hits[u]]
  /\ admitted \in [Users -> Seq(Nat)]
  /\ \A u \in Users :
       /\ hits[u] = [i \in DOMAIN hits[u] |-> hits[u][i]]
       /\ DOMAIN hits[u] \subseteq DOMAIN admitted[u]
       /\ \A i \in DOMAIN hits[u] : hits[u][i] = admitted[u][i]

TokenTypeOK ==
  /\ cached \subseteq Int
  /\ mutex \subseteq Requests
  /\ step \in [Requests -> {"none", "waiting", "minting", "calling"}]
  /\ start \in [Requests -> Nat]
  /\ carries \in [Requests -> Int]
  /\ renewals \in Seq([asked : Nat, exp : Int])

\* The clock, the limiter, the token and the requests have their types; the
\* attempts kept are attempts that were let in; the lock is held by the one
\* request that renews the token, and only a request under way makes calls.
TypeOK ==
  /\ now \in Nat
  /\ LimiterTypeOK
  /\ TokenTypeOK
  /\ pc \in [Requests -> {"refused", "running", "done"}]
  /\ left \in [Requests -> Nat]
  /\ \A r \in Requests :
       /\ step[r] = "minting" <=> mutex = {r}
       /\ step[r] # "none" => pc[r] = "running"
       /\ left[r] > 0 <=> pc[r] = "running"

\* Nobody is let in more than Limit times in any window, wherever it begins:
\* the attempt Limit after another comes a whole window later
\* (rateLimiter.Allow, middleware.go:106-124).
Paced ==
  \A u \in Users : \A i, j \in DOMAIN admitted[u] :
    j = i + Limit => admitted[u][j] >= admitted[u][i] + Window

\* Somebody is refused only when Limit attempts of theirs were let in within
\* the last window; neither refused attempts nor other people count
\* (rateLimiter.Allow keeps only what it let in, per Discord user).
RefusedAtLimit ==
  [][\A r \in Requests : pc[r] # "refused" /\ pc'[r] = "refused" =>
       LET times == admitted[Requester[r]]
       IN Cardinality({i \in DOMAIN times : times[i] > now - Window}) >= Limit]_vars

\* A call never carries a token that has expired on GitHub's clock, from the
\* moment it is sent to its deadline, although the token was handed out
\* before and calls queue for it ("so a long running pull request never fails
\* mid flight", token.go:14-16).
CallsCarryLiveTokens ==
  \A r \in Requests : step[r] = "calling" => now + Skew < carries[r]

\* Calls that waited while a token was renewed use that one: the next token
\* is asked for only when the last is within the margin of its expiry
\* (Token looks at the cache after it has the lock, token.go:38-45).
RenewedOnce ==
  \A i, j \in DOMAIN renewals :
    j = i + 1 => renewals[j].asked + RefreshMargin >= renewals[i].exp

\* The calls that GitHub is working on, minting tokens apart.
UnderWay ==
  [r \in {q \in Requests : step[q] = "calling"} |->
     [until |-> start[r] + CallTimeout, carries |-> carries[r]]]

Access == INSTANCE GitHubAccess WITH
  attempts <- admitted, asking <- pc, token <- cached, calls <- UnderWay

\* However requests queue for the lock, time passes while a token is minted
\* and old attempts are forgotten, the limiter decides as if it remembered
\* all of them, and calls get their tokens as if Token took no time
\* (rateLimiter.Allow, middleware.go:106-124; TokenSource.Token, token.go:38-66).
AccessImplemented == Access!Spec

\* Every request that is let in comes to an end: a renewal that fails gives
\* the lock back, and nobody waits for it forever (token.go:39-40).
RequestsEnd == \A r \in Requests : pc[r] = "running" ~> pc[r] # "running"

=============================================================================
