----------------------------- MODULE TokenSource -----------------------------
(***************************************************************************)
(* The calls on GitHub: Client.call, which takes an installation token     *)
(* from TokenSource.Token for every single call and then sends it with     *)
(* API.do.  The token is cached; whoever finds it missing or about to      *)
(* expire holds the lock while GitHub mints another.  A call on GitHub,    *)
(* minting included, is given up after CallTimeout.                        *)
(*                                                                         *)
(* GitHub's clock is ahead of the server's by Skew (behind, when           *)
(* negative); the expiry of a token is a time of GitHub's clock.           *)
(***************************************************************************)
EXTENDS Clock

CONSTANTS
  Requests,         \* the requests that make calls
  CallTimeout,      \* 30 seconds
  RefreshMargin,    \* two minutes
  Lifetime,         \* of a token: an hour, as GitHub documents it
  Skew

ASSUME TokenAssumption ==
  /\ CallTimeout \in Nat /\ RefreshMargin \in Nat /\ Lifetime \in Nat /\ Skew \in Int
  /\ CallTimeout + Skew <= RefreshMargin     \* the clocks agree to within 90 seconds
  /\ 2 * CallTimeout < Lifetime

VARIABLES
  cached,           \* the expiry of the cached token; empty when there is none
  mutex,            \* the request that holds the lock while it renews the token
  step,             \* how far the call of a request is
  start,            \* when it began to wait for GitHub
  carries,          \* the expiry of the token it was given
  renewals          \* auxiliary: when each token was asked for and expires

tokenVars == <<cached, mutex, step, start, carries, renewals>>

TokenInit ==
  /\ cached = {}
  /\ mutex = {}
  /\ step = [r \in Requests |-> "none"]
  /\ start = [r \in Requests |-> 0]
  /\ carries = [r \in Requests |-> 0]
  /\ renewals = <<>>

-----------------------------------------------------------------------------
SetStep(r, s) == step' = [step EXCEPT ![r] = s]

\* The call is over, one way or another, and its local variables are gone.
EndCall(r) ==
  /\ SetStep(r, "none")
  /\ start' = [start EXCEPT ![r] = 0]
  /\ carries' = [carries EXCEPT ![r] = 0]

\* The request waits for the lock, for as long as it takes.
BeginCall(r) ==
  /\ step[r] = "none"
  /\ SetStep(r, "waiting")
  /\ UNCHANGED <<cached, mutex, start, carries, renewals>>

\* (Mutant: a token is used to its end.)
FreshToTheEnd(exp) == now < exp

Fresh(exp) == now + RefreshMargin < exp

\* With the lock, the token that is cached is handed out.
UseCached(r) ==
  /\ step[r] = "waiting"
  /\ mutex = {}
  /\ \E exp \in cached :
       /\ Fresh(exp)
       /\ carries' = [carries EXCEPT ![r] = exp]
  /\ SetStep(r, "calling")
  /\ start' = [start EXCEPT ![r] = now]
  /\ UNCHANGED <<cached, mutex, renewals>>

\* (Mutant: who waited for the lock renews the token again.)
RenewAgain(r) ==
  /\ step[r] = "waiting"
  /\ mutex = {}
  /\ mutex' = {r}
  /\ SetStep(r, "minting")
  /\ start' = [start EXCEPT ![r] = now]
  /\ UNCHANGED <<cached, carries, renewals>>

\* Or the lock is kept, and GitHub asked for another.
Renew(r) ==
  /\ step[r] = "waiting"
  /\ mutex = {}
  /\ \A exp \in cached : ~Fresh(exp)
  /\ mutex' = {r}
  /\ SetStep(r, "minting")
  /\ start' = [start EXCEPT ![r] = now]
  /\ UNCHANGED <<cached, carries, renewals>>

\* GitHub minted the token at some moment since it was asked.
Minted(r) ==
  /\ step[r] = "minting"
  /\ \E at \in start[r]..now :
       LET exp == at + Skew + Lifetime IN
       /\ cached' = {exp}
       /\ carries' = [carries EXCEPT ![r] = exp]
       /\ renewals' = Append(renewals, [asked |-> start[r], exp |-> exp])
  /\ mutex' = {}
  /\ SetStep(r, "calling")
  /\ start' = [start EXCEPT ![r] = now]

\* (Mutant: the lock is not given back when minting failed.)
MintFailsLocked(r) ==
  /\ step[r] = "minting"
  /\ EndCall(r)
  /\ UNCHANGED <<cached, mutex, renewals>>

MintFails(r) ==
  /\ step[r] = "minting"
  /\ mutex' = {}
  /\ EndCall(r)
  /\ UNCHANGED <<cached, renewals>>

\* GitHub answers, or the call fails or is given up.
CallEnds(r) ==
  /\ step[r] = "calling"
  /\ EndCall(r)
  /\ UNCHANGED <<cached, mutex, renewals>>

\* No wait for GitHub is longer than CallTimeout.
InTime == \A r \in Requests : step[r] \in {"minting", "calling"} => now < start[r] + CallTimeout

\* The cache and the calls are lost with the server.
ForgetToken ==
  /\ cached' = {}
  /\ mutex' = {}
  /\ step' = [r \in Requests |-> "none"]
  /\ start' = [r \in Requests |-> 0]
  /\ carries' = [r \in Requests |-> 0]
  /\ renewals' = <<>>

=============================================================================
