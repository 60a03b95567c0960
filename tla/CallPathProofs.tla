--------------------------- MODULE CallPathProofs ---------------------------
(***************************************************************************)
(* The invariants of CallPath, for any requests, limits and lifetimes.     *)
(***************************************************************************)
EXTENDS CallPath, CommonFacts

-----------------------------------------------------------------------------
(* The rate limiter.                                                       *)

\* The attempts kept are those younger than the window, and maybe others.
LimiterInv ==
  \A u \in Users :
    /\ \A i \in DOMAIN admitted[u] : admitted[u][i] <= now
    /\ \A i, j \in DOMAIN admitted[u] : i <= j => admitted[u][i] <= admitted[u][j]
    /\ \A i \in DOMAIN admitted[u] : admitted[u][i] > now - Window => i \in DOMAIN hits[u]

\* What Kept keeps.
LEMMA KeptFacts ==
  ASSUME NEW u \in Users, now \in Nat, LimiterTypeOK, LimiterInv
  PROVE  /\ DOMAIN Kept(u) = {i \in DOMAIN admitted[u] : admitted[u][i] > now - Window}
         /\ Kept(u) = [i \in DOMAIN Kept(u) |-> Kept(u)[i]]
         /\ \A i \in DOMAIN Kept(u) : Kept(u)[i] = admitted[u][i]
         /\ IsFiniteSet(DOMAIN Kept(u))
<1>1. DOMAIN Kept(u) = {i \in DOMAIN hits[u] : hits[u][i] > now - Window}
  BY DEF Kept
<1>2. /\ Kept(u) = [i \in DOMAIN Kept(u) |-> Kept(u)[i]]
      /\ \A i \in DOMAIN Kept(u) : Kept(u)[i] = hits[u][i]
  BY DEF Kept
<1>3. DOMAIN hits[u] \subseteq DOMAIN admitted[u]
  BY DEF LimiterTypeOK
<1>4. \A i \in DOMAIN hits[u] : hits[u][i] = admitted[u][i]
  BY DEF LimiterTypeOK
<1>5. DOMAIN Kept(u) = {i \in DOMAIN admitted[u] : admitted[u][i] > now - Window}
  BY <1>1, <1>3, <1>4 DEF LimiterInv
<1>6. admitted[u] \in Seq(Nat)
  BY DEF LimiterTypeOK
<1>7. IsFiniteSet(DOMAIN admitted[u])
  BY <1>6, LenProperties, FS_Interval
<1>8. IsFiniteSet(DOMAIN Kept(u))
  BY <1>5, <1>7, FS_Subset
<1>. QED
  BY <1>2, <1>4, <1>1, <1>5, <1>8

\* Letting somebody in.
LEMMA AdmitFacts ==
  ASSUME NEW u \in Users, now \in Nat, LimiterTypeOK, LimiterInv, Paced, Admit(u), now' = now
  PROVE  LimiterTypeOK' /\ LimiterInv' /\ Paced'
<1>. DEFINE s == admitted[u]
            n == Len(s)
<1>1. /\ s \in Seq(Nat)
      /\ hits = [v \in Users |-> hits[v]]
      /\ admitted \in [Users -> Seq(Nat)]
  BY DEF LimiterTypeOK
<1>2. /\ n \in Nat /\ DOMAIN s = 1..n
      /\ Append(s, now) \in Seq(Nat)
      /\ DOMAIN Append(s, now) = 1..(n + 1)
      /\ \A i \in 1..n : s[i] \in Nat /\ Append(s, now)[i] = s[i]
      /\ Append(s, now)[n + 1] = now
  BY <1>1, AppendFacts
<1>3. /\ admitted' = [admitted EXCEPT ![u] = Append(s, now)]
      /\ hits' = [hits EXCEPT ![u] = Put(Kept(u), n + 1, now)]
      /\ Cardinality(DOMAIN Kept(u)) < Limit
  BY DEF Admit
<1>4. /\ admitted'[u] = Append(s, now)
      /\ hits'[u] = Put(Kept(u), n + 1, now)
      /\ \A v \in Users \ {u} : admitted'[v] = admitted[v] /\ hits'[v] = hits[v]
  BY <1>1, <1>3
<1>5. /\ DOMAIN Kept(u) = {i \in 1..n : s[i] > now - Window}
      /\ \A i \in DOMAIN Kept(u) : Kept(u)[i] = s[i]
      /\ IsFiniteSet(DOMAIN Kept(u))
  BY <1>2, KeptFacts
<1>6. /\ DOMAIN hits'[u] = DOMAIN Kept(u) \cup {n + 1}
      /\ hits'[u] = [i \in DOMAIN hits'[u] |-> hits'[u][i]]
      /\ hits'[u][n + 1] = now
      /\ \A i \in DOMAIN Kept(u) : hits'[u][i] = IF i = n + 1 THEN now ELSE s[i]
  BY <1>4, <1>5 DEF Put
<1>7. /\ DOMAIN hits'[u] \subseteq 1..(n + 1)
      /\ \A i \in DOMAIN hits'[u] : hits'[u][i] = admitted'[u][i]
  <2>1. \A i \in DOMAIN Kept(u) : i \in 1..n /\ i # n + 1 /\ i \in 1..(n + 1)
    BY <1>2, <1>5
  <2>2. n + 1 \in 1..(n + 1)
    BY <1>2
  <2>. QED
    BY <1>2, <1>4, <1>6, <2>1, <2>2
<1>8. LimiterTypeOK'
  <2>1. hits' = [v \in Users |-> hits'[v]]
    BY <1>1, <1>3
  <2>2. admitted' \in [Users -> Seq(Nat)]
    BY <1>1, <1>2, <1>3
  <2>3. ASSUME NEW v \in Users
        PROVE  /\ hits'[v] = [i \in DOMAIN hits'[v] |-> hits'[v][i]]
               /\ DOMAIN hits'[v] \subseteq DOMAIN admitted'[v]
               /\ \A i \in DOMAIN hits'[v] : hits'[v][i] = admitted'[v][i]
    <3>1. CASE v = u
      BY <3>1, <1>2, <1>4, <1>6, <1>7
    <3>2. CASE v # u
      BY <3>2, <1>4 DEF LimiterTypeOK
    <3>. QED
      BY <3>1, <3>2
  <2>. QED
    BY <2>1, <2>2, <2>3 DEF LimiterTypeOK
<1>9. LimiterInv'
  <2>1. \A i \in 1..n : s[i] <= now
    BY <1>2 DEF LimiterInv
  <2>2. \A i, j \in 1..n : i <= j => s[i] <= s[j]
    BY <1>2 DEF LimiterInv
  <2>3. \A i \in 1..(n + 1) : i \in 1..n \/ i = n + 1
    BY <1>2
  <2>4. ASSUME NEW v \in Users
        PROVE  /\ \A i \in DOMAIN admitted'[v] : admitted'[v][i] <= now'
               /\ \A i, j \in DOMAIN admitted'[v] : i <= j => admitted'[v][i] <= admitted'[v][j]
               /\ \A i \in DOMAIN admitted'[v] :
                    admitted'[v][i] > now' - Window => i \in DOMAIN hits'[v]
    <3>1. CASE v = u
      <4>1. \A i \in DOMAIN admitted'[v] : admitted'[v][i] <= now'
        BY <3>1, <1>2, <1>4, <2>1, <2>3
      <4>2. ASSUME NEW i \in 1..(n + 1), NEW j \in 1..(n + 1), i <= j
            PROVE  admitted'[v][i] <= admitted'[v][j]
        <5>1. CASE j \in 1..n
          <6>1. i \in 1..n
            BY <4>2, <5>1, <1>2
          <6>. QED
            BY <3>1, <4>2, <5>1, <6>1, <1>2, <1>4, <2>2
        <5>2. CASE j = n + 1
          BY <3>1, <5>2, <4>1, <1>2, <1>4
        <5>. QED
          BY <5>1, <5>2, <2>3
      <4>3. \A i \in 1..(n + 1) : admitted'[v][i] > now' - Window => i \in DOMAIN hits'[v]
        BY <3>1, <1>2, <1>4, <1>5, <1>6, <2>3
      <4>. QED
        BY <3>1, <4>1, <4>2, <4>3, <1>2, <1>4
    <3>2. CASE v # u
      BY <3>2, <1>4 DEF LimiterInv
    <3>. QED
      BY <3>1, <3>2
  <2>. QED
    BY <2>4 DEF LimiterInv
\* Limit attempts within the window would all be kept.
<1>10. ASSUME NEW i \in 1..n, n + 1 = i + Limit PROVE now >= s[i] + Window
  <2>1. SUFFICES ASSUME s[i] > now - Window PROVE FALSE
    BY <1>2, LimiterAssumption
  <2>2. i..n \subseteq DOMAIN Kept(u)
    <3>1. ASSUME NEW k \in i..n PROVE k \in 1..n /\ s[k] > now - Window
      <4>1. k \in 1..n /\ i <= k
        BY <1>2
      <4>2. s[i] <= s[k]
        BY <4>1, <1>2 DEF LimiterInv
      <4>3. s[i] \in Nat /\ s[k] \in Nat /\ now - Window \in Int
        BY <4>1, <1>2, LimiterAssumption
      <4>. QED
        BY <4>1, <4>2, <4>3, <2>1
    <3>. QED
      BY <3>1, <1>5
  <2>3. Cardinality(i..n) = Limit
    <3>1. n \in Int /\ i \in Int /\ ~(i > n)
      BY <1>2
    <3>2. Cardinality(i..n) = IF i > n THEN 0 ELSE n - i + 1
      BY <3>1, FS_Interval, Zenon
    <3>3. n - i + 1 = Limit
      BY <3>1, <1>10, LimiterAssumption
    <3>. QED
      BY <3>1, <3>2, <3>3
  <2>4. Cardinality(i..n) <= Cardinality(DOMAIN Kept(u))
    BY <2>2, <1>5, FS_Subset
  <2>5. Cardinality(DOMAIN Kept(u)) \in Nat
    BY <1>5, FS_CardinalityType
  <2>. QED
    BY <2>3, <2>4, <2>5, <1>3, LimiterAssumption
<1>11. Paced'
  <2>1. ASSUME NEW v \in Users, NEW i \in DOMAIN admitted'[v], NEW j \in DOMAIN admitted'[v],
               j = i + Limit
        PROVE  admitted'[v][j] >= admitted'[v][i] + Window
    <3>1. CASE v = u
      <4>1. i \in 1..(n + 1) /\ j \in 1..(n + 1) /\ i \in 1..n
        BY <3>1, <2>1, <1>2, <1>4, LimiterAssumption
      <4>2. CASE j = n + 1
        BY <3>1, <4>1, <4>2, <2>1, <1>2, <1>4, <1>10
      <4>3. CASE j \in 1..n
        BY <3>1, <4>1, <4>3, <2>1, <1>2, <1>4 DEF Paced
      <4>. QED
        BY <4>1, <4>2, <4>3, <1>2
    <3>2. CASE v # u
      BY <3>2, <2>1, <1>4 DEF Paced
    <3>. QED
      BY <3>1, <3>2
  <2>. QED
    BY <2>1 DEF Paced
<1>. QED
  BY <1>8, <1>9, <1>11

\* Refusing somebody.
LEMMA RefuseFacts ==
  ASSUME NEW u \in Users, now \in Nat, LimiterTypeOK, LimiterInv, Paced, Refuse(u), now' = now
  PROVE  LimiterTypeOK' /\ LimiterInv' /\ Paced'
<1>1. /\ hits = [v \in Users |-> hits[v]]
      /\ hits' = [hits EXCEPT ![u] = Kept(u)]
      /\ admitted' = admitted
  BY DEF LimiterTypeOK, Refuse
<1>2. hits'[u] = Kept(u) /\ \A v \in Users \ {u} : hits'[v] = hits[v]
  BY <1>1
<1>3. /\ DOMAIN Kept(u) = {i \in DOMAIN admitted[u] : admitted[u][i] > now - Window}
      /\ Kept(u) = [i \in DOMAIN Kept(u) |-> Kept(u)[i]]
      /\ \A i \in DOMAIN Kept(u) : Kept(u)[i] = admitted[u][i]
  BY KeptFacts
<1>4. LimiterTypeOK'
  <2>1. hits' = [v \in Users |-> hits'[v]]
    BY <1>1
  <2>2. \A v \in Users :
          /\ hits'[v] = [i \in DOMAIN hits'[v] |-> hits'[v][i]]
          /\ DOMAIN hits'[v] \subseteq DOMAIN admitted'[v]
          /\ \A i \in DOMAIN hits'[v] : hits'[v][i] = admitted'[v][i]
    <3>. TAKE v \in Users
    <3>1. CASE v = u
      <4>1. DOMAIN Kept(u) \subseteq DOMAIN admitted[u]
        BY <1>3
      <4>. QED
        BY <3>1, <4>1, <1>1, <1>2, <1>3, Zenon
    <3>2. CASE v # u
      BY <3>2, <1>1, <1>2 DEF LimiterTypeOK
    <3>. QED
      BY <3>1, <3>2
  <2>3. admitted' \in [Users -> Seq(Nat)]
    BY <1>1 DEF LimiterTypeOK
  <2>. QED
    BY <2>1, <2>2, <2>3, Zenon DEF LimiterTypeOK
<1>5. LimiterInv'
  <2>1. ASSUME NEW v \in Users, NEW i \in DOMAIN admitted[v], admitted[v][i] > now - Window
        PROVE  i \in DOMAIN hits'[v]
    <3>1. CASE v = u
      BY <3>1, <2>1, <1>2, <1>3
    <3>2. CASE v # u
      BY <3>2, <2>1, <1>2 DEF LimiterInv
    <3>. QED
      BY <3>1, <3>2
  <2>. QED
    BY <2>1, <1>1 DEF LimiterInv
<1>. QED
  BY <1>1, <1>4, <1>5 DEF Paced

-----------------------------------------------------------------------------
(* The token.                                                              *)

\* A token outlives a call that begins with it; the cache holds the last
\* token renewed; whoever renews it found it about to expire.
TokenInv ==
  /\ \A r \in Requests : step[r] \in {"minting", "calling"} =>
       start[r] <= now /\ now <= start[r] + CallTimeout
  /\ \A r \in Requests : step[r] = "calling" => start[r] + CallTimeout + Skew < carries[r]
  /\ cached = {renewals[i].exp : i \in {Len(renewals)} \ {0}}
  /\ \A r \in Requests : step[r] = "minting" =>
       \A exp \in cached : start[r] + RefreshMargin >= exp

\* What the lock is for.
LockOK ==
  \A r \in Requests : step[r] = "minting" <=> mutex = {r}

TokenOK == TokenTypeOK /\ LockOK /\ TokenInv /\ RenewedOnce

\* One step of a call.
CallStep(r) ==
  BeginCall(r) \/ UseCached(r) \/ Renew(r) \/ Minted(r) \/ MintFails(r) \/ CallEnds(r)

\* Every step of a call but Minted leaves the renewals alone.
LEMMA CallKeepsType ==
  ASSUME NEW r \in Requests, now \in Nat, TokenTypeOK, LockOK, CallStep(r), ~Minted(r)
  PROVE  TokenTypeOK' /\ LockOK'
<1>. USE DEF SetStep
<1>1. CASE BeginCall(r)
  BY <1>1 DEF BeginCall, TokenTypeOK, LockOK
<1>2. CASE UseCached(r)
  <2>1. PICK exp \in cached : carries' = [carries EXCEPT ![r] = exp]
    BY <1>2 DEF UseCached
  <2>. QED
    BY <1>2, <2>1 DEF UseCached, TokenTypeOK, LockOK
<1>3. CASE Renew(r)
  BY <1>3 DEF Renew, TokenTypeOK, LockOK
<1>4. CASE MintFails(r)
  <2>1. /\ step[r] = "minting" /\ mutex = {r} /\ mutex' = {}
        /\ step' = [step EXCEPT ![r] = "none"]
        /\ start' = [start EXCEPT ![r] = 0]
        /\ carries' = [carries EXCEPT ![r] = 0]
        /\ cached' = cached /\ renewals' = renewals
    BY <1>4 DEF MintFails, EndCall, LockOK
  <2>2. TokenTypeOK'
    BY <2>1 DEF TokenTypeOK
  <2>3. ASSUME NEW q \in Requests PROVE step'[q] # "minting"
    <3>1. CASE q = r
      BY <2>1, <3>1 DEF TokenTypeOK
    <3>2. CASE q # r
      <4>1. step'[q] = step[q] /\ mutex # {q}
        BY <2>1, <3>2 DEF TokenTypeOK
      <4>. QED
        BY <4>1 DEF LockOK
    <3>. QED
      BY <3>1, <3>2
  <2>4. \A q \in Requests : mutex' # {q}
    BY <2>1
  <2>. QED
    BY <2>2, <2>3, <2>4 DEF LockOK
<1>5. CASE CallEnds(r)
  BY <1>5 DEF CallEnds, EndCall, TokenTypeOK, LockOK
<1>. QED
  BY <1>1, <1>2, <1>3, <1>4, <1>5 DEF CallStep

LEMMA CallKeepsInv ==
  ASSUME NEW r \in Requests, now \in Nat, TokenOK, CallStep(r), ~Minted(r), now' = now
  PROVE  TokenInv' /\ RenewedOnce'
<1>. USE DEF SetStep, TokenOK, TokenTypeOK
<1>1. renewals' = renewals /\ cached' = cached
  BY DEF CallStep, BeginCall, UseCached, Renew, MintFails, CallEnds
<1>2. RenewedOnce'
  BY <1>1 DEF RenewedOnce
<1>3. cached' = {renewals'[i].exp : i \in {Len(renewals')} \ {0}}
  BY <1>1 DEF TokenInv
<1>4. \A q \in Requests \ {r} :
        step'[q] = step[q] /\ start'[q] = start[q] /\ carries'[q] = carries[q]
  BY DEF CallStep, BeginCall, UseCached, Renew, MintFails, CallEnds, EndCall
<1>5. /\ step'[r] \in {"minting", "calling"} => start'[r] <= now /\ now <= start'[r] + CallTimeout
      /\ step'[r] = "calling" => start'[r] + CallTimeout + Skew < carries'[r]
      /\ step'[r] = "minting" => \A exp \in cached : start'[r] + RefreshMargin >= exp
  <2>1. CASE UseCached(r)
    <3>1. PICK exp \in cached : Fresh(exp) /\ carries' = [carries EXCEPT ![r] = exp]
      BY <2>1 DEF UseCached
    <3>2. step'[r] = "calling" /\ start'[r] = now /\ carries'[r] = exp /\ exp \in Int
      BY <2>1, <3>1 DEF UseCached
    <3>. QED
      BY <3>1, <3>2, TokenAssumption DEF Fresh
  <2>2. CASE Renew(r)
    <3>1. step'[r] = "minting" /\ start'[r] = now /\ \A exp \in cached : ~Fresh(exp)
      BY <2>2 DEF Renew
    <3>. QED
      BY <3>1, TokenAssumption DEF Fresh
  <2>3. CASE BeginCall(r) \/ MintFails(r) \/ CallEnds(r)
    <3>1. step'[r] \in {"waiting", "none"}
      BY <2>3 DEF BeginCall, MintFails, CallEnds, EndCall
    <3>. QED
      BY <3>1
  <2>. QED
    BY <2>1, <2>2, <2>3 DEF CallStep
<1>6. ASSUME NEW q \in Requests
      PROVE  /\ step'[q] \in {"minting", "calling"} => start'[q] <= now /\ now <= start'[q] + CallTimeout
             /\ step'[q] = "calling" => start'[q] + CallTimeout + Skew < carries'[q]
             /\ step'[q] = "minting" => \A exp \in cached : start'[q] + RefreshMargin >= exp
  <2>1. CASE q = r
    BY <2>1, <1>5
  <2>2. CASE q # r
    BY <2>2, <1>4 DEF TokenInv
  <2>. QED
    BY <2>1, <2>2
<1>7. TokenInv'
  BY <1>1, <1>3, <1>6 DEF TokenInv
<1>. QED
  BY <1>2, <1>7

LEMMA MintedFacts ==
  ASSUME NEW r \in Requests, now \in Nat, TokenOK, Minted(r), now' = now
  PROVE  TokenOK'
<1>. USE DEF TokenOK
<1>. DEFINE n == Len(renewals)
<1>1. PICK at \in start[r]..now :
        LET exp == at + Skew + Lifetime IN
        /\ cached' = {exp}
        /\ carries' = [carries EXCEPT ![r] = exp]
        /\ renewals' = Append(renewals, [asked |-> start[r], exp |-> exp])
  BY DEF Minted
<1>. DEFINE exp == at + Skew + Lifetime
            new == [asked |-> start[r], exp |-> exp]
<1>2. step[r] = "minting" /\ mutex = {r}
  BY DEF Minted, LockOK
<1>3. start[r] \in Nat /\ start[r] <= now /\ now <= start[r] + CallTimeout
  BY <1>2 DEF TokenInv, TokenTypeOK
<1>4. at \in Int /\ start[r] <= at /\ at <= now /\ exp \in Int
  BY <1>1, <1>3, TokenAssumption
<1>5. new \in [asked : Nat, exp : Int]
  BY <1>3, <1>4
<1>6. renewals \in Seq([asked : Nat, exp : Int])
  BY DEF TokenTypeOK
<1>7. /\ renewals' = Append(renewals, new)
      /\ renewals' \in Seq([asked : Nat, exp : Int])
      /\ n \in Nat /\ DOMAIN renewals = 1..n
      /\ Len(renewals') = n + 1
      /\ DOMAIN renewals' = 1..(n + 1)
      /\ \A i \in 1..n : renewals'[i] = renewals[i]
      /\ renewals'[n + 1] = new
  <2>. HIDE DEF new
  <2>1. renewals' = Append(renewals, new)
    BY <1>1 DEF new
  <2>. QED
    BY <2>1, <1>5, <1>6, AppendFacts
<1>8. /\ step' = [step EXCEPT ![r] = "calling"]
      /\ start' = [start EXCEPT ![r] = now]
      /\ carries' = [carries EXCEPT ![r] = exp]
      /\ cached' = {exp}
      /\ mutex' = {}
  BY <1>1 DEF Minted, SetStep
<1>9. TokenTypeOK'
  BY <1>4, <1>7, <1>8 DEF TokenTypeOK
<1>10. ASSUME NEW q \in Requests PROVE step'[q] # "minting"
  BY <1>2, <1>8 DEF LockOK, TokenTypeOK
<1>11. LockOK'
  BY <1>8, <1>10 DEF LockOK
<1>12. cached' = {renewals'[i].exp : i \in {Len(renewals')} \ {0}}
  <2>1. {Len(renewals')} \ {0} = {n + 1}
    BY <1>7
  <2>2. renewals'[n + 1].exp = exp
    BY <1>7
  <2>. QED
    BY <1>8, <2>1, <2>2
<1>13. ASSUME NEW q \in Requests
       PROVE  /\ step'[q] \in {"minting", "calling"} => start'[q] <= now /\ now <= start'[q] + CallTimeout
              /\ step'[q] = "calling" => start'[q] + CallTimeout + Skew < carries'[q]
  <2>1. CASE q = r
    <3>1. start'[q] = now /\ carries'[q] = exp
      BY <2>1, <1>8 DEF TokenTypeOK
    <3>. QED
      BY <3>1, <1>3, <1>4, TokenAssumption
  <2>2. CASE q # r
    <3>1. step'[q] = step[q] /\ start'[q] = start[q] /\ carries'[q] = carries[q]
      BY <2>2, <1>8 DEF TokenTypeOK
    <3>. QED
      BY <3>1 DEF TokenInv
  <2>. QED
    BY <2>1, <2>2
<1>14. TokenInv'
  BY <1>10, <1>12, <1>13 DEF TokenInv
<1>15. ASSUME NEW i \in 1..(n + 1), NEW j \in 1..(n + 1), j = i + 1
       PROVE  renewals'[j].asked + RefreshMargin >= renewals'[i].exp
  <2>1. i \in 1..n
    BY <1>7, <1>15
  <2>2. CASE j \in 1..n
    BY <2>1, <2>2, <1>7, <1>15 DEF RenewedOnce
  <2>3. CASE j = n + 1
    <3>1. i = n /\ n # 0
      <4>1. n \in Nat
        BY <1>7
      <4>. HIDE DEF n
      <4>. QED
        BY <4>1, <2>1, <2>3, <1>15
    <3>2. renewals[n].exp \in cached
      BY <3>1 DEF TokenInv
    <3>3. start[r] + RefreshMargin >= renewals[n].exp
      BY <3>2, <1>2 DEF TokenInv
    <3>. QED
      BY <2>1, <2>3, <3>1, <3>3, <1>7
  <2>. QED
    BY <2>2, <2>3, <1>7
<1>16. RenewedOnce'
  BY <1>7, <1>15 DEF RenewedOnce
<1>. QED
  BY <1>9, <1>11, <1>14, <1>16

-----------------------------------------------------------------------------
(* The whole.                                                              *)

\* Where each request is.
RequestsOK ==
  /\ pc \in [Requests -> {"refused", "running", "done"}]
  /\ left \in [Requests -> Nat]
  /\ \A r \in Requests :
       /\ step[r] # "none" => pc[r] = "running"
       /\ left[r] > 0 <=> pc[r] = "running"

LimiterOK == LimiterTypeOK /\ LimiterInv /\ Paced

\* The inductive invariant.
IInv == now \in Nat /\ LimiterOK /\ TokenOK /\ RequestsOK

LEMMA Parts == IInv => TypeOK /\ Paced /\ CallsCarryLiveTokens /\ RenewedOnce
<1>. SUFFICES ASSUME IInv PROVE TypeOK /\ Paced /\ CallsCarryLiveTokens /\ RenewedOnce
  OBVIOUS
<1>1. TypeOK
  BY DEF IInv, LimiterOK, TokenOK, LockOK, RequestsOK, TypeOK
<1>2. ASSUME NEW r \in Requests, step[r] = "calling" PROVE now + Skew < carries[r]
  <2>1. now <= start[r] + CallTimeout /\ start[r] + CallTimeout + Skew < carries[r]
    BY <1>2 DEF IInv, TokenOK, TokenInv
  <2>2. now \in Nat /\ start[r] \in Nat /\ carries[r] \in Int
    BY DEF IInv, TokenOK, TokenTypeOK
  <2>. QED
    BY <2>1, <2>2, TokenAssumption
<1>. QED
  BY <1>1, <1>2 DEF IInv, LimiterOK, TokenOK, CallsCarryLiveTokens

\* A server that has just started.
Started ==
  /\ now \in Nat
  /\ hits = [u \in Users |-> [i \in {} |-> 0]] /\ admitted = [u \in Users |-> <<>>]
  /\ cached = {} /\ mutex = {} /\ renewals = <<>>
  /\ step = [r \in Requests |-> "none"]
  /\ start = [r \in Requests |-> 0] /\ carries = [r \in Requests |-> 0]
  /\ pc = [r \in Requests |-> "done"] /\ left = [r \in Requests |-> 0]

LEMMA StartFacts == Started => IInv
<1>. SUFFICES ASSUME Started PROVE IInv
  OBVIOUS
<1>. USE DEF Started
<1>1. \A u \in Users : DOMAIN admitted[u] = {} /\ DOMAIN hits[u] = {}
  <2>. TAKE u \in Users
  <2>1. admitted[u] = <<>> /\ hits[u] = [i \in {} |-> 0]
    OBVIOUS
  <2>. QED
    BY <2>1
<1>2. LimiterTypeOK
  <2>1. hits = [u \in Users |-> hits[u]]
    OBVIOUS
  <2>2. admitted \in [Users -> Seq(Nat)]
    OBVIOUS
  <2>3. \A u \in Users : hits[u] = [i \in DOMAIN hits[u] |-> hits[u][i]]
    <3>. TAKE u \in Users
    <3>1. hits[u] = [i \in {} |-> 0]
      OBVIOUS
    <3>. QED
      BY <3>1
  <2>. QED
    BY <2>1, <2>2, <2>3, <1>1 DEF LimiterTypeOK
<1>3. LimiterInv /\ Paced
  BY <1>1 DEF LimiterInv, Paced
<1>4. TokenTypeOK /\ LockOK /\ RequestsOK
  BY DEF TokenTypeOK, LockOK, RequestsOK
<1>5. Len(renewals) = 0 /\ DOMAIN renewals = {}
  OBVIOUS
<1>6. TokenInv /\ RenewedOnce
  BY <1>5 DEF TokenInv, RenewedOnce
<1>. QED
  BY <1>2, <1>3, <1>4, <1>6 DEF IInv, LimiterOK, TokenOK

LEMMA CallFacts ==
  ASSUME IInv, NEW r \in Requests, Call(r)
  PROVE  IInv'
<1>1. CallStep(r) /\ now' = now /\ hits' = hits /\ admitted' = admitted
  BY DEF Call, CallStep, limiterVars
<1>2. TokenOK'
  <2>1. CASE Minted(r)
    BY <1>1, <2>1, MintedFacts DEF IInv
  <2>2. CASE ~Minted(r)
    BY <1>1, <2>2, CallKeepsType, CallKeepsInv DEF IInv, TokenOK
  <2>. QED
    BY <2>1, <2>2
<1>3. LimiterOK'
  BY <1>1 DEF IInv, LimiterOK, LimiterTypeOK, LimiterInv, Paced
<1>4. \A q \in Requests \ {r} : step'[q] = step[q]
  BY DEF Call, BeginCall, UseCached, Renew, Minted, MintFails, CallEnds, EndCall, SetStep,
         IInv, TokenOK, TokenTypeOK
<1>5. RequestsOK'
  <2>. USE DEF IInv, RequestsOK
  <2>1. pc[r] = "running" /\ left[r] \in Nat /\ left[r] > 0
    BY DEF Call
  <2>2. CASE UNCHANGED <<pc, left>>
    BY <2>1, <2>2, <1>4
  <2>3. CASE (CallEnds(r) /\ AfterCall(r)) \/ (MintFails(r) /\ left' = [left EXCEPT ![r] = 0]
                                               /\ pc' = [pc EXCEPT ![r] = "done"])
    <3>1. step'[r] = "none"
      BY <2>3 DEF CallEnds, MintFails, EndCall, SetStep, TokenOK, TokenTypeOK
    <3>2. CASE left[r] > 1 /\ left' = [left EXCEPT ![r] = @ - 1] /\ pc' = pc
      <4>1. left'[r] \in Nat /\ left'[r] > 0 /\ left' \in [Requests -> Nat]
        BY <2>1, <3>2
      <4>2. \A q \in Requests \ {r} : left'[q] = left[q]
        BY <3>2
      <4>. QED
        BY <3>1, <3>2, <4>1, <4>2, <2>1, <1>4
    <3>3. CASE left' = [left EXCEPT ![r] = 0] /\ pc' = [pc EXCEPT ![r] = "done"]
      <4>1. left'[r] = 0 /\ pc'[r] = "done"
        BY <3>3
      <4>2. \A q \in Requests \ {r} : left'[q] = left[q] /\ pc'[q] = pc[q]
        BY <3>3
      <4>3. /\ pc' \in [Requests -> {"refused", "running", "done"}]
            /\ left' \in [Requests -> Nat]
        BY <3>3
      <4>. QED
        BY <3>1, <4>1, <4>2, <4>3, <1>4
    <3>. QED
      BY <2>3, <3>2, <3>3 DEF AfterCall
  <2>. QED
    BY <2>2, <2>3 DEF Call
<1>. QED
  BY <1>1, <1>2, <1>3, <1>5 DEF IInv

LEMMA SubmitFacts ==
  ASSUME IInv, NEW r \in Requests, Submit(r)
  PROVE  IInv'
<1>1. now' = now /\ Requester[r] \in Users
  BY CallPathAssumption DEF Submit
<1>2. UNCHANGED tokenVars
  BY DEF Submit
<1>3. TokenOK' /\ step' = step
  BY <1>1, <1>2 DEF tokenVars, IInv, TokenOK, TokenTypeOK, LockOK, TokenInv, RenewedOnce
<1>4. LimiterOK'
  <2>1. CASE Admit(Requester[r])
    BY <2>1, <1>1, AdmitFacts DEF IInv, LimiterOK
  <2>2. CASE Refuse(Requester[r])
    BY <2>2, <1>1, RefuseFacts DEF IInv, LimiterOK
  <2>. QED
    BY <2>1, <2>2 DEF Submit
<1>5. RequestsOK'
  <2>. USE DEF IInv, RequestsOK
  <2>1. pc[r] # "running" /\ left[r] = 0 /\ step[r] = "none"
    BY DEF Submit
  <2>2. CASE Begin(r, Calls)
    <3>1. Calls \in Nat /\ Calls > 0
      BY CallPathAssumption
    <3>. QED
      BY <2>1, <2>2, <3>1, <1>3 DEF Begin
  <2>3. CASE pc' = [pc EXCEPT ![r] = "refused"] /\ left' = left
    BY <2>1, <2>3, <1>3
  <2>. QED
    BY <2>2, <2>3 DEF Submit
<1>. QED
  BY <1>1, <1>3, <1>4, <1>5 DEF IInv

LEMMA ReadFacts ==
  ASSUME IInv, NEW r \in Requests, Read(r)
  PROVE  IInv'
<1>1. now' = now /\ step' = step /\ UNCHANGED tokenVars /\ UNCHANGED limiterVars
  BY DEF Read, tokenVars
<1>2. TokenOK' /\ LimiterOK'
  BY <1>1 DEF tokenVars, limiterVars, IInv, TokenOK, TokenTypeOK, LockOK, TokenInv, RenewedOnce,
              LimiterOK, LimiterTypeOK, LimiterInv, Paced
<1>3. RequestsOK'
  BY <1>1 DEF Read, Begin, IInv, RequestsOK
<1>. QED
  BY <1>1, <1>2, <1>3 DEF IInv

\* Time passes: attempts grow older, and no call outlasts its deadline.
LEMMA TickFacts ==
  ASSUME IInv, Tick
  PROVE  IInv'
<1>1. /\ now \in Nat /\ now' = now + 1 /\ InTime
      /\ UNCHANGED <<hits, admitted, cached, mutex, step, start, carries, renewals, pc, left>>
  BY DEF Tick, IInv, limiterVars, tokenVars
<1>2. LimiterOK'
  <2>1. LimiterTypeOK' /\ Paced'
    BY <1>1 DEF IInv, LimiterOK, LimiterTypeOK, Paced
  <2>2. \A u \in Users : admitted[u] \in Seq(Nat)
    BY DEF IInv, LimiterOK, LimiterTypeOK
  <2>3. ASSUME NEW u \in Users, NEW i \in DOMAIN admitted[u]
        PROVE  /\ admitted[u][i] <= now + 1
               /\ admitted[u][i] > (now + 1) - Window => i \in DOMAIN hits[u]
    <3>1. admitted[u][i] \in Nat
      BY <2>2, LenProperties
    <3>2. /\ admitted[u][i] <= now
          /\ admitted[u][i] > now - Window => i \in DOMAIN hits[u]
      BY DEF IInv, LimiterOK, LimiterInv
    <3>. QED
      BY <1>1, <3>1, <3>2, LimiterAssumption
  <2>4. LimiterInv
    BY DEF IInv, LimiterOK
  <2>5. now' = now + 1 /\ hits' = hits /\ admitted' = admitted
    BY <1>1
  <2>6. ASSUME NEW u \in Users
        PROVE  /\ \A i \in DOMAIN admitted'[u] : admitted'[u][i] <= now'
               /\ \A i, j \in DOMAIN admitted'[u] : i <= j => admitted'[u][i] <= admitted'[u][j]
               /\ \A i \in DOMAIN admitted'[u] :
                    admitted'[u][i] > now' - Window => i \in DOMAIN hits'[u]
    <3>. DEFINE S == admitted[u]
    <3>1. \A i, j \in DOMAIN S : i <= j => S[i] <= S[j]
      BY <2>4 DEF LimiterInv
    <3>2. \A i \in DOMAIN S : S[i] <= now + 1
      BY <2>3
    <3>3. \A i \in DOMAIN S : S[i] > (now + 1) - Window => i \in DOMAIN hits[u]
      BY <2>3
    <3>4. admitted'[u] = S /\ hits'[u] = hits[u]
      BY <2>5
    <3>. HIDE DEF S
    <3>5. now' = now + 1
      BY <2>5
    <3>6. \A i \in DOMAIN S : S[i] <= now'
      BY <3>2, <3>5, Zenon
    <3>7. \A i \in DOMAIN S : S[i] > now' - Window => i \in DOMAIN hits[u]
      BY <3>3, <3>5, Zenon
    <3>. QED
      BY <3>1, <3>4, <3>6, <3>7, Zenon
  <2>7. LimiterInv'
    BY <2>6 DEF LimiterInv
  <2>. QED
    BY <2>1, <2>7 DEF LimiterOK
<1>3. TokenOK'
  <2>1. TokenTypeOK' /\ LockOK' /\ RenewedOnce'
    BY <1>1 DEF IInv, TokenOK, TokenTypeOK, LockOK, RenewedOnce
  <2>2. ASSUME NEW r \in Requests, step[r] \in {"minting", "calling"}
        PROVE  start[r] <= now + 1 /\ now + 1 <= start[r] + CallTimeout
    <3>1. now < start[r] + CallTimeout /\ start[r] <= now /\ start[r] \in Nat
      BY <1>1, <2>2 DEF InTime, IInv, TokenOK, TokenInv, TokenTypeOK
    <3>. QED
      BY <1>1, <3>1, TokenAssumption
  <2>3. TokenInv
    BY DEF IInv, TokenOK
  <2>4. now' = now + 1 /\ cached' = cached /\ step' = step /\ start' = start
        /\ carries' = carries /\ renewals' = renewals
    BY <1>1
  <2>5. TokenInv'
    BY <2>2, <2>3, <2>4 DEF TokenInv
  <2>. QED
    BY <2>1, <2>5 DEF TokenOK
<1>4. RequestsOK'
  BY <1>1 DEF IInv, RequestsOK
<1>. QED
  BY <1>1, <1>2, <1>3, <1>4 DEF IInv

LEMMA RestartFacts ==
  ASSUME IInv, Restart
  PROVE  IInv'
<1>1. Started'
  BY DEF Restart, ForgetHits, ForgetToken, IInv, Started
<1>. QED
  BY <1>1, StartFacts, PTL

LEMMA Inductive == Spec => []IInv
<1>1. Init => IInv
  <2>. SUFFICES ASSUME Init PROVE IInv
    OBVIOUS
  <2>1. now \in Nat
    BY DEF Init
  <2>. QED
    BY <2>1, StartFacts DEF Init, LimiterInit, TokenInit, Started
<1>2. IInv /\ [Next]_vars => IInv'
  <2>. SUFFICES ASSUME IInv, [Next]_vars PROVE IInv'
    OBVIOUS
  <2>1. CASE Tick
    BY <2>1, TickFacts
  <2>2. CASE Restart
    BY <2>2, RestartFacts
  <2>3. ASSUME NEW r \in Requests, Submit(r) \/ Read(r) \/ Call(r) PROVE IInv'
    BY <2>3, SubmitFacts, ReadFacts, CallFacts
  <2>4. CASE UNCHANGED vars
    BY <2>4 DEF vars, limiterVars, tokenVars, IInv, LimiterOK, LimiterTypeOK, LimiterInv, Paced,
                TokenOK, TokenTypeOK, LockOK, TokenInv, RenewedOnce, RequestsOK
  <2>. QED
    BY <2>1, <2>2, <2>3, <2>4 DEF Next
<1>. QED
  BY <1>1, <1>2, PTL DEF Spec

-----------------------------------------------------------------------------
(* What follows.                                                           *)

\* The clock, the limiter, the token and the requests always have their
\* types, and the lock is held by the one request that renews the token
\* (middleware.go:83-124, token.go:20-66).
THEOREM TypeCorrect == Spec => []TypeOK
<1>1. IInv => TypeOK
  BY Parts
<1>. QED
  BY <1>1, Inductive, PTL

\* Nobody is let in more than Limit times in any window (rateLimiter.Allow,
\* middleware.go:106-124).
THEOREM AlwaysPaced == Spec => []Paced
<1>1. IInv => Paced
  BY Parts
<1>. QED
  BY <1>1, Inductive, PTL

\* No call on GitHub carries an expired token at any time before its
\* deadline, if a call's deadline and the difference of the clocks together
\* are within the margin (token.go:14-16, 38-45).
THEOREM TokensLive == Spec => []CallsCarryLiveTokens
<1>1. IInv => CallsCarryLiveTokens
  BY Parts
<1>. QED
  BY <1>1, Inductive, PTL

\* A token is renewed only when the last one is within the margin of its
\* expiry, however many calls wait for it (token.go:38-45).
THEOREM RenewedOnceEach == Spec => []RenewedOnce
<1>1. IInv => RenewedOnce
  BY Parts
<1>. QED
  BY <1>1, Inductive, PTL

\* Whoever is refused was let in Limit times within the last window
\* (rateLimiter.Allow, middleware.go:106-124).
THEOREM RefusalsEarned == Spec => RefusedAtLimit
<1>1. ASSUME IInv, Next, NEW r \in Requests, pc[r] # "refused", pc'[r] = "refused"
      PROVE  LET times == admitted[Requester[r]]
             IN Cardinality({i \in DOMAIN times : times[i] > now - Window}) >= Limit
  <2>1. pc \in [Requests -> {"refused", "running", "done"}]
    BY <1>1 DEF IInv, RequestsOK
  <2>2. Submit(r) /\ Refuse(Requester[r])
    <3>1. PICK q \in Requests : Submit(q) /\ pc'[r] = "refused"
      <4>1. ~Tick /\ ~Restart
        BY <1>1 DEF Tick, Restart
      <4>2. ASSUME NEW q \in Requests, Read(q) \/ Call(q) PROVE FALSE
        BY <1>1, <2>1, <4>2 DEF Read, Call, Begin, AfterCall
      <4>. QED
        BY <1>1, <4>1, <4>2 DEF Next
    <3>2. q = r
      BY <1>1, <2>1, <3>1 DEF Submit, Begin
    <3>3. ~Begin(r, Calls)
      BY <1>1, <2>1 DEF Begin
    <3>. QED
      BY <3>1, <3>2, <3>3 DEF Submit
  <2>3. Requester[r] \in Users
    BY CallPathAssumption
  <2>4. DOMAIN Kept(Requester[r])
          = {i \in DOMAIN admitted[Requester[r]] : admitted[Requester[r]][i] > now - Window}
    BY <1>1, <2>3, KeptFacts DEF IInv, LimiterOK
  <2>. QED
    BY <2>2, <2>4 DEF Refuse
<1>. DEFINE Earned == \A r \in Requests : pc[r] # "refused" /\ pc'[r] = "refused" =>
       LET times == admitted[Requester[r]]
       IN Cardinality({i \in DOMAIN times : times[i] > now - Window}) >= Limit
<1>2. IInv /\ [Next]_vars => [Earned]_vars
  BY <1>1
<1>. QED
  BY <1>2, Inductive, PTL DEF Spec, RefusedAtLimit

-----------------------------------------------------------------------------
(* The limiter and the token source implement GitHubAccess.                *)

LEMMA AccessInit == Init => Access!Init
<1>. SUFFICES ASSUME Init PROVE Access!Init
  OBVIOUS
<1>1. {q \in Requests : step[q] = "calling"} = {}
  BY DEF Init, TokenInit
<1>2. UnderWay = [r \in {} |-> 0]
  BY <1>1 DEF UnderWay
<1>. QED
  BY <1>2 DEF Init, LimiterInit, TokenInit, Access!Init

\* Both modules count in the same way.
LEMMA CountIs == ASSUME NEW S PROVE Access!Cardinality(S) = Cardinality(S)
BY Zenon DEF Access!Cardinality, Cardinality

\* Calls under way are those that begin, go on or end.
LEMMA UnderWayIs ==
  /\ DOMAIN UnderWay = {q \in Requests : step[q] = "calling"}
  /\ \A q \in DOMAIN UnderWay :
       UnderWay[q] = [until |-> start[q] + CallTimeout, carries |-> carries[q]]
BY DEF UnderWay

\* A step of the limiter, whose list keeps what the window has.
LEMMA SubmitIsAnswered ==
  ASSUME IInv, NEW r \in Requests, Submit(r)
  PROVE  Access!LetIn(r) \/ Access!TurnAway(r)
<1>1. /\ Requester[r] \in Users
      /\ now \in Nat /\ LimiterTypeOK /\ LimiterInv
  BY CallPathAssumption DEF IInv, LimiterOK
<1>2. DOMAIN Kept(Requester[r]) = Access!Recent(Requester[r])
  BY <1>1, KeptFacts DEF Access!Recent
<1>3. UNCHANGED <<now, cached, UnderWay>>
  BY DEF Submit, tokenVars, UnderWay
<1>4. CASE Admit(Requester[r]) /\ Begin(r, Calls)
  <2>1. Access!LetIn(r)
    BY <1>2, <1>3, <1>4, CountIs DEF Admit, Begin, Submit, Access!LetIn, Access!Becomes
  <2>. QED
    BY <2>1
<1>5. CASE Refuse(Requester[r]) /\ pc' = [pc EXCEPT ![r] = "refused"]
  <2>1. Access!TurnAway(r)
    BY <1>2, <1>3, <1>5, CountIs DEF Refuse, Submit, Access!TurnAway, Access!Becomes
  <2>. QED
    BY <2>1
<1>. QED
  BY <1>4, <1>5 DEF Submit

\* A call is sent when it has its token, from the cache or newly minted.
LEMMA CallIsSent ==
  ASSUME IInv, NEW r \in Requests, NEW exp \in Access!Tokens,
         pc[r] = "running", step[r] # "calling",
         now + CallTimeout + Skew < exp,
         cached' = {exp},
         step' = [step EXCEPT ![r] = "calling"],
         start' = [start EXCEPT ![r] = now],
         carries' = [carries EXCEPT ![r] = exp],
         UNCHANGED <<now, admitted, pc>>
  PROVE  Access!Send(r)
<1>. DEFINE call == [until |-> now + CallTimeout, carries |-> exp]
<1>1. /\ step = [q \in Requests |-> step[q]]
      /\ start = [q \in Requests |-> start[q]]
      /\ carries = [q \in Requests |-> carries[q]]
  BY DEF IInv, TokenOK, TokenTypeOK
<1>2. DOMAIN UnderWay' = DOMAIN UnderWay \cup {r}
  BY <1>1 DEF UnderWay
<1>3. \A q \in DOMAIN UnderWay' : UnderWay'[q] = IF q = r THEN call ELSE UnderWay[q]
  BY <1>1 DEF UnderWay
<1>4. UnderWay' = Access!Put(UnderWay, r, call)
  <2>1. UnderWay' = [q \in DOMAIN UnderWay' |-> UnderWay'[q]]
    BY DEF UnderWay
  <2>. HIDE DEF call
  <2>. QED
    BY <2>1, <1>2, <1>3 DEF Access!Put
<1>5. r \notin DOMAIN UnderWay
  BY UnderWayIs
<1>. QED
  BY <1>4, <1>5 DEF Access!Send

LEMMA CallIsAtomic ==
  ASSUME IInv, NEW r \in Requests, Call(r)
  PROVE  \/ Access!Send(r) \/ Access!Finish(r) \/ Access!GiveUp(r)
         \/ UNCHANGED <<now, admitted, pc, cached, UnderWay>>
<1>1. /\ now \in Nat /\ TokenTypeOK /\ TokenInv
      /\ pc[r] = "running" /\ now' = now /\ admitted' = admitted
  BY DEF IInv, TokenOK, Call, limiterVars
<1>2. CASE BeginCall(r) \/ Renew(r)
  <2>1. /\ pc' = pc /\ cached' = cached /\ carries' = carries
        /\ step[r] = "waiting" \/ step[r] = "none"
    BY <1>2 DEF BeginCall, Renew, Call, UseCached, Minted, CallEnds, MintFails
  <2>2. \A q \in Requests : q # r => step'[q] = step[q] /\ start'[q] = start[q]
    BY <1>1, <1>2 DEF BeginCall, Renew, SetStep, TokenTypeOK
  <2>3. step'[r] # "calling"
    BY <1>1, <1>2 DEF BeginCall, Renew, SetStep, TokenTypeOK
  <2>4. UnderWay' = UnderWay
    BY <2>1, <2>2, <2>3 DEF UnderWay
  <2>. QED
    BY <1>1, <2>1, <2>4
<1>3. CASE UseCached(r)
  <2>1. PICK exp \in cached : Fresh(exp) /\ carries' = [carries EXCEPT ![r] = exp]
    BY <1>3 DEF UseCached
  <2>2. cached = {exp}
    BY <1>1, <2>1 DEF TokenInv
  <2>3. exp \in Access!Tokens
    BY <2>1 DEF Access!Tokens, Fresh
  <2>4. now + CallTimeout + Skew < exp
    BY <1>1, <2>1, TokenAssumption DEF Fresh, TokenTypeOK
  <2>5. pc' = pc
    BY <1>3 DEF UseCached, Call, BeginCall, Renew, Minted, CallEnds, MintFails
  <2>. QED
    BY <1>1, <1>3, <2>1, <2>2, <2>3, <2>4, <2>5, CallIsSent DEF UseCached, SetStep
<1>4. CASE Minted(r)
  <2>1. PICK minted \in start[r]..now :
          LET exp == minted + Skew + Lifetime IN
          /\ cached' = {exp}
          /\ carries' = [carries EXCEPT ![r] = exp]
    BY <1>4 DEF Minted
  <2>. DEFINE exp == minted + Skew + Lifetime
  <2>2. /\ step[r] = "minting"
        /\ start[r] \in Nat /\ now <= start[r] + CallTimeout
    BY <1>1, <1>4 DEF Minted, TokenInv, TokenTypeOK
  <2>3. minted \in Int /\ minted \in now - CallTimeout .. now
    BY <1>1, <2>1, <2>2, TokenAssumption
  <2>4. ~ \E old \in cached : now + RefreshMargin < old
    <3>1. start[r] <= now /\ \A old \in cached : old \in Int /\ start[r] + RefreshMargin >= old
      BY <1>1, <2>2 DEF TokenInv, TokenTypeOK
    <3>. QED
      BY <1>1, <2>2, <3>1, TokenAssumption
  <2>5. exp \in Access!Tokens
    BY <2>3, <2>4 DEF Access!Tokens
  <2>6. now + CallTimeout + Skew < exp
    BY <1>1, <2>3, TokenAssumption
  <2>7. pc' = pc
    BY <1>4, <2>2 DEF Minted, Call, CallEnds, MintFails, UseCached
  <2>. HIDE DEF exp
  <2>8. cached' = {exp} /\ carries' = [carries EXCEPT ![r] = exp]
    BY <2>1 DEF exp
  <2>. QED
    BY <1>1, <1>4, <2>2, <2>5, <2>6, <2>7, <2>8, CallIsSent DEF Minted, SetStep
<1>5. CASE CallEnds(r) /\ AfterCall(r)
  <2>1. /\ step[r] = "calling"
        /\ step' = [step EXCEPT ![r] = "none"]
        /\ start' = [start EXCEPT ![r] = 0]
        /\ carries' = [carries EXCEPT ![r] = 0]
        /\ cached' = cached
    BY <1>5 DEF CallEnds, EndCall, SetStep
  <2>2. UnderWay' = [q \in DOMAIN UnderWay \ {r} |-> UnderWay[q]]
    <3>1. {q \in Requests : step'[q] = "calling"} = DOMAIN UnderWay \ {r}
      BY <1>1, <2>1, UnderWayIs DEF TokenTypeOK
    <3>2. \A q \in DOMAIN UnderWay \ {r} :
            [until |-> start'[q] + CallTimeout, carries |-> carries'[q]] = UnderWay[q]
      BY <1>1, <2>1, UnderWayIs DEF TokenTypeOK
    <3>. QED
      BY <3>1, <3>2 DEF UnderWay
  <2>3. r \in DOMAIN UnderWay
    BY <2>1, UnderWayIs
  <2>4. pc' = pc \/ pc' = [pc EXCEPT ![r] = "done"]
    BY <1>5 DEF AfterCall
  <2>. QED
    BY <1>1, <2>1, <2>2, <2>3, <2>4 DEF Access!Finish, Access!Becomes
<1>6. CASE MintFails(r) /\ pc' = [pc EXCEPT ![r] = "done"]
  <2>1. /\ step[r] = "minting"
        /\ step' = [step EXCEPT ![r] = "none"]
        /\ start' = [start EXCEPT ![r] = 0]
        /\ carries' = [carries EXCEPT ![r] = 0]
        /\ cached' = cached
    BY <1>6 DEF MintFails, EndCall, SetStep
  <2>2. r \notin DOMAIN UnderWay
    BY <2>1, UnderWayIs
  <2>3. UnderWay' = UnderWay
    <3>1. {q \in Requests : step'[q] = "calling"} = DOMAIN UnderWay
      BY <1>1, <2>1, UnderWayIs DEF TokenTypeOK
    <3>2. \A q \in DOMAIN UnderWay : start'[q] = start[q] /\ carries'[q] = carries[q]
      BY <1>1, <2>1, UnderWayIs DEF TokenTypeOK
    <3>. QED
      BY <3>1, <3>2, UnderWayIs DEF UnderWay
  <2>. QED
    BY <1>1, <1>6, <2>1, <2>2, <2>3 DEF Access!GiveUp, Access!Becomes
<1>. QED
  BY <1>2, <1>3, <1>4, <1>5, <1>6 DEF Call

\* Seen from its two sides, the path to GitHub is as simple as GitHubAccess:
\* the limiter decides as if it remembered every attempt, and each call gets
\* its token as if Token took no time (middleware.go:106-124, token.go:38-66).
THEOREM ImplementsAccess == Spec => AccessImplemented
<1>1. ASSUME IInv, Next PROVE Access!Next \/ UNCHANGED Access!vars
  <2>1. ASSUME NEW r \in Requests, Submit(r) PROVE Access!Next
    BY <1>1, <2>1, SubmitIsAnswered DEF Access!Next
  <2>2. ASSUME NEW r \in Requests, Read(r) PROVE Access!Next
    <3>1. UNCHANGED <<now, admitted, cached, UnderWay>>
      BY <2>2 DEF Read, limiterVars, tokenVars, UnderWay
    <3>2. Access!Look(r)
      BY <2>2, <3>1 DEF Read, Begin, Access!Look, Access!Becomes
    <3>. QED
      BY <3>2 DEF Access!Next
  <2>3. ASSUME NEW r \in Requests, Call(r) PROVE Access!Next \/ UNCHANGED Access!vars
    BY <1>1, <2>3, CallIsAtomic DEF Access!Next, Access!vars
  <2>4. CASE Tick
    <3>1. UNCHANGED <<admitted, pc, cached, UnderWay>> /\ now' = now + 1
      BY <2>4 DEF Tick, limiterVars, tokenVars, UnderWay
    <3>2. \A r \in DOMAIN UnderWay : now < UnderWay[r].until
      <4>1. \A r \in Requests : step[r] = "calling" => now < start[r] + CallTimeout
        BY <2>4 DEF Tick, InTime
      <4>. QED
        BY <4>1 DEF UnderWay
    <3>3. Access!Tick
      BY <3>1, <3>2 DEF Access!Tick
    <3>. QED
      BY <3>3 DEF Access!Next
  <2>5. CASE Restart
    <3>1. {q \in Requests : step'[q] = "calling"} = {}
      BY <2>5 DEF Restart, ForgetToken
    <3>2. UnderWay' = [r \in {} |-> 0]
      BY <3>1 DEF UnderWay
    <3>. QED
      BY <2>5, <3>2 DEF Restart, ForgetHits, ForgetToken, Access!Next, Access!Restart
  <2>. QED
    BY <1>1, <2>1, <2>2, <2>3, <2>4, <2>5 DEF Next
<1>2. UNCHANGED vars => UNCHANGED Access!vars
  BY DEF vars, limiterVars, tokenVars, Access!vars, UnderWay
<1>3. IInv /\ [Next]_vars => [Access!Next]_(Access!vars)
  BY <1>1, <1>2
<1>. QED
  BY <1>3, AccessInit, Inductive, PTL DEF Spec, AccessImplemented, Access!Spec

=============================================================================
