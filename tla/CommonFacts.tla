---------------------------- MODULE CommonFacts ----------------------------
(***************************************************************************)
(* Facts about numbers and sequences that proofs of several modules use.   *)
(***************************************************************************)
EXTENDS Integers, Sequences, FiniteSetsExt, FiniteSetTheorems, SequenceTheorems, TLAPS

\* A non-empty set of natural numbers has a least one.
LEMMA MinIn ==
  ASSUME NEW S, S \subseteq Nat, S # {}
  PROVE  Min(S) \in S /\ \A y \in S : Min(S) <= y
<1>. DEFINE Less == {ss \in Nat \X Nat : ss[1] < ss[2]}
<1>1. IsWellFoundedOn(Less, Nat)
  BY NatLessThanWellFounded, Zenon DEF OpToRel
<1>2. PICK x \in S : \A y \in S : <<y, x>> \notin Less
  BY <1>1, WFMin
<1>3. ASSUME NEW y \in S PROVE x <= y
  <2>1. <<y, x>> \notin Less
    BY <1>2
  <2>2. ~(y < x)
    BY <2>1
  <2>. QED
    BY <2>2
<1>. QED
  BY <1>3 DEF Min

\* A finite, non-empty set of integers has a greatest element.
LEMMA MaxIn ==
  ASSUME NEW S, IsFiniteSet(S), S \subseteq Int, S # {}
  PROVE  Max(S) \in S /\ \A y \in S : y <= Max(S)
<1>. DEFINE HasMax(U) == \E x \in U : \A y \in U : y <= x
            Bad == {U \in SUBSET S : U # {} /\ ~HasMax(U)}
<1>1. Bad = {}
  <2>1. SUFFICES ASSUME Bad # {} PROVE FALSE
    OBVIOUS
  <2>2. Bad \subseteq FiniteSubsetsOf(S)
    BY FS_FiniteSubsetsOfFinite
  <2>3. PICK U \in Bad : \A V \in Bad : <<V, U>> \notin StrictSubsetOrdering(S)
    <3>. HIDE DEF Bad
    <3>. QED
      BY <2>1, <2>2, FS_StrictSubsetOrderingWellFounded, WFMin
  <2>4. PICK a \in U : TRUE
    OBVIOUS
  <2>. DEFINE V == U \ {a}
  <2>5. <<V, U>> \in StrictSubsetOrdering(S)
    BY <2>4 DEF StrictSubsetOrdering
  <2>6. V = {} \/ HasMax(V)
    BY <2>3, <2>5
  <2>7. CASE V = {}
    <3>1. U = {a}
      BY <2>4, <2>7
    <3>2. HasMax(U)
      BY <3>1
    <3>. QED
      BY <3>2
  <2>8. CASE HasMax(V)
    <3>1. PICK m \in V : \A y \in V : y <= m
      BY <2>8
    <3>2. \/ \A y \in U : y <= m
          \/ \A y \in U : y <= a
      <4>1. m \in Int /\ a \in Int /\ V \subseteq Int
        BY <2>4, <3>1
      <4>2. CASE a <= m
        BY <3>1, <4>2
      <4>3. CASE m < a
        BY <3>1, <4>1, <4>3
      <4>. QED
        BY <4>1, <4>2, <4>3
    <3>3. HasMax(U)
      BY <2>4, <3>1, <3>2
    <3>. QED
      BY <3>3
  <2>. QED
    BY <2>6, <2>7, <2>8
<1>2. HasMax(S)
  BY <1>1
<1>. QED
  BY <1>2 DEF Max

\* Appending to a sequence keeps what is there.
LEMMA AppendFacts ==
  ASSUME NEW S, NEW s \in Seq(S), NEW x \in S
  PROVE  /\ Append(s, x) \in Seq(S)
         /\ Append(s, x) # <<>>
         /\ Len(s) \in Nat /\ DOMAIN s = 1..Len(s)
         /\ Len(Append(s, x)) = Len(s) + 1
         /\ DOMAIN Append(s, x) = 1..(Len(s) + 1)
         /\ \A i \in 1..Len(s) : s[i] \in S /\ Append(s, x)[i] = s[i]
         /\ Append(s, x)[Len(s) + 1] = x
<1>1. /\ Append(s, x) \in Seq(S)
      /\ Len(Append(s, x)) = Len(s) + 1
      /\ \A i \in 1..Len(s) : Append(s, x)[i] = s[i]
      /\ Append(s, x)[Len(s) + 1] = x
  BY AppendProperties
<1>2. /\ Len(s) \in Nat /\ DOMAIN s = 1..Len(s)
      /\ \A i \in 1..Len(s) : s[i] \in S
  BY LenProperties
<1>3. DOMAIN Append(s, x) = 1..(Len(s) + 1)
  BY <1>1, LenProperties
<1>4. Append(s, x) # <<>>
  BY <1>1, <1>2
<1>. QED
  BY <1>1, <1>2, <1>3, <1>4

=============================================================================
