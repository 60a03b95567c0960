----------------------------- MODULE MCAllowList -----------------------------
(* Instances of AllowList for TLC. *)
EXTENDS AllowList, TLC

CONSTANTS boss, amy, nick, first, r1, r2, r3

\* The bootstrap administrator's entry comes from an older version, and added
\* one more administrator.
ListedPair ==
  boss :> [role |-> "admin", name |-> Placeholder, by |-> Bootstrap]
    @@ amy :> [role |-> "admin", name |-> NoName, by |-> boss]

BossLoggedIn == first :> [who |-> boss, live |-> TRUE]

AnyOrder == Permutations(Requests)
=============================================================================
