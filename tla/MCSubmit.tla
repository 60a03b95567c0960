------------------------------ MODULE MCSubmit ------------------------------
(* Instances of Submit for TLC. *)
EXTENDS Submit, TLC

CONSTANTS
  u1, u2, r1, r2, sweet, yojo, peach, grape, melon, ja, en

FruitOption(value) == [value |-> value, label |-> ja]

\* main starts with one card in each dataset.
MCFirstTree ==
  [data |-> [k \in Kinds |-> 0 :> [by |-> NoDraft, fruit |-> peach, image |-> 0]],
   sources |-> [f \in 1..SourceFiles |-> {Entry(f, FruitOption(peach))}],
   images |-> {0}]

TwoSubmitters == r1 :> u1 @@ r2 :> u2

\* The two people with their requests, and the two datasets, are alike.
Swap == u1 :> u2 @@ u2 :> u1 @@ r1 :> r2 @@ r2 :> r1
Alike == Permutations(Kinds) \cup {Swap @@ k : k \in Permutations(Kinds)}

OneSubmitterTwice == r1 :> u1 @@ r2 :> u1
=============================================================================
