----------------------------- MODULE MCDraftForm -----------------------------
(* An instance of DraftForm for TLC. *)
EXTENDS DraftForm, TLC

MCKeys == {"", "peach", "cake", "tea_cake"}
MCText == STRING
MCNames == {"Peach", "Cake", "Tea cake", "tea-cake", "***"}
MCKeyOf == "Peach" :> "peach" @@ "Cake" :> "cake" @@ "Tea cake" :> "tea_cake"
             @@ "tea-cake" :> "tea_cake" @@ "***" :> NoKey

\* What is put into the form for a card that may be added, and the ways in which a form
\* may differ from it.
Proper(k) ==
  [kind |-> k, id |-> NoID, named |-> TRUE, least |-> 0, fruit |-> "peach", effect |-> {},
   role |-> {}, sweetType |-> {}, version |-> {}, newFruit |-> {}, newSweetType |-> {},
   image |-> "ok"]

Edits(k) == {[prefix |-> k, number |-> n] : n \in {0, 7, NotANumber}}
              \cup {[prefix |-> "none", number |-> 0]}

Ways(k) ==
  [id |-> Edits(k), named |-> {FALSE}, least |-> {-1}, fruit |-> {"tea_cake"}, effect |-> {{"x"}},
   role |-> {{"manager"}, {"chef"}}, sweetType |-> {{"cake"}, {"tea_cake"}},
   version |-> {{"beta"}, {"old"}}, newFruit |-> {{"Tea cake"}, {"***"}},
   newSweetType |-> {{"tea-cake"}, {"Cake"}}, image |-> {"none", "broken"}]

\* Forms that differ from a proper one in at most two ways.
MCPayloads ==
  UNION {LET ways == Ways(k)
             one == UNION {{[Proper(k) EXCEPT ![f] = v] : v \in ways[f]} : f \in DOMAIN ways}
         IN {Proper(k)} \cup one
              \cup UNION {UNION {{[p EXCEPT ![f] = v] : v \in ways[f]} : f \in DOMAIN ways} : p \in one}
         : k \in Kinds}
    \cup {[Proper("yojo") EXCEPT !.kind = "spell"]}

FirstCard(k) ==
  WithDefaults(k,
    [id |-> [prefix |-> k, number |-> 0], named |-> TRUE, type |-> TypeOfKind[k], fruit |-> "peach",
     least |-> 0, image |-> ImageURL(k, "old"), effect |-> {}, role |-> {}, sweetType |-> {},
     version |-> {}, extra |-> FALSE])

MCFirstMain ==
  [k \in Kinds |->
     [schema |-> [fruit |-> {"peach"}, sweetType |-> {"", "cake"}],
      names |-> [fruit |-> "peach" :> "Peach", sweetType |-> "cake" :> "Cake"],
      list |-> <<FirstCard(k)>>]]
=============================================================================
