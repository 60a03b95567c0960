-------------------------- MODULE DraftFormProofs --------------------------
(***************************************************************************)
(* What becomes of a form, for any form, any classifications and any       *)
(* history of main.  The draft and the card are described once, by the     *)
(* lemmas on RowOf and CardFor; the invariant FormInv says what each file  *)
(* was read from, and the properties follow from both.                     *)
(***************************************************************************)
EXTENDS DraftForm, CommonFacts

-----------------------------------------------------------------------------
(* Classifications.                                                        *)

\* A taxonomy has the keys of its schema, whatever the names.
LEMMA TaxonomyHas ==
  ASSUME NEW schema, NEW labels, NEW c \in Classes, NEW v
  PROVE  Has(Taxonomy(schema, labels)[c], v) <=> v \in schema[c]
<1>. DEFINE option(w) == [value |-> w, label |-> IF w \in DOMAIN labels[c] THEN labels[c][w] ELSE w]
<1>1. Taxonomy(schema, labels)[c] = {option(w) : w \in schema[c]}
  BY DEF Taxonomy
<1>2. \A w : option(w).value = w
  OBVIOUS
<1>. HIDE DEF option
<1>. QED
  BY <1>1, <1>2 DEF Has

LEMMA WithHas ==
  ASSUME NEW t, NEW changes, NEW c \in Classes, NEW v
  PROVE  Has(With(t, changes)[c], v) <=> Has(t[c], v) \/ Has(changes[c], v)
BY DEF Has, With

\* Two taxonomies that have the same keys.
SameKeys(t, t2) == \A c \in Classes : \A v : Has(t[c], v) <=> Has(t2[c], v)

LEMMA BrokenByKeys ==
  ASSUME NEW k, NEW c, NEW t, NEW t2, SameKeys(t, t2)
  PROVE  Broken(k, c, t) <=> Broken(k, c, t2)
<1>1. /\ \A v : Has(t.fruit, v) <=> Has(t2.fruit, v)
      /\ \A v : Has(t.sweetType, v) <=> Has(t2.sweetType, v)
  BY DEF SameKeys, Classes
<1>2. BadSweetType(c, t.sweetType) <=> BadSweetType(c, t2.sweetType)
  BY <1>1 DEF BadSweetType
<1>. QED
  BY <1>1, <1>2 DEF Broken

\* The form asks which keys there are, never how they are called.
LEMMA SameAcceptance ==
  ASSUME NEW p, NEW schema, NEW labels, NEW labels2
  PROVE  Accepts(p, Taxonomy(schema, labels)) <=> Accepts(p, Taxonomy(schema, labels2))
<1>. DEFINE t == Taxonomy(schema, labels)
            t2 == Taxonomy(schema, labels2)
<1>1. SameKeys(t, t2)
  BY TaxonomyHas DEF SameKeys
<1>2. SameKeys(With(t, Defined(p)), With(t2, Defined(p)))
  BY <1>1, WithHas DEF SameKeys
<1>3. /\ BadNewFruit(p, t) <=> BadNewFruit(p, t2)
      /\ BadNewSweetType(p, t) <=> BadNewSweetType(p, t2)
  <2>. HIDE DEF t, t2
  <2>1. /\ \A v : Has(t.fruit, v) <=> Has(t2.fruit, v)
        /\ \A v : Has(t.sweetType, v) <=> Has(t2.sweetType, v)
    BY <1>1 DEF SameKeys, Classes
  <2>. QED
    BY <2>1 DEF BadNewFruit, BadNewSweetType
<1>. HIDE DEF t, t2
<1>4. \A k, c : Broken(k, c, With(t, Defined(p))) <=> Broken(k, c, With(t2, Defined(p)))
  BY <1>2, BrokenByKeys
<1>5. Accepts(p, t) <=> Accepts(p, t2)
  BY <1>3, <1>4 DEF Accepts
<1>. QED
  BY <1>5 DEF t, t2

-----------------------------------------------------------------------------
(* IDs and places in a list.                                               *)

\* The ID of a new card is of its dataset and belongs to no card there.
LEMMA NextIDIsNew ==
  ASSUME NEW k \in Kinds, NEW list, list \in Seq(Card)
  PROVE  /\ NextID(k, list) \in ID
         /\ NextID(k, list) # NoID
         /\ ParsesAs(k, NextID(k, list))
         /\ \A i \in DOMAIN list : list[i].id # NextID(k, list)
<1>. DEFINE places == {i \in DOMAIN list : ParsesAs(k, list[i].id)}
            used == {list[i].id.number : i \in places}
            number == [i \in places |-> list[i].id.number]
            last == Max(used \cup {-1})
            new == NextID(k, list)
<1>1. /\ DOMAIN list = 1..Len(list) /\ Len(list) \in Nat
      /\ \A i \in DOMAIN list : list[i] \in Card
  BY LenProperties
<1>2. \A i \in DOMAIN list : list[i].id \in ID
  BY <1>1 DEF Card
<1>3. IsFiniteSet(used)
  <2>1. IsFiniteSet(DOMAIN list)
    BY <1>1, FS_Interval
  <2>2. IsFiniteSet(places)
    BY <2>1, FS_Subset
  <2>3. number \in Surjection(places, used)
    BY DEF Surjection
  <2>. HIDE DEF places, used, number
  <2>. QED
    BY <2>2, <2>3, FS_Surjection
<1>4. used \subseteq Nat
  BY <1>2 DEF ParsesAs, ID, NotANumber
<1>5. last \in used \cup {-1} /\ \A y \in used : y <= last
  <2>. HIDE DEF used
  <2>1. IsFiniteSet(used \cup {-1})
    BY <1>3, FS_AddElement
  <2>2. used \cup {-1} \subseteq Int /\ used \cup {-1} # {}
    BY <1>4
  <2>. QED
    BY <2>1, <2>2, MaxIn
<1>6. new = [prefix |-> k, number |-> last + 1]
  BY DEF NextID
<1>7. ASSUME NEW i \in DOMAIN list, ParsesAs(k, list[i].id) PROVE list[i].id.number \in used
  BY <1>7
<1>. HIDE DEF places, used, number, last
<1>8. last + 1 \in Nat /\ \A y \in used : y # last + 1
  BY <1>4, <1>5
<1>. HIDE DEF new
<1>9. new.prefix = k /\ new.number = last + 1 /\ new.number # NotANumber
  BY <1>6, <1>8 DEF NotANumber
<1>10. ASSUME NEW i \in DOMAIN list, list[i].id = new PROVE FALSE
  <2>1. ParsesAs(k, list[i].id)
    BY <1>9, <1>10 DEF ParsesAs
  <2>. QED
    BY <1>7, <1>8, <1>9, <1>10, <2>1
<1>11. new \in ID
  BY <1>6, <1>8 DEF ID
<1>12. new # NoID
  BY <1>9 DEF NoID
<1>. QED
  BY <1>9, <1>10, <1>11, <1>12 DEF ParsesAs, new

\* Where a card is in a list.
LEMMA PlaceOfID ==
  ASSUME NEW list, list \in Seq(Card), NEW id
  PROVE  \/ IndexIn(list, id) = 0 /\ \A i \in DOMAIN list : list[i].id # id
         \/ IndexIn(list, id) \in DOMAIN list /\ list[IndexIn(list, id)].id = id
<1>. DEFINE found == {i \in DOMAIN list : list[i].id = id}
<1>1. found \subseteq Nat
  BY LenProperties
<1>2. CASE found = {}
  BY <1>2 DEF IndexIn
<1>3. CASE found # {}
  <2>1. Min(found) \in found
    <3>. HIDE DEF found
    <3>. QED
      BY <1>1, <1>3, MinIn
  <2>2. IndexIn(list, id) = Min(found)
    BY <1>3 DEF IndexIn
  <2>. QED
    BY <2>1, <2>2
<1>. QED
  BY <1>2, <1>3

-----------------------------------------------------------------------------
(* The card of a form, and the row of one that is accepted.                *)

LEMMA DraftCardFields ==
  ASSUME NEW p \in Payload
  PROVE  /\ BuildDraftCard(p).id = p.id
         /\ BuildDraftCard(p).named = p.named
         /\ BuildDraftCard(p).type = TypeOfKind[p.kind]
         /\ BuildDraftCard(p).fruit = Chosen(p).fruit
         /\ BuildDraftCard(p).least = p.least
         /\ BuildDraftCard(p).image =
              ImageURL(p.kind, IF p.image = "ok" THEN "new" ELSE "placeholder")
         /\ BuildDraftCard(p).effect = IF p.effect = {} THEN {""} ELSE p.effect
         /\ BuildDraftCard(p).role =
              IF TypeOfKind[p.kind] = "yojo" /\ p.role = {} THEN {""} ELSE p.role
         /\ BuildDraftCard(p).sweetType =
              IF p.kind = "sweet" /\ Chosen(p).sweetType = {} THEN {""} ELSE Chosen(p).sweetType
         /\ BuildDraftCard(p).version =
              IF p.kind = "playable" /\ p.version = {} THEN {"normal"} ELSE p.version
         /\ BuildDraftCard(p).extra = FALSE
         /\ "id" \in DOMAIN BuildDraftCard(p)
<1>1. /\ Chosen(p).id = p.id /\ Chosen(p).effect = p.effect
      /\ Chosen(p).role = p.role /\ Chosen(p).version = p.version
  BY DEF Chosen, Payload
<1>2. BuildDraftCard(p) = WithDefaults(p.kind,
        [id |-> p.id, named |-> p.named, type |-> TypeOfKind[p.kind], fruit |-> Chosen(p).fruit,
         least |-> p.least, image |-> ImageURL(p.kind, IF p.image = "ok" THEN "new" ELSE "placeholder"),
         effect |-> p.effect, role |-> p.role, sweetType |-> Chosen(p).sweetType,
         version |-> p.version, extra |-> FALSE])
  BY <1>1, Zenon DEF BuildDraftCard
<1>. QED
  BY <1>2 DEF WithDefaults

\* A row whose own text, numbers, ID, role and version are in order.
GoodRow(r) ==
  /\ r.kind \in Kinds /\ r.named = TRUE
  /\ r.least \in Int /\ r.least >= 0
  /\ r.id \in ID /\ (r.id # NoID => ParsesAs(r.kind, r.id))
  /\ r.fruit \in Keys
  /\ r.effect \in SUBSET Text
  /\ r.role \subseteq Roles /\ (r.role # {} => TypeOfKind[r.kind] = "yojo")
  /\ r.sweetType \subseteq Keys /\ (r.sweetType # {} <=> TypeOfKind[r.kind] = "sweet")
  /\ r.version \subseteq Versions
  /\ \A c \in Classes : r.new[c] \subseteq Option
  /\ r.image \in BOOLEAN /\ (r.image = TRUE \/ r.id # NoID)

LEMMA RowFields ==
  ASSUME NEW p
  PROVE  /\ RowOf(p).kind = p.kind
         /\ RowOf(p).id = BuildDraftCard(p).id
         /\ RowOf(p).named = BuildDraftCard(p).named
         /\ RowOf(p).fruit = BuildDraftCard(p).fruit
         /\ RowOf(p).least = BuildDraftCard(p).least
         /\ RowOf(p).effect = BuildDraftCard(p).effect
         /\ RowOf(p).role = BuildDraftCard(p).role
         /\ RowOf(p).sweetType = BuildDraftCard(p).sweetType
         /\ RowOf(p).version = BuildDraftCard(p).version
         /\ RowOf(p).new = Defined(p)
         /\ RowOf(p).image = (p.image = "ok")
         /\ RowOf(p) # NoRow
<1>1. "kind" \in DOMAIN RowOf(p) /\ "kind" \notin DOMAIN NoRow
  BY DEF RowOf, NoRow
<1>. QED
  BY <1>1 DEF RowOf

\* An ID that is missing is the only thing the placeholder changes.
LEMMA PlaceholderFields ==
  ASSUME NEW p \in Payload, p.kind \in Kinds
  PROVE  LET d == PlaceholderID(p.kind, BuildDraftCard(p))
             c == BuildDraftCard(p)
         IN /\ d.id = IF p.id = NoID THEN NextID(p.kind, <<>>) ELSE p.id
            /\ d.named = c.named /\ d.type = c.type /\ d.fruit = c.fruit /\ d.least = c.least
            /\ d.image = c.image /\ d.role = c.role /\ d.sweetType = c.sweetType
            /\ d.version = c.version
<1>. DEFINE c == BuildDraftCard(p)
<1>1. c.id = p.id /\ "id" \in DOMAIN c
  BY DraftCardFields
<1>. HIDE DEF c
<1>2. LET d == PlaceholderID(p.kind, c) IN
      /\ d.id = IF p.id = NoID THEN NextID(p.kind, <<>>) ELSE p.id
      /\ d.named = c.named /\ d.type = c.type /\ d.fruit = c.fruit /\ d.least = c.least
      /\ d.image = c.image /\ d.role = c.role /\ d.sweetType = c.sweetType
      /\ d.version = c.version
  BY <1>1 DEF PlaceholderID
<1>. QED
  BY <1>2 DEF c

LEMMA Texts == "" \in Text /\ "none" \in Text /\ "new" \in Text /\ Roles \subseteq Text /\ Versions \subseteq Text
BY DraftFormAssumption DEF DraftFormAssumption

\* What a form that is accepted defines are options, and what may be chosen
\* are keys.
LEMMA NewOptions ==
  ASSUME NEW p \in Payload, NEW live, ~BadNewFruit(p, live), ~BadNewSweetType(p, live)
  PROVE  \A c \in Classes : Defined(p)[c] \subseteq Option
<1>1. \A n \in p.newFruit \cup p.newSweetType : n \in Names /\ KeyOf[n] # NoKey
  BY DEF BadNewFruit, BadNewSweetType, Payload
<1>2. \A n \in p.newFruit \cup p.newSweetType : KeyOf[n] \in Keys
  BY <1>1, CardRulesAssumption DEF CardRulesAssumption
<1>3. \A n \in p.newFruit \cup p.newSweetType : NewOption(n) \in Option
  BY <1>1, <1>2 DEF NewOption, Option
<1>. QED
  BY <1>3 DEF Defined, Classes

LEMMA ChoicesAreKeys ==
  ASSUME NEW schema \in [Classes -> SUBSET Keys], NEW labels, NEW changes,
         \A c \in Classes : changes[c] \subseteq Option,
         NEW c \in Classes, NEW v, Has(With(Taxonomy(schema, labels), changes)[c], v)
  PROVE  v \in Keys
<1>1. v \in schema[c] \/ Has(changes[c], v)
  BY TaxonomyHas, WithHas
<1>2. Has(changes[c], v) => v \in Keys
  BY DEF Has, Option
<1>. QED
  BY <1>1, <1>2

\* The publisher finds in the row what the form found in the payload.
LEMMA AcceptedRow ==
  ASSUME NEW p \in Payload, NEW schema \in [Classes -> SUBSET Keys], NEW labels,
         Accepts(p, Taxonomy(schema, labels))
  PROVE  GoodRow(RowOf(p))
<1>. DEFINE live == Taxonomy(schema, labels)
            t == With(live, Defined(p))
            c == BuildDraftCard(p)
            d == PlaceholderID(p.kind, c)
            r == RowOf(p)
<1>1. /\ ~BadNewFruit(p, live) /\ ~BadNewSweetType(p, live)
      /\ p.kind \in Kinds
      /\ p.image = "ok" \/ (p.image = "none" /\ p.id # NoID)
      /\ ~Broken(p.kind, d, t)
  BY DEF Accepts
<1>2. \A cl \in Classes : Defined(p)[cl] \subseteq Option
  BY <1>1, NewOptions
<1>3. \A cl \in Classes : \A v : Has(t[cl], v) => v \in Keys
  BY <1>2, ChoicesAreKeys
<1>4. /\ d.id = IF p.id = NoID THEN NextID(p.kind, <<>>) ELSE p.id
      /\ d.named = c.named /\ d.type = c.type /\ d.fruit = c.fruit /\ d.least = c.least
      /\ d.image = c.image /\ d.role = c.role /\ d.sweetType = c.sweetType
      /\ d.version = c.version
  BY <1>1, PlaceholderFields
<1>5. /\ c.id = p.id /\ c.named = p.named /\ c.least = p.least /\ c.type = TypeOfKind[p.kind]
      /\ c.effect = IF p.effect = {} THEN {""} ELSE p.effect
  BY DraftCardFields
<1>6. /\ r.kind = p.kind /\ r.id = c.id /\ r.named = c.named /\ r.fruit = c.fruit
      /\ r.least = c.least /\ r.effect = c.effect /\ r.role = c.role
      /\ r.sweetType = c.sweetType /\ r.version = c.version
      /\ r.new = Defined(p) /\ r.image = (p.image = "ok")
  BY RowFields
<1>. HIDE DEF live, t, c, d, r
<1>7. /\ ParsesAs(p.kind, d.id) /\ d.named
      /\ Has(t.fruit, d.fruit) /\ ~(d.least < 0)
      /\ ~BadRole(d) /\ ~BadSweetType(d, t.sweetType) /\ d.version \subseteq Versions
  BY <1>1 DEF Broken
<1>8. p.named \in BOOLEAN /\ p.least \in Int /\ p.id \in ID /\ p.effect \in SUBSET Text
  BY DEF Payload
<1>9. r.named = TRUE /\ r.least \in Int /\ r.least >= 0
  <2>1. r.named = p.named /\ d.named = p.named
    BY <1>4, <1>5, <1>6
  <2>2. r.named = TRUE
    BY <1>7, <1>8, <2>1
  <2>3. r.least = p.least /\ d.least = p.least
    BY <1>4, <1>5, <1>6
  <2>. QED
    BY <1>7, <1>8, <2>2, <2>3
<1>10. r.id \in ID /\ (r.id # NoID => ParsesAs(r.kind, r.id))
  BY <1>4, <1>5, <1>6, <1>7, <1>8
<1>11. r.fruit \in Keys
  BY <1>3, <1>4, <1>6, <1>7 DEF Classes
<1>12. r.effect \in SUBSET Text
  BY <1>5, <1>6, <1>8, Texts
<1>13. r.role \subseteq Roles /\ (r.role # {} => TypeOfKind[r.kind] = "yojo")
  BY <1>4, <1>5, <1>6, <1>7 DEF BadRole
<1>14. r.sweetType \subseteq Keys
  BY <1>3, <1>4, <1>6, <1>7 DEF Classes, BadSweetType
<1>15. r.sweetType # {} <=> TypeOfKind[r.kind] = "sweet"
  BY <1>4, <1>5, <1>6, <1>7 DEF BadSweetType
<1>16. r.image \in BOOLEAN /\ (r.image = TRUE \/ r.id # NoID)
  BY <1>1, <1>5, <1>6
<1>. QED
  BY <1>1, <1>2, <1>4, <1>6, <1>7, <1>9, <1>10, <1>11, <1>12, <1>13, <1>14, <1>15, <1>16
     DEF GoodRow, r

-----------------------------------------------------------------------------
(* The card in the list.                                                   *)

LEMMA CardForFields ==
  ASSUME NEW r, NEW list
  PROVE  LET c == CardFor(r, list) IN
         /\ c.id = IF r.id = NoID THEN NextID(r.kind, list) ELSE r.id
         /\ c.image = IF r.image THEN ImageURL(r.kind, "new") ELSE list[IndexIn(list, r.id)].image
         /\ c.named = r.named /\ c.type = TypeOfKind[r.kind] /\ c.fruit = r.fruit
         /\ c.least = r.least /\ c.effect = r.effect /\ c.role = r.role
         /\ c.sweetType = r.sweetType /\ c.version = r.version /\ c.extra = FALSE
         /\ DOMAIN c = {"id", "named", "type", "fruit", "least", "image", "effect", "role",
                        "sweetType", "version", "extra"}
BY DEF CardFor, CardOf

\* A card that is to be edited is there, a new one comes after the last; and
\* the card has an ID that no other card at another place has because of it.
LEMMA PlaceFacts ==
  ASSUME NEW r, GoodRow(r), NEW list, list \in Seq(Card), PlaceIn(r, list) # 0
  PROVE  /\ PlaceIn(r, list) \in 1..(Len(list) + 1)
         /\ r.id = NoID => PlaceIn(r, list) = Len(list) + 1
         /\ r.id # NoID => /\ PlaceIn(r, list) = IndexIn(list, r.id)
                           /\ PlaceIn(r, list) \in DOMAIN list
                           /\ list[PlaceIn(r, list)].id = r.id
         /\ CardFor(r, list).id \in ID
         /\ ParsesAs(r.kind, CardFor(r, list).id)
         /\ r.id = NoID => \A i \in DOMAIN list : list[i].id # CardFor(r, list).id
<1>1. Len(list) \in Nat /\ DOMAIN list = 1..Len(list)
  BY LenProperties
<1>2. CardFor(r, list).id = IF r.id = NoID THEN NextID(r.kind, list) ELSE r.id
  BY CardForFields
<1>3. CASE r.id = NoID
  <2>1. PlaceIn(r, list) = Len(list) + 1
    BY <1>3 DEF PlaceIn
  <2>2. r.kind \in Kinds
    BY DEF GoodRow
  <2>. QED
    BY <1>1, <1>2, <1>3, <2>1, <2>2, NextIDIsNew
<1>4. CASE r.id # NoID
  <2>1. PlaceIn(r, list) = IndexIn(list, r.id)
    BY <1>4 DEF PlaceIn
  <2>2. PlaceIn(r, list) \in DOMAIN list /\ list[PlaceIn(r, list)].id = r.id
    BY <2>1, PlaceOfID
  <2>3. r.id \in ID /\ ParsesAs(r.kind, r.id)
    BY <1>4 DEF GoodRow
  <2>. QED
    BY <1>1, <1>2, <1>4, <2>1, <2>2, <2>3
<1>. QED
  BY <1>3, <1>4

LEMMA CardForIsCard ==
  ASSUME NEW r, GoodRow(r), NEW list, list \in Seq(Card), PlaceIn(r, list) # 0
  PROVE  CardFor(r, list) \in Card
<1>. DEFINE images == [dir : {"yojo", "sweet", "playable"}, webp : BOOLEAN, name : Text]
            new == ImageURL(r.kind, "new")
            old == list[IndexIn(list, r.id)].image
<1>1. r.kind \in Kinds /\ r.image \in BOOLEAN /\ (r.image = TRUE \/ r.id # NoID)
  BY DEF GoodRow
<1>2. TypeOfKind[r.kind] \in {"yojo", "sweet", "playable"}
  BY <1>1 DEF Kinds, TypeOfKind
<1>3. new \in images /\ ImageURL(r.kind, "none") \in images
  BY <1>2, Texts DEF ImageURL, DirOfKind
<1>4. ASSUME r.image = FALSE PROVE old \in images
  <2>1. r.id # NoID
    BY <1>1, <1>4
  <2>2. IndexIn(list, r.id) \in DOMAIN list
    BY <2>1, PlaceFacts
  <2>3. list[IndexIn(list, r.id)] \in Card
    BY <2>2, LenProperties
  <2>. QED
    BY <2>3 DEF Card
<1>5. CardOf(r) \in Card
  <2>1. r.effect \in SUBSET Text /\ r.sweetType \in SUBSET Keys
    BY DEF GoodRow
  <2>2. r.role \in SUBSET Text /\ r.version \in SUBSET Text
    BY Texts DEF GoodRow, Roles, Versions
  <2>3. r.named \in BOOLEAN
    BY DEF GoodRow
  <2>4. r.id \in ID /\ r.fruit \in Keys /\ r.least \in Int
    BY DEF GoodRow
  <2>. QED
    BY <1>2, <1>3, <2>1, <2>2, <2>3, <2>4 DEF CardOf, Card
<1>6. (IF r.id = NoID THEN NextID(r.kind, list) ELSE r.id) \in ID
  <2>1. CardFor(r, list).id \in ID
    BY PlaceFacts
  <2>2. CardFor(r, list).id = IF r.id = NoID THEN NextID(r.kind, list) ELSE r.id
    BY CardForFields
  <2>. QED
    BY <2>1, <2>2
<1>7. (IF r.image THEN new ELSE old) \in images
  BY <1>1, <1>3, <1>4
<1>8. CardFor(r, list) = [CardOf(r) EXCEPT !.id = IF r.id = NoID THEN NextID(r.kind, list) ELSE r.id,
                                           !.image = IF r.image THEN new ELSE old]
  <2>1. CardOf(r).id = r.id
    BY DEF CardOf
  <2>. QED
    BY <2>1 DEF CardFor
<1>. HIDE DEF new, old
<1>. QED
  BY <1>5, <1>6, <1>7, <1>8 DEF Card

\* A card that breaks a rule in the list breaks one about classifications, or
\* has kept an image that does.
LEMMA BrokenExplained ==
  ASSUME NEW r, GoodRow(r), NEW list, list \in Seq(Card), PlaceIn(r, list) # 0,
         NEW t, Broken(r.kind, CardFor(r, list), t)
  PROVE  \/ ~Has(t.fruit, r.fruit)
         \/ \E v \in r.sweetType : ~Has(t.sweetType, v)
         \/ ~r.image /\ BadImage(r.kind, list[PlaceIn(r, list)].image)
<1>. DEFINE c == CardFor(r, list)
<1>1. /\ c.named = r.named /\ c.type = TypeOfKind[r.kind] /\ c.fruit = r.fruit
      /\ c.least = r.least /\ c.role = r.role /\ c.sweetType = r.sweetType
      /\ c.version = r.version
      /\ c.image = IF r.image THEN ImageURL(r.kind, "new") ELSE list[IndexIn(list, r.id)].image
  BY CardForFields
<1>2. ParsesAs(r.kind, c.id)
  BY PlaceFacts
<1>3. /\ r.named = TRUE /\ r.least \in Int /\ r.least >= 0
      /\ r.role \subseteq Roles /\ (r.role # {} => TypeOfKind[r.kind] = "yojo")
      /\ r.sweetType # {} <=> TypeOfKind[r.kind] = "sweet"
      /\ r.version \subseteq Versions
      /\ r.image \in BOOLEAN /\ (r.image = TRUE \/ r.id # NoID)
  BY DEF GoodRow
<1>. HIDE DEF c
<1>4. c.named
  BY <1>1, <1>3
<1>5. ~(c.least < 0)
  BY <1>1, <1>3
<1>6. ~BadRole(c)
  BY <1>1, <1>3 DEF BadRole
<1>7. BadSweetType(c, t.sweetType) => \E v \in r.sweetType : ~Has(t.sweetType, v)
  BY <1>1, <1>3 DEF BadSweetType
<1>8. BadImage(r.kind, c.image) => ~r.image /\ BadImage(r.kind, list[PlaceIn(r, list)].image)
  <2>1. CASE r.image = TRUE
    <3>1. c.image = ImageURL(r.kind, "new")
      BY <1>1, <2>1
    <3>2. ~BadImage(r.kind, ImageURL(r.kind, "new"))
      BY DEF BadImage, ImageURL
    <3>. QED
      BY <3>1, <3>2
  <2>2. CASE r.image = FALSE
    <3>1. PlaceIn(r, list) = IndexIn(list, r.id)
      BY <1>3, <2>2, PlaceFacts
    <3>. QED
      BY <1>1, <2>2, <3>1
  <2>. QED
    BY <1>3, <2>1, <2>2
<1>9. Broken(r.kind, c, t)
  BY DEF c
<1>. QED
  BY <1>1, <1>2, <1>3, <1>4, <1>5, <1>6, <1>7, <1>8, <1>9 DEF Broken

\* The list with the card in it.
LEMMA EditedFacts ==
  ASSUME NEW r, GoodRow(r), NEW list, list \in Seq(Card), PlaceIn(r, list) # 0
  PROVE  /\ Edited(r, list) \in Seq(Card)
         /\ DOMAIN Edited(r, list) = DOMAIN list \cup {PlaceIn(r, list)}
         /\ Edited(r, list)[PlaceIn(r, list)] = CardFor(r, list)
         /\ \A i \in DOMAIN list \ {PlaceIn(r, list)} : Edited(r, list)[i] = list[i]
<1>. DEFINE place == PlaceIn(r, list)
            e == Edited(r, list)
<1>1. /\ Len(list) \in Nat /\ DOMAIN list = 1..Len(list)
      /\ \A i \in DOMAIN list : list[i] \in Card
  BY LenProperties
<1>2. e = [i \in DOMAIN list \cup {place} |-> IF i = place THEN CardFor(r, list) ELSE list[i]]
  BY DEF Edited
<1>3. CardFor(r, list) \in Card
  BY CardForIsCard
<1>4. place \in DOMAIN list \/ place = Len(list) + 1
  BY PlaceFacts
<1>. HIDE DEF place, e
<1>5. e \in [DOMAIN list \cup {place} -> Card]
  BY <1>1, <1>2, <1>3
<1>6. \E n \in Nat : DOMAIN list \cup {place} = 1..n
  <2>1. CASE place \in DOMAIN list
    BY <1>1, <2>1
  <2>2. CASE place = Len(list) + 1
    <3>1. DOMAIN list \cup {place} = 1..(Len(list) + 1)
      BY <1>1, <2>2
    <3>. QED
      BY <1>1, <3>1
  <2>. QED
    BY <1>4, <2>1, <2>2
<1>7. e \in Seq(Card)
  BY <1>5, <1>6, SeqDef
<1>. QED
  BY <1>2, <1>7 DEF place, e

\* What can be wrong with the list afterwards was wrong with another card
\* before, or is wrong with this one.
LEMMA DatasetExplained ==
  ASSUME NEW r, GoodRow(r), NEW list, list \in Seq(Card), PlaceIn(r, list) # 0,
         NEW t, BrokenDataset(r.kind, Edited(r, list), t)
  PROVE  \/ Broken(r.kind, CardFor(r, list), t)
         \/ \E i \in DOMAIN list \ {PlaceIn(r, list)} : Broken(r.kind, list[i], t)
         \/ \E i, j \in DOMAIN list : i # j /\ list[i].id = list[j].id
<1>. DEFINE place == PlaceIn(r, list)
            e == Edited(r, list)
<1>1. /\ DOMAIN e = DOMAIN list \cup {place}
      /\ e[place] = CardFor(r, list)
      /\ \A i \in DOMAIN list \ {place} : e[i] = list[i]
  BY EditedFacts
<1>2. CASE \E i \in DOMAIN e : Broken(r.kind, e[i], t)
  BY <1>1, <1>2
<1>3. CASE \E i, j \in DOMAIN e : i # j /\ e[i].id = e[j].id
  <2>1. PICK i \in DOMAIN e, j \in DOMAIN e : i # j /\ j # place /\ e[i].id = e[j].id
    BY <1>3
  <2>2. j \in DOMAIN list /\ e[j] = list[j]
    BY <1>1, <2>1
  <2>3. CASE i # place
    BY <1>1, <2>1, <2>2, <2>3
  <2>4. CASE i = place
    <3>1. list[j].id = CardFor(r, list).id
      BY <1>1, <2>1, <2>2, <2>4
    <3>2. r.id # NoID
      BY <2>2, <3>1, PlaceFacts
    <3>3. CardFor(r, list).id = r.id
      BY <3>2, CardForFields
    <3>4. place \in DOMAIN list /\ list[place].id = r.id
      BY <3>2, PlaceFacts
    <3>. QED
      BY <2>1, <2>2, <2>4, <3>1, <3>3, <3>4
  <2>. QED
    BY <2>3, <2>4
<1>. QED
  BY <1>2, <1>3 DEF BrokenDataset

\* A draft that cannot be published: why.
LEMMA UnpublishableExplained ==
  ASSUME NEW r, GoodRow(r), NEW list, list \in Seq(Card), NEW t, ~Publishable(r, list, t)
  PROVE  \/ PlaceIn(r, list) = 0
         \/ ~Has(t.fruit, r.fruit)
         \/ \E v \in r.sweetType : ~Has(t.sweetType, v)
         \/ ~r.image /\ BadImage(r.kind, list[PlaceIn(r, list)].image)
         \/ \E i \in DOMAIN list \ {PlaceIn(r, list)} : Broken(r.kind, list[i], t)
         \/ \E i, j \in DOMAIN list : i # j /\ list[i].id = list[j].id
<1>. SUFFICES ASSUME PlaceIn(r, list) # 0
     PROVE  \/ ~Has(t.fruit, r.fruit)
            \/ \E v \in r.sweetType : ~Has(t.sweetType, v)
            \/ ~r.image /\ BadImage(r.kind, list[PlaceIn(r, list)].image)
            \/ \E i \in DOMAIN list \ {PlaceIn(r, list)} : Broken(r.kind, list[i], t)
            \/ \E i, j \in DOMAIN list : i # j /\ list[i].id = list[j].id
  OBVIOUS
<1>1. r.id = NoID \/ IndexIn(list, r.id) # 0
  BY DEF PlaceIn
<1>2. r.image \/ r.id # NoID
  BY DEF GoodRow
<1>3. Broken(r.kind, CardFor(r, list), t) \/ BrokenDataset(r.kind, Edited(r, list), t)
  BY <1>1, <1>2 DEF Publishable
<1>. QED
  BY <1>3, BrokenExplained, DatasetExplained

\* A form that the handler would not accept for its card would not be
\* published either.
LEMMA RejectedUnpublishable ==
  ASSUME NEW p \in Payload, NEW live, ~Accepts(p, live),
         ~BadNewFruit(p, live), ~BadNewSweetType(p, live),
         p.kind \in Kinds, p.image # "broken",
         NEW list
  PROVE  ~Publishable(RowOf(p), list, With(live, Defined(p)))
<1>. DEFINE t == With(live, Defined(p))
            c == BuildDraftCard(p)
            d == PlaceholderID(p.kind, c)
            r == RowOf(p)
            e == CardFor(r, list)
<1>. SUFFICES ASSUME Publishable(r, list, t) PROVE FALSE
  OBVIOUS
<1>1. (r.image \/ r.id # NoID) /\ ~Broken(r.kind, e, t)
  BY DEF Publishable
<1>2. /\ r.kind = p.kind /\ r.id = c.id /\ r.named = c.named /\ r.fruit = c.fruit
      /\ r.least = c.least /\ r.role = c.role /\ r.sweetType = c.sweetType
      /\ r.version = c.version /\ r.image = (p.image = "ok")
  BY RowFields
<1>3. /\ d.id = IF p.id = NoID THEN NextID(p.kind, <<>>) ELSE p.id
      /\ d.named = c.named /\ d.type = c.type /\ d.fruit = c.fruit /\ d.least = c.least
      /\ d.image = c.image /\ d.role = c.role /\ d.sweetType = c.sweetType
      /\ d.version = c.version
  BY PlaceholderFields
<1>4. /\ c.id = p.id /\ c.type = TypeOfKind[p.kind]
      /\ c.image = ImageURL(p.kind, IF p.image = "ok" THEN "new" ELSE "placeholder")
  BY DraftCardFields
<1>5. /\ e.id = IF r.id = NoID THEN NextID(r.kind, list) ELSE r.id
      /\ e.named = r.named /\ e.type = TypeOfKind[r.kind] /\ e.fruit = r.fruit
      /\ e.least = r.least /\ e.role = r.role /\ e.sweetType = r.sweetType
      /\ e.version = r.version
  BY CardForFields, ZenonT(30)
<1>6. p.image \in {"none", "ok", "broken"}
  BY DEF Payload
<1>7. p.image = "ok" \/ (p.image = "none" /\ p.id # NoID)
  BY <1>1, <1>2, <1>4, <1>6
<1>8. Broken(p.kind, d, t)
  BY <1>7 DEF Accepts
<1>9. <<>> \in Seq(Card)
  OBVIOUS
<1>10. ParsesAs(p.kind, NextID(p.kind, <<>>))
  BY <1>9, NextIDIsNew
<1>. HIDE DEF t, c, d, r, e
<1>11. /\ e.named = d.named /\ e.type = d.type /\ e.fruit = d.fruit /\ e.least = d.least
       /\ e.role = d.role /\ e.sweetType = d.sweetType /\ e.version = d.version
  BY <1>2, <1>3, <1>4, <1>5
<1>12. ParsesAs(r.kind, e.id) /\ r.kind = p.kind
  BY <1>1, <1>2 DEF Broken
<1>13. ParsesAs(p.kind, d.id)
  BY <1>2, <1>3, <1>4, <1>5, <1>10, <1>12
<1>14. ~BadImage(p.kind, d.image)
  BY <1>3, <1>4 DEF BadImage, ImageURL
<1>15. BadRole(d) <=> BadRole(e)
  BY <1>11 DEF BadRole
<1>16. BadSweetType(d, t.sweetType) <=> BadSweetType(e, t.sweetType)
  BY <1>11 DEF BadSweetType
<1>. QED
  BY <1>1, <1>8, <1>11, <1>12, <1>13, <1>14, <1>15, <1>16 DEF Broken

\* A file that can be read is read as it is.
LEMMA DecodedAsIs ==
  ASSUME NEW list, list \in Seq(Card)
  PROVE  /\ Decode(list) \in Seq(Card)
         /\ Decodable(list) => Decode(list) = list
<1>1. /\ Len(list) \in Nat /\ DOMAIN list = 1..Len(list)
      /\ \A i \in DOMAIN list : list[i] \in Card
      /\ list = [i \in DOMAIN list |-> list[i]]
  BY LenProperties
<1>. DEFINE plain(c) == [c EXCEPT !.extra = FALSE]
<1>2. ASSUME NEW c \in Card PROVE plain(c) \in Card /\ (c.extra = FALSE => plain(c) = c)
  BY ZenonT(30) DEF Card
<1>3. Decode(list) = [i \in DOMAIN list |-> plain(list[i])]
  BY DEF Decode
<1>4. ASSUME Decodable(list) PROVE \A i \in DOMAIN list : list[i].extra = FALSE
  <2>1. \A i \in DOMAIN list : list[i].extra \in BOOLEAN
    BY <1>1 DEF Card
  <2>2. \A i \in DOMAIN list : ~list[i].extra
    BY <1>4 DEF Decodable
  <2>. QED
    BY <2>1, <2>2
<1>. HIDE DEF plain
<1>5. Decode(list) \in Seq(Card)
  <2>1. Decode(list) \in [1..Len(list) -> Card]
    BY <1>1, <1>2, <1>3
  <2>2. Len(list) \in Nat
    BY <1>1
  <2>. QED
    BY <2>1, <2>2, SeqDef
<1>6. ASSUME Decodable(list) PROVE Decode(list) = list
  <2>1. \A i \in DOMAIN list : plain(list[i]) = list[i]
    BY <1>1, <1>2, <1>4, <1>6
  <2>. QED
    BY <1>1, <1>3, <2>1
<1>. QED
  BY <1>5, <1>6

-----------------------------------------------------------------------------
(* main, as a set of its possible contents.                                *)

Tables == UNION {[K -> Names] : K \in SUBSET Keys}
Mains == [schema : [Classes -> SUBSET Keys], names : [Classes -> Tables], list : Seq(Card)]

LEMMA MainsAreMain ==
  ASSUME NEW m
  PROVE  m \in Mains <=> IsMain(m)
<1>1. ASSUME NEW f PROVE f \in Tables <=> f \in [DOMAIN f -> Names] /\ DOMAIN f \subseteq Keys
  BY DEF Tables
<1>2. ASSUME NEW n
      PROVE  n \in [Classes -> Tables]
               <=> /\ n = [c \in Classes |-> n[c]]
                   /\ \A c \in Classes : n[c] \in Tables
  OBVIOUS
<1>3. m \in Mains <=> /\ m = [schema |-> m.schema, names |-> m.names, list |-> m.list]
                      /\ m.schema \in [Classes -> SUBSET Keys]
                      /\ m.names \in [Classes -> Tables]
                      /\ m.list \in Seq(Card)
  BY DEF Mains
<1>. QED
  BY <1>1, <1>2, <1>3 DEF IsMain

LEMMA OptionIsMain ==
  ASSUME NEW m \in Mains, NEW c \in Classes, NEW n \in Names, KeyOf[n] # NoKey
  PROVE  WithOption(m, c, n) \in Mains
<1>. DEFINE key == KeyOf[n]
            table == [v \in DOMAIN m.names[c] \cup {key} |-> IF v = key THEN n ELSE m.names[c][v]]
            schema == [m.schema EXCEPT ![c] = @ \cup {key}]
            names == [m.names EXCEPT ![c] = table]
<1>1. key \in Keys
  BY CardRulesAssumption DEF CardRulesAssumption
<1>2. m.schema \in [Classes -> SUBSET Keys] /\ m.names \in [Classes -> Tables] /\ m.list \in Seq(Card)
  BY DEF Mains
<1>3. WithOption(m, c, n) = [m EXCEPT !.schema = schema, !.names = names]
  BY DEF WithOption, Mains
<1>4. schema \in [Classes -> SUBSET Keys]
  BY <1>1, <1>2
<1>5. table \in Tables
  <2>1. m.names[c] \in Tables
    BY <1>2
  <2>2. PICK K \in SUBSET Keys : m.names[c] \in [K -> Names]
    BY <2>1 DEF Tables
  <2>3. table \in [K \cup {key} -> Names]
    BY <2>2
  <2>4. K \cup {key} \in SUBSET Keys
    BY <1>1, <2>2
  <2>. QED
    BY <2>3, <2>4 DEF Tables
<1>6. names \in [Classes -> Tables]
  BY <1>2, <1>5
<1>. QED
  BY <1>3, <1>4, <1>6 DEF Mains

LEMMA NoOptionIsMain ==
  ASSUME NEW m \in Mains, NEW c \in Classes, NEW v
  PROVE  WithoutOption(m, c, v) \in Mains
<1>. DEFINE table == [w \in DOMAIN m.names[c] \ {v} |-> m.names[c][w]]
            schema == [m.schema EXCEPT ![c] = @ \ {v}]
            names == [m.names EXCEPT ![c] = table]
<1>1. m.schema \in [Classes -> SUBSET Keys] /\ m.names \in [Classes -> Tables] /\ m.list \in Seq(Card)
  BY DEF Mains
<1>2. WithoutOption(m, c, v) = [m EXCEPT !.schema = schema, !.names = names]
  BY DEF WithoutOption, Mains
<1>3. schema \in [Classes -> SUBSET Keys]
  BY <1>1
<1>4. table \in Tables
  <2>1. m.names[c] \in Tables
    BY <1>1
  <2>2. PICK K \in SUBSET Keys : m.names[c] \in [K -> Names]
    BY <2>1 DEF Tables
  <2>3. table \in [K \ {v} -> Names]
    BY <2>2
  <2>. QED
    BY <2>3 DEF Tables
<1>5. names \in [Classes -> Tables]
  BY <1>1, <1>4
<1>. QED
  BY <1>2, <1>3, <1>5 DEF Mains

LEMMA CardIsMain ==
  ASSUME NEW m \in Mains, m.list # <<>>, NEW k \in Kinds,
         NEW id \in {m.list[1].id, NextID(k, m.list)}, NEW v \in m.schema.fruit
  PROVE  WithCard(m, k, id, v) \in Mains
<1>. DEFINE card == [m.list[1] EXCEPT !.id = id, !.fruit = v]
<1>1. m.schema \in [Classes -> SUBSET Keys] /\ m.list \in Seq(Card)
  BY DEF Mains
<1>2. m.list[1] \in Card
  BY <1>1, LenProperties
<1>3. id \in ID
  <2>1. m.list[1].id \in ID
    BY <1>2 DEF Card
  <2>. QED
    BY <1>1, <2>1, NextIDIsNew
<1>4. v \in Keys
  BY <1>1 DEF Classes
<1>5. card \in Card
  BY <1>2, <1>3, <1>4 DEF Card
<1>6. Append(m.list, card) \in Seq(Card)
  BY <1>1, <1>5, AppendProperties
<1>7. WithCard(m, k, id, v) = [m EXCEPT !.list = Append(m.list, card)]
  BY DEF WithCard
<1>. HIDE DEF card
<1>. QED
  BY <1>6, <1>7 DEF Mains

LEMMA CardChangeIsMain ==
  ASSUME NEW m \in Mains, NEW i \in DOMAIN m.list
  PROVE  /\ [m EXCEPT !.list = SubSeq(@, 1, i - 1) \o SubSeq(@, i + 1, Len(@))] \in Mains
         /\ WithPNG(m, i) \in Mains
         /\ WithExtra(m, i) \in Mains
<1>. DEFINE s == m.list
            png == [s EXCEPT ![i] = [s[i] EXCEPT !.image = [s[i].image EXCEPT !.webp = FALSE]]]
            extra == [s EXCEPT ![i] = [s[i] EXCEPT !.extra = TRUE]]
<1>1. /\ s \in Seq(Card) /\ Len(s) \in Nat /\ DOMAIN s = 1..Len(s)
      /\ \A j \in DOMAIN s : s[j] \in Card
  BY LenProperties DEF Mains
<1>2. \A t \in Seq(Card) : [m EXCEPT !.list = t] \in Mains
  BY DEF Mains
<1>3. SubSeq(s, 1, i - 1) \o SubSeq(s, i + 1, Len(s)) \in Seq(Card)
  <2>1. /\ i - 1 \in Int /\ i + 1 \in Int
        /\ \A j \in 1..(i - 1) : j \in 1..Len(s)
        /\ \A j \in (i + 1)..Len(s) : j \in 1..Len(s)
    BY <1>1
  <2>2. SubSeq(s, 1, i - 1) \in Seq(Card)
    BY <1>1, <2>1, SubSeqProperties
  <2>3. SubSeq(s, i + 1, Len(s)) \in Seq(Card)
    BY <1>1, <2>1, SubSeqProperties
  <2>. QED
    BY <2>2, <2>3, ConcatProperties
<1>4. png \in [1..Len(s) -> Card]
  <2>1. s[i] \in Card
    BY <1>1
  <2>. DEFINE image == [s[i].image EXCEPT !.webp = FALSE]
  <2>2. image \in [dir : {"yojo", "sweet", "playable"}, webp : BOOLEAN, name : Text]
    BY <2>1 DEF Card
  <2>. DEFINE card == [s[i] EXCEPT !.image = image]
  <2>3. card \in Card
    <3>. HIDE DEF image
    <3>. QED
      BY <2>1, <2>2 DEF Card
  <2>4. s \in [1..Len(s) -> Card]
    BY <1>1, LenProperties
  <2>5. \A x \in Card : [s EXCEPT ![i] = x] \in [1..Len(s) -> Card]
    BY <2>4
  <2>. HIDE DEF card
  <2>6. [s EXCEPT ![i] = card] \in [1..Len(s) -> Card]
    BY <2>3, <2>5
  <2>. QED
    BY <2>6 DEF card, image
<1>5. extra \in [1..Len(s) -> Card]
  <2>1. [s[i] EXCEPT !.extra = TRUE] \in Card
    BY <1>1, ZenonT(30) DEF Card
  <2>. QED
    BY <1>1, <2>1
<1>6. png \in Seq(Card) /\ extra \in Seq(Card)
  <2>. HIDE DEF png, extra
  <2>. QED
    BY <1>1, <1>4, <1>5, SeqDef
<1>7. WithPNG(m, i) = [m EXCEPT !.list = png]
  BY DEF WithPNG
<1>8. WithExtra(m, i) = [m EXCEPT !.list = extra]
  BY DEF WithExtra
<1>9. [m EXCEPT !.list = png] \in Mains /\ [m EXCEPT !.list = extra] \in Mains
  <2>. HIDE DEF png, extra
  <2>. QED
    BY <1>2, <1>6
<1>. QED
  BY <1>2, <1>3, <1>7, <1>8, <1>9

\* What people do to main leaves it a main.
LEMMA ChangeIsMain ==
  ASSUME NEW m \in Mains, NEW k \in Kinds, NEW next \in Change(m, k)
  PROVE  next \in Mains
<1>. DEFINE A == {WithOption(m, c, n) : c \in Classes, n \in {x \in Names : KeyOf[x] # NoKey}}
            B == UNION {{WithoutOption(m, c, v) : v \in m.schema[c]} : c \in Classes}
            C == {WithCard(m, k, id, v) : id \in {m.list[1].id, NextID(k, m.list)}, v \in m.schema.fruit}
            D == {[m EXCEPT !.list = SubSeq(@, 1, i - 1) \o SubSeq(@, i + 1, Len(@))] : i \in DOMAIN m.list}
            E == {WithPNG(m, i) : i \in DOMAIN m.list}
            F == {WithExtra(m, i) : i \in DOMAIN m.list}
<1>1. ASSUME next \in A PROVE next \in Mains
  BY <1>1, OptionIsMain
<1>2. ASSUME next \in B PROVE next \in Mains
  BY <1>2, NoOptionIsMain
<1>3. ASSUME m.list # <<>>, next \in C PROVE next \in Mains
  BY <1>3, CardIsMain
<1>4. ASSUME next \in D PROVE next \in Mains
  BY <1>4, CardChangeIsMain
<1>5. ASSUME next \in E PROVE next \in Mains
  BY <1>5, CardChangeIsMain
<1>6. ASSUME next \in F PROVE next \in Mains
  BY <1>6, CardChangeIsMain
<1>7. Change(m, k) = A \cup B \cup (IF m.list = <<>> THEN {} ELSE C) \cup D \cup E \cup F
  BY DEF Change
<1>. HIDE DEF A, B, C, D, E, F
<1>. QED
  BY <1>1, <1>2, <1>3, <1>4, <1>5, <1>6, <1>7

-----------------------------------------------------------------------------
(* The invariant: what was read from where, and what followed from it.     *)

FormTaxonomy == Taxonomy(commits[at.formSchema].schema, commits[at.formNames].names)
FileRead == commits[at.list].list

HistoryInv == commits \in Seq(Mains) /\ commits # <<>> /\ payload \in Payloads

ReadInv ==
  /\ at \in [DOMAIN Unread -> 0..Len(commits)]
  /\ at.formSchema <= at.formNames \/ at.formNames = 0
  /\ at.schema <= at.names \/ at.names = 0
  /\ at.names <= at.list \/ at.list = 0
  /\ at.formNames # 0 => at.formSchema # 0
  /\ \/ pc \in {"form", "failed"} /\ row = NoRow /\ at.formNames = 0
     \/ pc = "formNames" /\ row = NoRow /\ at.formSchema # 0 /\ at.formNames = 0
     \/ pc = "rejected" /\ row = NoRow /\ at.formNames # 0
     \/ pc = "queued" /\ row # NoRow /\ at.formNames # 0
     \/ pc = "names" /\ row # NoRow /\ at.formNames # 0 /\ at.schema # 0 /\ at.names = 0 /\ at.list = 0
     \/ pc = "list" /\ row # NoRow /\ at.formNames # 0 /\ at.schema # 0 /\ at.names # 0 /\ at.list = 0
     \/ pc = "refused" /\ row # NoRow /\ at.formNames # 0 /\ at.schema # 0 /\ at.names # 0
     \/ pc = "written" /\ row # NoRow /\ at.formNames # 0 /\ at.schema # 0 /\ at.names # 0 /\ at.list # 0

AcceptInv ==
  /\ row # NoRow => row = RowOf(payload) /\ Accepts(payload, FormTaxonomy)
  /\ pc = "rejected" => ~Accepts(payload, FormTaxonomy)

RefusedInv ==
  pc = "refused" =>
    \/ \E c \in Classes : Clashes(LiveTaxonomy[c], row.new[c])
    \/ /\ at.list # 0
       /\ \/ ~Decodable(FileRead)
          \/ ~Publishable(row, Decode(FileRead), With(LiveTaxonomy, row.new))

WrittenInv ==
  pc = "written" =>
    /\ Decodable(FileRead)
    /\ Publishable(row, Decode(FileRead), With(LiveTaxonomy, row.new))
    /\ written.list = Edited(row, Decode(FileRead))
    /\ written.index = PlaceIn(row, Decode(FileRead))

FormInv == HistoryInv /\ ReadInv /\ AcceptInv /\ RefusedInv /\ WrittenInv

LEMMA InitForm == Init => FormInv
<1>. SUFFICES ASSUME Init PROVE FormInv
  OBVIOUS
<1>. DEFINE m == FirstMain[KindIn(payload)]
<1>1. payload \in Payloads /\ commits = <<m>>
  BY DEF Init
<1>2. KindIn(payload) \in Kinds
  BY DEF KindIn, Kinds, TypeOfKind
<1>3. m \in Mains
  BY <1>2, MainsAreMain, DraftFormAssumption DEF DraftFormAssumption
<1>. HIDE DEF m
<1>4. commits \in Seq(Mains) /\ commits # <<>> /\ Len(commits) = 1
  BY <1>1, <1>3
<1>5. ReadInv
  BY <1>4 DEF Init, ReadInv, Unread
<1>. QED
  BY <1>1, <1>4, <1>5 DEF Init, FormInv, HistoryInv, AcceptInv, RefusedInv, WrittenInv

LEMMA CommitsFacts ==
  ASSUME HistoryInv
  PROVE  /\ Len(commits) \in Nat /\ Len(commits) # 0
         /\ DOMAIN commits = 1..Len(commits)
         /\ \A s \in 1..Len(commits) : commits[s] \in Mains
<1>1. /\ Len(commits) \in Nat /\ DOMAIN commits = 1..Len(commits)
      /\ \A s \in DOMAIN commits : commits[s] \in Mains
  BY LenProperties DEF HistoryInv
<1>2. Len(commits) # 0
  BY EmptySeq DEF HistoryInv
<1>. QED
  BY <1>1, <1>2

LEMMA FormSchemaStep ==
  ASSUME FormInv, FormReadsSchema
  PROVE  FormInv'
<1>1. Len(commits) \in Nat /\ Len(commits) # 0
  BY CommitsFacts DEF FormInv
<1>2. /\ pc = "form" /\ pc' = "formNames" /\ at' = [at EXCEPT !.formSchema = Len(commits)]
      /\ UNCHANGED <<commits, payload, row, written>>
  BY DEF FormReadsSchema, Read
<1>3. ReadInv'
  BY <1>1, <1>2 DEF FormInv, ReadInv, Unread
<1>4. row' = NoRow
  BY <1>2 DEF FormInv, ReadInv
<1>. QED
  BY <1>2, <1>3, <1>4 DEF FormInv, HistoryInv, AcceptInv, RefusedInv, WrittenInv

LEMMA FormNamesStep ==
  ASSUME FormInv, FormReadsNames
  PROVE  FormInv'
<1>. DEFINE ok == Accepts(payload, Taxonomy(commits[at.formSchema].schema, Main.names))
<1>1. Len(commits) \in Nat /\ Len(commits) # 0
  BY CommitsFacts DEF FormInv
<1>2. /\ pc = "formNames" /\ at' = [at EXCEPT !.formNames = Len(commits)]
      /\ UNCHANGED <<commits, payload, written>>
      /\ IF ok THEN row' = RowOf(payload) /\ pc' = "queued" ELSE pc' = "rejected" /\ row' = row
  BY DEF FormReadsNames, Read
<1>3. at.formSchema # 0 /\ row = NoRow /\ at'.formSchema = at.formSchema /\ at'.formNames = Len(commits)
  BY <1>2 DEF FormInv, ReadInv, Unread
<1>4. FormTaxonomy' = Taxonomy(commits[at.formSchema].schema, Main.names)
  BY <1>2, <1>3 DEF FormTaxonomy, Main
<1>5. RowOf(payload) # NoRow
  BY RowFields
<1>6. ReadInv'
  <2>. HIDE DEF ok
  <2>1. /\ at' \in [DOMAIN Unread -> 0..Len(commits)]
        /\ at'.formSchema <= at'.formNames
        /\ at'.schema <= at'.names \/ at'.names = 0
        /\ at'.names <= at'.list \/ at'.list = 0
    BY <1>1, <1>2 DEF FormInv, ReadInv, Unread
  <2>. QED
    BY <1>1, <1>2, <1>3, <1>5, <2>1 DEF ReadInv
<1>7. AcceptInv'
  BY <1>2, <1>3, <1>4 DEF AcceptInv
<1>. QED
  BY <1>2, <1>6, <1>7 DEF FormInv, HistoryInv, RefusedInv, WrittenInv

LEMMA PublishSchemaStep ==
  ASSUME FormInv, PublishReadsSchema
  PROVE  FormInv'
<1>1. Len(commits) \in Nat /\ Len(commits) # 0
  BY CommitsFacts DEF FormInv
<1>2. /\ pc \in {"queued", "refused"} /\ pc' = "names"
      /\ at' = [at EXCEPT !.schema = Len(commits), !.names = 0, !.list = 0]
      /\ UNCHANGED <<commits, payload, row, written>>
  BY DEF PublishReadsSchema
<1>3. at'.formSchema = at.formSchema /\ at'.formNames = at.formNames
  BY <1>2 DEF FormInv, ReadInv, Unread
<1>4. ReadInv'
  <2>1. /\ at' \in [DOMAIN Unread -> 0..Len(commits)]
        /\ at'.schema = Len(commits) /\ at'.names = 0 /\ at'.list = 0
    <3>1. DOMAIN Unread = {"formSchema", "formNames", "schema", "names", "list"}
      BY DEF Unread
    <3>2. at \in [DOMAIN Unread -> 0..Len(commits)]
      BY DEF FormInv, ReadInv
    <3>3. Len(commits) \in 0..Len(commits) /\ 0 \in 0..Len(commits)
      BY <1>1
    <3>4. at' \in [DOMAIN Unread -> 0..Len(commits)]
      BY <1>2, <3>2, <3>3
    <3>. QED
      BY <1>2, <3>1, <3>2, <3>4
  <2>2. /\ row # NoRow /\ at.formNames # 0 /\ at.formSchema # 0
        /\ at.formSchema <= at.formNames \/ at.formNames = 0
    BY <1>2 DEF FormInv, ReadInv
  <2>. QED
    BY <1>1, <1>2, <1>3, <2>1, <2>2 DEF ReadInv
<1>5. AcceptInv'
  BY <1>2, <1>3 DEF FormInv, AcceptInv, FormTaxonomy
<1>. QED
  BY <1>2, <1>4, <1>5 DEF FormInv, HistoryInv, RefusedInv, WrittenInv

LEMMA PublishNamesStep ==
  ASSUME FormInv, PublishReadsNames
  PROVE  FormInv'
<1>. DEFINE live == Taxonomy(commits[at.schema].schema, Main.names)
            clash == \E c \in Classes : Clashes(live[c], row.new[c])
<1>1. Len(commits) \in Nat /\ Len(commits) # 0
  BY CommitsFacts DEF FormInv
<1>2. /\ pc = "names" /\ pc' = (IF clash THEN "refused" ELSE "list")
      /\ at' = [at EXCEPT !.names = Len(commits)]
      /\ UNCHANGED <<commits, payload, row, written>>
  BY DEF PublishReadsNames, Read
<1>3. /\ at'.formSchema = at.formSchema /\ at'.formNames = at.formNames
      /\ at'.schema = at.schema /\ at'.names = Len(commits)
  BY <1>2 DEF FormInv, ReadInv, Unread
<1>4. LiveTaxonomy' = live
  BY <1>2, <1>3 DEF LiveTaxonomy, Main
<1>5. ReadInv'
  <2>. HIDE DEF clash
  <2>. QED
    BY <1>1, <1>2 DEF FormInv, ReadInv, Unread
<1>6. AcceptInv'
  <2>. HIDE DEF clash
  <2>. QED
    BY <1>2, <1>3 DEF FormInv, AcceptInv, FormTaxonomy
<1>7. RefusedInv'
  <2>1. pc' = "refused" => clash
    <3>. HIDE DEF clash
    <3>. QED
      BY <1>2
  <2>2. clash => \E c \in Classes : Clashes(LiveTaxonomy'[c], row'[ "new" ][c])
    BY <1>2, <1>4
  <2>. HIDE DEF clash
  <2>. QED
    BY <2>1, <2>2 DEF RefusedInv
<1>8. WrittenInv'
  <2>. HIDE DEF clash
  <2>. QED
    BY <1>2 DEF WrittenInv
<1>. QED
  BY <1>2, <1>5, <1>6, <1>7, <1>8 DEF FormInv, HistoryInv

LEMMA PublishListStep ==
  ASSUME FormInv, PublishReadsList
  PROVE  FormInv'
<1>. DEFINE list == Decode(Main.list)
            t == With(LiveTaxonomy, row.new)
            ok == Decodable(Main.list) /\ Publishable(row, list, t)
            changes == [c \in Classes |-> {o \in row.new[c] : ~Has(LiveTaxonomy[c], o.value)}]
<1>1. Len(commits) \in Nat /\ Len(commits) # 0
  BY CommitsFacts DEF FormInv
<1>2. /\ pc = "list" /\ at' = [at EXCEPT !.list = Len(commits)]
      /\ UNCHANGED <<commits, payload, row>>
      /\ IF ok
         THEN /\ written' = [list |-> Edited(row, list), index |-> PlaceIn(row, list), changes |-> changes]
              /\ pc' = "written"
         ELSE pc' = "refused" /\ written' = written
  BY DEF PublishReadsList, Read
<1>3. /\ at'.formSchema = at.formSchema /\ at'.formNames = at.formNames
      /\ at'.schema = at.schema /\ at'.names = at.names /\ at'.list = Len(commits)
  BY <1>2 DEF FormInv, ReadInv, Unread
<1>4. LiveTaxonomy' = LiveTaxonomy /\ FileRead' = Main.list
  BY <1>2, <1>3 DEF LiveTaxonomy, FileRead, Main
<1>. HIDE DEF changes
<1>5. ReadInv'
  <2>. HIDE DEF ok, list
  <2>1. /\ at' \in [DOMAIN Unread -> 0..Len(commits)]
        /\ at'.formSchema <= at'.formNames \/ at'.formNames = 0
        /\ at'.schema <= at'.names \/ at'.names = 0
        /\ at'.names <= at'.list
    BY <1>1, <1>2 DEF FormInv, ReadInv, Unread
  <2>2. row # NoRow /\ at.formNames # 0 /\ at.formSchema # 0 /\ at.schema # 0 /\ at.names # 0
    BY <1>2 DEF FormInv, ReadInv
  <2>. QED
    BY <1>1, <1>2, <1>3, <2>1, <2>2 DEF ReadInv
<1>6. AcceptInv'
  <2>. HIDE DEF ok, list
  <2>. QED
    BY <1>2, <1>3 DEF FormInv, AcceptInv, FormTaxonomy
<1>7. RefusedInv'
  <2>1. pc' = "refused" => ~ok
    <3>. HIDE DEF ok, list
    <3>. QED
      BY <1>2
  <2>2. at'.list # 0
    BY <1>1, <1>3
  <2>. QED
    BY <1>2, <1>4, <2>1, <2>2 DEF RefusedInv
<1>8. WrittenInv'
  <2>. SUFFICES ASSUME pc' = "written" PROVE WrittenInv'
    BY DEF WrittenInv
  <2>1. ok /\ written'.list = Edited(row, list) /\ written'.index = PlaceIn(row, list)
    <3>. HIDE DEF ok, list
    <3>. QED
      BY <1>2
  <2>. QED
    BY <1>2, <1>4, <2>1 DEF WrittenInv
<1>. QED
  BY <1>2, <1>5, <1>6, <1>7, <1>8 DEF FormInv, HistoryInv

LEMMA FailStep ==
  ASSUME FormInv, Fails
  PROVE  FormInv'
<1>1. /\ pc \in {"form", "formNames", "names", "list"}
      /\ pc' = (IF row = NoRow THEN "failed" ELSE "queued")
      /\ UNCHANGED <<commits, payload, row, at, written>>
  BY DEF Fails
<1>2. ReadInv'
  BY <1>1 DEF FormInv, ReadInv
<1>. QED
  BY <1>1, <1>2 DEF FormInv, HistoryInv, AcceptInv, FormTaxonomy, RefusedInv, WrittenInv

LEMMA ChangeStep ==
  ASSUME FormInv, MainChanges
  PROVE  FormInv'
<1>1. /\ pc \notin {"rejected", "failed", "written"}
      /\ UNCHANGED <<payload, row, pc, at, written>>
  BY DEF MainChanges
<1>2. PICK m \in Change(Main, KindIn(payload)) : commits' = Append(commits, m)
  BY DEF MainChanges
<1>3. /\ Len(commits) \in Nat /\ Len(commits) # 0
      /\ \A s \in 1..Len(commits) : commits[s] \in Mains
      /\ commits \in Seq(Mains)
  BY CommitsFacts DEF FormInv, HistoryInv
<1>4. m \in Mains
  <2>1. KindIn(payload) \in Kinds
    BY DEF KindIn, Kinds, TypeOfKind
  <2>2. Main \in Mains
    BY <1>3 DEF Main
  <2>. QED
    BY <1>2, <2>1, <2>2, ChangeIsMain
<1>5. /\ commits' \in Seq(Mains) /\ commits' # <<>>
      /\ Len(commits') = Len(commits) + 1
      /\ \A s \in 1..Len(commits) : commits'[s] = commits[s]
  BY <1>2, <1>3, <1>4, AppendFacts
<1>6. at \in [DOMAIN Unread -> 0..Len(commits)]
  BY DEF FormInv, ReadInv
<1>7. /\ at.formSchema # 0 => commits'[at.formSchema] = commits[at.formSchema]
      /\ at.formNames # 0 => commits'[at.formNames] = commits[at.formNames]
      /\ at.schema # 0 => commits'[at.schema] = commits[at.schema]
      /\ at.names # 0 => commits'[at.names] = commits[at.names]
      /\ at.list # 0 => commits'[at.list] = commits[at.list]
  BY <1>3, <1>5, <1>6 DEF Unread
<1>8. ReadInv'
  <2>1. at' \in [DOMAIN Unread -> 0..Len(commits')]
    BY <1>1, <1>3, <1>5, <1>6
  <2>. QED
    BY <1>1, <2>1 DEF FormInv, ReadInv
<1>9. AcceptInv'
  <2>1. row # NoRow => at.formSchema # 0 /\ at.formNames # 0
    BY DEF FormInv, ReadInv
  <2>2. row # NoRow => FormTaxonomy' = FormTaxonomy
    BY <1>1, <1>7, <2>1 DEF FormTaxonomy
  <2>. QED
    BY <1>1, <2>2 DEF FormInv, AcceptInv
<1>10. RefusedInv'
  <2>. SUFFICES ASSUME pc = "refused" PROVE RefusedInv'
    BY <1>1 DEF RefusedInv
  <2>1. at.schema # 0 /\ at.names # 0
    BY DEF FormInv, ReadInv
  <2>2. LiveTaxonomy' = LiveTaxonomy
    BY <1>1, <1>7, <2>1 DEF LiveTaxonomy
  <2>3. at.list # 0 => FileRead' = FileRead
    BY <1>1, <1>7 DEF FileRead
  <2>. QED
    BY <1>1, <2>2, <2>3 DEF FormInv, RefusedInv
<1>11. WrittenInv'
  BY <1>1 DEF WrittenInv
<1>. QED
  BY <1>1, <1>5, <1>8, <1>9, <1>10, <1>11 DEF FormInv, HistoryInv

LEMMA FormInvariant == Spec => []FormInv
<1>1. Init => FormInv
  BY InitForm
<1>2. FormInv /\ [Next]_vars => FormInv'
  <2>1. ASSUME FormInv, Next PROVE FormInv'
    BY <2>1, FormSchemaStep, FormNamesStep, PublishSchemaStep, PublishNamesStep, PublishListStep,
       FailStep, ChangeStep DEF Next
  <2>2. ASSUME FormInv, UNCHANGED vars PROVE FormInv'
    BY <2>2 DEF vars, FormInv, HistoryInv, ReadInv, AcceptInv, RefusedInv, WrittenInv, FormTaxonomy,
       LiveTaxonomy, FileRead
  <2>. QED
    BY <2>1, <2>2
<1>. QED
  BY <1>1, <1>2, PTL DEF Spec

-----------------------------------------------------------------------------
(* The theorems.                                                           *)

\* What the file looked like to the publisher.
LEMMA FileFacts ==
  ASSUME FormInv, at.list # 0
  PROVE  /\ FileRead \in Seq(Card)
         /\ Decode(FileRead) \in Seq(Card)
         /\ Decodable(FileRead) => Decode(FileRead) = FileRead
<1>1. at.list \in 1..Len(commits)
  BY CommitsFacts DEF FormInv, ReadInv, Unread
<1>2. commits[at.list] \in Mains
  BY <1>1, CommitsFacts DEF FormInv
<1>3. FileRead \in Seq(Card)
  BY <1>2 DEF FileRead, Mains
<1>. QED
  BY <1>3, DecodedAsIs

\* A draft in the queue is in order by itself.
LEMMA DraftIsGood ==
  ASSUME FormInv, row # NoRow
  PROVE  GoodRow(row) /\ row = RowOf(payload) /\ payload \in Payload
<1>1. at.formSchema \in 1..Len(commits)
  BY CommitsFacts DEF FormInv, ReadInv, Unread
<1>2. commits[at.formSchema] \in Mains
  BY <1>1, CommitsFacts DEF FormInv
<1>3. commits[at.formSchema].schema \in [Classes -> SUBSET Keys]
  BY <1>2 DEF Mains
<1>4. payload \in Payload
  BY DraftFormAssumption DEF DraftFormAssumption, FormInv, HistoryInv
<1>5. row = RowOf(payload) /\ Accepts(payload, FormTaxonomy)
  BY DEF FormInv, AcceptInv
<1>. QED
  BY <1>3, <1>4, <1>5, AcceptedRow DEF FormTaxonomy

\* A card that is written has a place in the list.
LEMMA WrittenFacts ==
  ASSUME FormInv, pc = "written"
  PROVE  /\ GoodRow(row) /\ row = RowOf(payload) /\ payload \in Payload
         /\ FileRead \in Seq(Card)
         /\ PlaceIn(row, FileRead) # 0
         /\ written.list = Edited(row, FileRead)
         /\ written.index = PlaceIn(row, FileRead)
<1>1. row # NoRow /\ at.list # 0
  BY DEF FormInv, ReadInv
<1>2. GoodRow(row) /\ row = RowOf(payload) /\ payload \in Payload
  BY <1>1, DraftIsGood
<1>3. FileRead \in Seq(Card) /\ Decode(FileRead) = FileRead
  BY <1>1, FileFacts DEF FormInv, WrittenInv
<1>4. /\ Publishable(row, FileRead, With(LiveTaxonomy, row.new))
      /\ written.list = Edited(row, FileRead)
      /\ written.index = PlaceIn(row, FileRead)
  BY <1>3 DEF FormInv, WrittenInv
<1>5. PlaceIn(row, FileRead) # 0
  <2>1. row.id = NoID \/ IndexIn(FileRead, row.id) # 0
    BY <1>4 DEF Publishable
  <2>2. Len(FileRead) \in Nat
    BY <1>3, LenProperties
  <2>. QED
    BY <2>1, <2>2 DEF PlaceIn
<1>. QED
  BY <1>2, <1>3, <1>4, <1>5

\* main stays a main, a draft has a valid text, numbers, role and version, and
\* the files are read in the order of the code: TypeOK.
THEOREM FormTypeCorrect == Spec => []TypeOK
<1>1. FormInv => TypeOK
  <2>. SUFFICES ASSUME FormInv PROVE TypeOK
    OBVIOUS
  <2>1. commits # <<>> /\ \A s \in DOMAIN commits : IsMain(commits[s])
    BY CommitsFacts, MainsAreMain DEF FormInv, HistoryInv
  <2>2. pc \in {"form", "formNames", "rejected", "failed", "queued", "names", "list", "refused",
                "written"}
    BY DEF FormInv, ReadInv
  <2>3. row # NoRow =>
          /\ row.kind \in Kinds /\ row.named /\ row.least >= 0 /\ row.fruit \in Keys
          /\ row.id # NoID => ParsesAs(row.kind, row.id)
          /\ row.role \subseteq Roles /\ row.version \subseteq Versions /\ row.sweetType \subseteq Keys
          /\ \A c \in Classes : row.new[c] \subseteq Option
    BY DraftIsGood DEF GoodRow
  <2>4. ASSUME pc = "written" PROVE written.list \in Seq(Card)
    <3>1. /\ GoodRow(row) /\ FileRead \in Seq(Card) /\ PlaceIn(row, FileRead) # 0
          /\ written.list = Edited(row, FileRead)
      BY <2>4, WrittenFacts
    <3>2. Edited(row, FileRead) \in Seq(Card)
      BY <3>1, EditedFacts
    <3>. QED
      BY <3>1, <3>2
  <2>5. /\ at \in [DOMAIN Unread -> 0..Len(commits)]
        /\ at.formSchema <= at.formNames \/ at.formNames = 0
        /\ at.schema <= at.names \/ at.names = 0
        /\ at.names <= at.list \/ at.list = 0
    BY DEF FormInv, ReadInv
  <2>. HIDE DEF FormInv
  <2>. QED
    BY <2>1, <2>2, <2>3, <2>4, <2>5 DEF TypeOK
<1>. QED
  BY <1>1, FormInvariant, PTL

\* The form decides as if both files were of one commit: TornReadHarmless.
THEOREM TornReadsHarmless == Spec => []TornReadHarmless
<1>1. FormInv => TornReadHarmless
  <2>. SUFFICES ASSUME FormInv, at.formNames # 0
       PROVE  row # NoRow <=> Accepts(payload, Taxonomy(commits[at.formSchema].schema,
                                                        commits[at.formSchema].names))
    BY DEF TornReadHarmless
  <2>1. pc = "rejected" \/ row # NoRow
    BY DEF FormInv, ReadInv
  <2>2. pc = "rejected" => row = NoRow
    BY DEF FormInv, ReadInv
  <2>3. row # NoRow <=> Accepts(payload, FormTaxonomy)
    BY <2>1, <2>2 DEF FormInv, AcceptInv
  <2>. QED
    BY <2>3, SameAcceptance DEF FormTaxonomy
<1>. QED
  BY <1>1, FormInvariant, PTL

\* The rest of the file is written back as it was read: OthersKept.
THEOREM OthersAreKept == Spec => []OthersKept
<1>1. FormInv => OthersKept
  <2>. SUFFICES ASSUME FormInv, pc = "written", NEW i \in DOMAIN FileRead \ {written.index}
       PROVE  written.list[i] = FileRead[i]
    BY DEF OthersKept, FileRead
  <2>1. /\ GoodRow(row) /\ FileRead \in Seq(Card) /\ PlaceIn(row, FileRead) # 0
        /\ written.list = Edited(row, FileRead) /\ written.index = PlaceIn(row, FileRead)
    BY WrittenFacts
  <2>2. \A j \in DOMAIN FileRead \ {PlaceIn(row, FileRead)} : Edited(row, FileRead)[j] = FileRead[j]
    BY <2>1, EditedFacts
  <2>. QED
    BY <2>1, <2>2
<1>. QED
  BY <1>1, FormInvariant, PTL

\* What is in the form is what is written: ArrivesAsValidated.
THEOREM FormsArrive == Spec => []ArrivesAsValidated
<1>1. FormInv => ArrivesAsValidated
  <2>. SUFFICES ASSUME FormInv, pc = "written" PROVE ArrivesAsValidated
    BY DEF ArrivesAsValidated
  <2>. DEFINE c == written.list[written.index]
              form == BuildDraftCard(payload)
  <2>1. /\ GoodRow(row) /\ row = RowOf(payload) /\ payload \in Payload
        /\ FileRead \in Seq(Card) /\ PlaceIn(row, FileRead) # 0
        /\ c = CardFor(row, FileRead)
    <3>1. /\ GoodRow(row) /\ row = RowOf(payload) /\ payload \in Payload
          /\ FileRead \in Seq(Card) /\ PlaceIn(row, FileRead) # 0
          /\ written.list = Edited(row, FileRead) /\ written.index = PlaceIn(row, FileRead)
      BY WrittenFacts
    <3>2. Edited(row, FileRead)[PlaceIn(row, FileRead)] = CardFor(row, FileRead)
      BY <3>1, EditedFacts
    <3>. QED
      BY <3>1, <3>2
  <2>2. /\ row.kind = payload.kind /\ row.id = form.id /\ row.named = form.named
        /\ row.fruit = form.fruit /\ row.least = form.least /\ row.effect = form.effect
        /\ row.role = form.role /\ row.sweetType = form.sweetType /\ row.version = form.version
    BY <2>1, RowFields
  <2>3. /\ form.id = payload.id /\ form.type = TypeOfKind[payload.kind] /\ form.extra = FALSE
        /\ form.effect = IF payload.effect = {} THEN {""} ELSE payload.effect
        /\ form.role = IF TypeOfKind[payload.kind] = "yojo" /\ payload.role = {}
                       THEN {""} ELSE payload.role
        /\ form.sweetType = IF payload.kind = "sweet" /\ Chosen(payload).sweetType = {}
                            THEN {""} ELSE Chosen(payload).sweetType
        /\ form.version = IF payload.kind = "playable" /\ payload.version = {}
                          THEN {"normal"} ELSE payload.version
    BY <2>1, DraftCardFields
  <2>4. row.id = NoID => \A i \in DOMAIN FileRead : FileRead[i].id # c.id
    BY <2>1, PlaceFacts
  <2>. HIDE DEF c, form
  <2>5. /\ c.id = IF row.id = NoID THEN NextID(row.kind, FileRead) ELSE row.id
        /\ c.named = row.named /\ c.type = TypeOfKind[row.kind] /\ c.fruit = row.fruit
        /\ c.least = row.least /\ c.effect = row.effect /\ c.role = row.role
        /\ c.sweetType = row.sweetType /\ c.version = row.version /\ c.extra = FALSE
        /\ DOMAIN c = {"id", "named", "type", "fruit", "least", "image", "effect", "role",
                       "sweetType", "version", "extra"}
    <3>1. c = CardFor(row, FileRead)
      BY <2>1
    <3>. QED
      BY <3>1, CardForFields, ZenonT(30)
  <2>6. \A f \in DOMAIN c \ {"id", "image"} : c[f] = form[f]
    BY <2>2, <2>3, <2>5
  <2>7. IF payload.id # NoID
        THEN c.id = payload.id
        ELSE \A i \in DOMAIN commits[at.list].list : commits[at.list].list[i].id # c.id
    BY <2>2, <2>3, <2>4, <2>5 DEF FileRead
  <2>8. /\ c.effect # {}
        /\ payload.kind \in {"yojo", "tokenYojo"} => c.role # {}
        /\ payload.kind = "sweet" => c.sweetType # {}
        /\ payload.kind = "playable" => c.version # {}
    <3>1. TypeOfKind["yojo"] = "yojo" /\ TypeOfKind["tokenYojo"] = "yojo"
      BY DEF TypeOfKind
    <3>2. c.effect = form.effect /\ c.role = form.role /\ c.sweetType = form.sweetType
          /\ c.version = form.version
      BY <2>2, <2>5
    <3>3. \A s \in {"", "normal"} : {s} # {}
      OBVIOUS
    <3>4. c.effect # {}
      BY <2>3, <3>2, <3>3
    <3>5. payload.kind \in {"yojo", "tokenYojo"} => c.role # {}
      BY <2>3, <3>1, <3>2, <3>3
    <3>6. payload.kind = "sweet" => c.sweetType # {}
      BY <2>3, <3>2, <3>3
    <3>7. payload.kind = "playable" => c.version # {}
      BY <2>3, <3>2, <3>3
    <3>. QED
      BY <3>4, <3>5, <3>6, <3>7
  <2>. QED
    BY <2>6, <2>7, <2>8 DEF ArrivesAsValidated, c, form
<1>. QED
  BY <1>1, FormInvariant, PTL

\* A draft is refused only for what happened to main: RefusalsExplained.
THEOREM RefusalsAreExplained == Spec => []RefusalsExplained
<1>1. FormInv => RefusalsExplained
  <2>. SUFFICES ASSUME FormInv, pc = "refused" PROVE RefusalsExplained
    BY DEF RefusalsExplained
  <2>. DEFINE t == With(LiveTaxonomy, row.new)
              clash == \E c \in Classes : Clashes(LiveTaxonomy[c], row.new[c])
              unfit(list) ==
                \/ PlaceIn(row, list) = 0
                \/ ~Has(t.fruit, row.fruit)
                \/ \E v \in row.sweetType : ~Has(t.sweetType, v)
                \/ ~row.image /\ BadImage(row.kind, list[PlaceIn(row, list)].image)
                \/ \E i \in DOMAIN list \ {PlaceIn(row, list)} : Broken(row.kind, list[i], t)
                \/ \E i, j \in DOMAIN list : i # j /\ list[i].id = list[j].id
  <2>1. GoodRow(row)
    BY DraftIsGood DEF FormInv, ReadInv
  <2>2. clash \/ (at.list # 0 /\ (~Decodable(FileRead) \/ ~Publishable(row, Decode(FileRead), t)))
    BY DEF FormInv, RefusedInv
  <2>3. ~Decodable(FileRead) => \E i \in DOMAIN FileRead : FileRead[i].extra
    BY DEF Decodable
  <2>4. ASSUME at.list # 0, Decodable(FileRead), ~Publishable(row, Decode(FileRead), t)
        PROVE  unfit(FileRead)
    <3>1. FileRead \in Seq(Card) /\ Decode(FileRead) = FileRead
      BY <2>4, FileFacts
    <3>2. ~Publishable(row, FileRead, t)
      BY <2>4, <3>1
    <3>. HIDE DEF t
    <3>. QED
      BY <2>1, <3>1, <3>2, UnpublishableExplained
  <2>5. clash \/ (at.list # 0 /\ ((\E i \in DOMAIN FileRead : FileRead[i].extra) \/ unfit(FileRead)))
    <3>. HIDE DEF clash, unfit, t
    <3>. QED
      BY <2>2, <2>3, <2>4
  <2>. QED
    BY <2>5 DEF RefusalsExplained, FileRead
<1>. QED
  BY <1>1, FormInvariant, PTL

\* What the form rejects could not have been published: RejectionsNeeded.
THEOREM RejectionsAreNeeded == Spec => []RejectionsNeeded
<1>1. FormInv => RejectionsNeeded
  <2>. SUFFICES ASSUME FormInv, pc = "rejected" PROVE RejectionsNeeded
    BY DEF RejectionsNeeded
  <2>. DEFINE m == commits[at.formSchema]
              live == Taxonomy(m.schema, m.names)
  <2>1. payload \in Payload
    BY DraftFormAssumption DEF DraftFormAssumption, FormInv, HistoryInv
  <2>2. ~Accepts(payload, FormTaxonomy)
    BY DEF FormInv, AcceptInv
  <2>3. ~Accepts(payload, live)
    BY <2>2, SameAcceptance DEF FormTaxonomy
  <2>. HIDE DEF m, live
  <2>4. \/ BadNewFruit(payload, live) \/ BadNewSweetType(payload, live)
        \/ payload.kind \notin Kinds
        \/ payload.image = "broken"
        \/ ~Publishable(RowOf(payload), Decode(m.list), With(live, Defined(payload)))
    BY <2>1, <2>3, RejectedUnpublishable
  <2>. QED
    BY <2>4 DEF RejectionsNeeded, m, live
<1>. QED
  BY <1>1, FormInvariant, PTL

=============================================================================
