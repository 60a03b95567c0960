------------------------------ MODULE DraftForm ------------------------------
(***************************************************************************)
(* The way of one card from the form to a dataset file: handleCreateDraft  *)
(* accepts it into the queue or rejects it, and PublishBatch, later and as *)
(* often as it is tried, validates it again and writes the dataset.  Both  *)
(* read main file by file while people change it.  How drafts are queued,  *)
(* batched and put into pull requests is in Submit.                        *)
(*                                                                         *)
(* main is kept as far as this card reads it: the schema and the names of  *)
(* the classifications, and the dataset of the card's kind.                *)
(***************************************************************************)
EXTENDS CardRules

CONSTANTS
  Text,             \* what people may write into a field
  Payloads,         \* what people put into the form
  FirstMain,        \* main at the start, for each kind
  MaxChanges        \* a bound on the changes of main, for TLC

\* What the form sends; of text that is given it matters only that it is, and
\* new classifications are names.
Payload ==
  [kind : Text, id : ID, named : BOOLEAN, least : Int, fruit : Keys, effect : SUBSET Text,
   role : SUBSET Text, sweetType : SUBSET Keys, version : SUBSET Text,
   newFruit : SUBSET Names, newSweetType : SUBSET Names, image : {"none", "ok", "broken"}]

Card ==
  [id : ID, named : BOOLEAN, type : {"yojo", "sweet", "playable"}, fruit : Keys, least : Int,
   image : [dir : {"yojo", "sweet", "playable"}, webp : BOOLEAN, name : Text],
   effect : SUBSET Text, role : SUBSET Text, sweetType : SUBSET Keys,
   version : SUBSET Text, extra : BOOLEAN]

IsMain(m) ==
  /\ m = [schema |-> m.schema, names |-> m.names, list |-> m.list]
  /\ m.schema \in [Classes -> SUBSET Keys]
  /\ m.names = [c \in Classes |-> m.names[c]]
  /\ \A c \in Classes : m.names[c] \in [DOMAIN m.names[c] -> Names] /\ DOMAIN m.names[c] \subseteq Keys
  /\ m.list \in Seq(Card)

OneValueEach(p) ==
  \A f \in {"effect", "role", "sweetType", "version", "newFruit", "newSweetType"} :
    Cardinality(p[f]) <= 1

ASSUME DraftFormAssumption ==
  /\ {"", "none", "new", "placeholder"} \cup Roles \cup Versions \subseteq Text
  /\ Payloads \subseteq Payload
  /\ \A p \in Payloads : OneValueEach(p)
  /\ \A k \in Kinds : IsMain(FirstMain[k])
  /\ MaxChanges \in Nat

VARIABLES
  commits,          \* the history of main
  payload,          \* what is in the form
  row,              \* the draft, once there is one
  pc,               \* how far the card is
  at,               \* the commits that the files were read from, 0 if not yet
  written           \* the dataset that the publisher wrote, and the new options

vars == <<commits, payload, row, pc, at, written>>

Main == commits[Len(commits)]

Unread == [formSchema |-> 0, formNames |-> 0, schema |-> 0, names |-> 0, list |-> 0]
Nothing == [list |-> <<>>, changes |-> [c \in Classes |-> {}], index |-> 0]
NoRow == [none |-> TRUE]

KindIn(p) == IF p.kind \in Kinds THEN p.kind ELSE "yojo"

Init ==
  /\ payload \in Payloads
  /\ commits = <<FirstMain[KindIn(payload)]>>
  /\ row = NoRow
  /\ pc = "form"
  /\ at = Unread
  /\ written = Nothing

Read(file) == at' = [at EXCEPT ![file] = Len(commits)]

-----------------------------------------------------------------------------
(* The form.                                                               *)

\* What is wrong with the classifications that the form defines.
BadNewFruit(p, live) ==
  \E n \in p.newFruit : KeyOf[n] = NoKey \/ Has(live.fruit, KeyOf[n])

BadNewSweetType(p, live) ==
  \E n \in p.newSweetType :
    p.kind # "sweet" \/ KeyOf[n] = NoKey \/ Has(live.sweetType, KeyOf[n])

\* The options it defines, and the form with them chosen.
Defined(p) ==
  [fruit |-> {NewOption(n) : n \in p.newFruit},
   sweetType |-> {NewOption(n) : n \in p.newSweetType}]

Chosen(p) ==
  [p EXCEPT !.fruit = IF p.newFruit = {} THEN @ ELSE CHOOSE k \in {KeyOf[n] : n \in p.newFruit} : TRUE,
            !.sweetType = IF p.newSweetType = {} THEN @ ELSE {KeyOf[n] : n \in p.newSweetType}]

\* The card of the form, with an image of its own or one that stands for the
\* card's present image.
BuildDraftCard(p) ==
  LET c == Chosen(p) IN
  WithDefaults(p.kind,
    [id |-> p.id, named |-> p.named, type |-> TypeOfKind[p.kind], fruit |-> c.fruit,
     least |-> p.least, image |-> ImageURL(p.kind, IF p.image = "ok" THEN "new" ELSE "placeholder"),
     effect |-> p.effect, role |-> p.role, sweetType |-> c.sweetType, version |-> p.version,
     extra |-> FALSE])

\* (Mutant: the ID of a new card is missed.)
IDAsItIs(k, c) == c

\* A new card is validated under an ID that is as good as another.
PlaceholderID(k, c) == IF c.id = NoID THEN [c EXCEPT !.id = NextID(k, <<>>)] ELSE c

\* (Mutant: what is edited is not validated.)
AcceptsEdits(p, live) ==
  /\ ~BadNewFruit(p, live) /\ ~BadNewSweetType(p, live)
  /\ p.kind \in Kinds
  /\ p.image = "ok" \/ (p.image = "none" /\ p.id # NoID)
  /\ \/ p.id # NoID
     \/ ~Broken(p.kind, PlaceholderID(p.kind, BuildDraftCard(p)), With(live, Defined(p)))

\* The handler's checks in a row.  An image is needed for a new card, and
\* one that cannot be converted is never accepted.
Accepts(p, live) ==
  /\ ~BadNewFruit(p, live) /\ ~BadNewSweetType(p, live)
  /\ p.kind \in Kinds
  /\ p.image = "ok" \/ (p.image = "none" /\ p.id # NoID)
  /\ ~Broken(p.kind, PlaceholderID(p.kind, BuildDraftCard(p)), With(live, Defined(p)))

\* The row that is saved: no type and no path of an image, which the
\* publisher finds again.
RowOf(p) ==
  LET c == BuildDraftCard(p) IN
  [kind |-> p.kind, id |-> c.id, named |-> c.named, fruit |-> c.fruit, least |-> c.least,
   effect |-> c.effect, role |-> c.role, sweetType |-> c.sweetType, version |-> c.version,
   new |-> Defined(p), image |-> p.image = "ok"]

FormReadsSchema ==
  /\ pc = "form"
  /\ Read("formSchema")
  /\ pc' = "formNames"
  /\ UNCHANGED <<commits, payload, row, written>>

\* The rest of the handler depends on no other file.
FormReadsNames ==
  /\ pc = "formNames"
  /\ Read("formNames")
  /\ IF Accepts(payload, Taxonomy(commits[at.formSchema].schema, Main.names))
     THEN row' = RowOf(payload) /\ pc' = "queued"
     ELSE pc' = "rejected" /\ UNCHANGED row
  /\ UNCHANGED <<commits, payload, written>>

-----------------------------------------------------------------------------
(* Publishing.                                                             *)

\* (Mutant: the version is not taken over.)
CardOfLessVersion(r) ==
  [id |-> r.id, named |-> r.named, type |-> TypeOfKind[r.kind], fruit |-> r.fruit,
   least |-> r.least, image |-> ImageURL(r.kind, "none"), effect |-> r.effect, role |-> r.role,
   sweetType |-> r.sweetType, version |-> {}, extra |-> FALSE]

\* The card of a row, before it has its image.
CardOf(r) ==
  [id |-> r.id, named |-> r.named, type |-> TypeOfKind[r.kind], fruit |-> r.fruit,
   least |-> r.least, image |-> ImageURL(r.kind, "none"), effect |-> r.effect, role |-> r.role,
   sweetType |-> r.sweetType, version |-> r.version, extra |-> FALSE]

\* Where the list has the card, the first if there are several; else 0.
IndexIn(list, id) ==
  LET found == {i \in DOMAIN list : list[i].id = id}
  IN IF found = {} THEN 0 ELSE Min(found)

\* The place of the card in the list, its last for a new card.
PlaceIn(r, list) == IF r.id = NoID THEN Len(list) + 1 ELSE IndexIn(list, r.id)

\* The card as it is written into the list.
CardFor(r, list) ==
  LET i == IndexIn(list, r.id) IN
  [CardOf(r) EXCEPT
     !.id = IF @ = NoID THEN NextID(r.kind, list) ELSE @,
     !.image = IF r.image THEN ImageURL(r.kind, "new") ELSE list[i].image]

Edited(r, list) ==
  LET place == PlaceIn(r, list) IN
  [i \in DOMAIN list \cup {place} |-> IF i = place THEN CardFor(r, list) ELSE list[i]]

\* The checks of an item and of the dataset at the end.
Publishable(r, list, taxonomy) ==
  /\ r.id = NoID \/ IndexIn(list, r.id) # 0
  /\ r.image \/ r.id # NoID
  /\ ~Broken(r.kind, CardFor(r, list), taxonomy)
  /\ ~BrokenDataset(r.kind, Edited(r, list), taxonomy)

LiveTaxonomy == Taxonomy(commits[at.schema].schema, commits[at.names].names)

PublishReadsSchema ==
  /\ pc \in {"queued", "refused"}
  /\ at' = [at EXCEPT !.schema = Len(commits), !.names = 0, !.list = 0]
  /\ pc' = "names"
  /\ UNCHANGED <<commits, payload, row, written>>

PublishReadsNames ==
  /\ pc = "names"
  /\ Read("names")
  /\ LET live == Taxonomy(commits[at.schema].schema, Main.names) IN
     pc' = IF \E c \in Classes : Clashes(live[c], row.new[c]) THEN "refused" ELSE "list"
  /\ UNCHANGED <<commits, payload, row, written>>

PublishReadsList ==
  /\ pc = "list"
  /\ Read("list")
  /\ LET list == Decode(Main.list) IN
     IF Decodable(Main.list) /\ Publishable(row, list, With(LiveTaxonomy, row.new))
     THEN /\ written' = [list |-> Edited(row, list), index |-> PlaceIn(row, list),
                         changes |-> [c \in Classes |->
                           {o \in row.new[c] : ~Has(LiveTaxonomy[c], o.value)}]]
          /\ pc' = "written"
     ELSE pc' = "refused" /\ UNCHANGED written
  /\ UNCHANGED <<commits, payload, row>>

\* A call fails, or the server stops: without a draft nothing is left, and a
\* draft is still in the queue.
Fails ==
  /\ pc \in {"form", "formNames", "names", "list"}
  /\ pc' = IF row = NoRow THEN "failed" ELSE "queued"
  /\ UNCHANGED <<commits, payload, row, at, written>>

-----------------------------------------------------------------------------
(* What people do to main meanwhile.                                       *)

\* A classification is defined or taken away, with its name.
WithOption(m, c, name) ==
  [m EXCEPT !.schema[c] = @ \cup {KeyOf[name]},
            !.names[c] = [v \in DOMAIN @ \cup {KeyOf[name]} |-> IF v = KeyOf[name] THEN name ELSE @[v]]]

WithoutOption(m, c, v) ==
  [m EXCEPT !.schema[c] = @ \ {v},
            !.names[c] = [w \in DOMAIN @ \ {v} |-> @[w]]]

\* A card is added like another, taken away, given a PNG, or a field that
\* the program does not know.  Nobody upstream looks for equal IDs.
WithCard(m, k, id, fruit) == [m EXCEPT !.list = Append(@, [@[1] EXCEPT !.id = id, !.fruit = fruit])]
WithPNG(m, i) == [m EXCEPT !.list[i].image.webp = FALSE]
WithExtra(m, i) == [m EXCEPT !.list[i].extra = TRUE]

Change(m, k) ==
  {WithOption(m, c, n) : c \in Classes, n \in {x \in Names : KeyOf[x] # NoKey}}
    \cup (UNION {{WithoutOption(m, c, v) : v \in m.schema[c]} : c \in Classes})
    \cup (IF m.list = <<>> THEN {}
          ELSE {WithCard(m, k, id, v) : id \in {m.list[1].id, NextID(k, m.list)}, v \in m.schema.fruit})
    \cup {[m EXCEPT !.list = SubSeq(@, 1, i - 1) \o SubSeq(@, i + 1, Len(@))] : i \in DOMAIN m.list}
    \cup {WithPNG(m, i) : i \in DOMAIN m.list}
    \cup {WithExtra(m, i) : i \in DOMAIN m.list}

\* As long as the card is on its way.
MainChanges ==
  /\ Len(commits) <= MaxChanges
  /\ pc \notin {"rejected", "failed", "written"}
  /\ \E m \in Change(Main, KindIn(payload)) : commits' = Append(commits, m)
  /\ UNCHANGED <<payload, row, pc, at, written>>

Next ==
  \/ FormReadsSchema \/ FormReadsNames
  \/ PublishReadsSchema \/ PublishReadsNames \/ PublishReadsList
  \/ Fails
  \/ MainChanges

Spec == Init /\ [][Next]_vars

-----------------------------------------------------------------------------
(* Properties.                                                             *)

\* main has the shape of the source files; a draft has a valid text,
\* numbers, role, version and options of the right type; and what was read
\* was read from commits that exist, the schema before the names, the names
\* before the dataset.
TypeOK ==
  /\ commits # <<>> /\ \A s \in DOMAIN commits : IsMain(commits[s])
  /\ pc \in {"form", "formNames", "rejected", "failed", "queued", "names", "list", "refused",
             "written"}
  /\ at \in [DOMAIN Unread -> 0..Len(commits)]
  /\ at.formSchema <= at.formNames \/ at.formNames = 0
  /\ at.schema <= at.names \/ at.names = 0
  /\ at.names <= at.list \/ at.list = 0
  /\ row # NoRow =>
       /\ row.kind \in Kinds /\ row.named /\ row.least >= 0 /\ row.fruit \in Keys
       /\ row.id # NoID => ParsesAs(row.kind, row.id)
       /\ row.role \subseteq Roles /\ row.version \subseteq Versions /\ row.sweetType \subseteq Keys
       /\ \A c \in Classes : row.new[c] \subseteq Option
  /\ pc = "written" => written.list \in Seq(Card)

\* What a person put into the form is what is written, with the optional
\* fields that the neighbours in the file have; only the number of a new
\* card and the image are settled by the publisher, and that number is in
\* use nowhere in the file ("so a draft always has the same optional fields
\* its neighbours in the file would", handlers.go:223-225).
ArrivesAsValidated ==
  pc = "written" =>
    LET c == written.list[written.index]
        form == BuildDraftCard(payload)
    IN /\ \A f \in DOMAIN c \ {"id", "image"} : c[f] = form[f]
       /\ IF payload.id # NoID
          THEN c.id = payload.id
          ELSE \A i \in DOMAIN commits[at.list].list : commits[at.list].list[i].id # c.id
       /\ c.effect # {}
       /\ payload.kind \in {"yojo", "tokenYojo"} => c.role # {}
       /\ payload.kind = "sweet" => c.sweetType # {}
       /\ payload.kind = "playable" => c.version # {}

\* Every other card of the file is written back as it was read, fields the
\* program does not know included ("PPLALE-web adding a field to CardInfo
\* must surface as a loud failure here rather than being silently dropped",
\* json.go:46-48).
OthersKept ==
  pc = "written" =>
    \A i \in DOMAIN commits[at.list].list \ {written.index} :
      written.list[i] = commits[at.list].list[i]

\* A draft that was accepted is refused later only for what happened to main:
\* a classification got another name or is gone, the card to edit is gone or
\* shows a bad image, or the rest of the file is not in order - never for its
\* own text, numbers, ID, role or version
\* (handleCreateDraft validates under a placeholder ID and image, and
\* "the authoritative check ... happens again at publish time",
\* handlers.go:336-338).
RefusalsExplained ==
  pc = "refused" =>
    LET taxonomy == With(LiveTaxonomy, row.new)
        list == commits[at.list].list
        place == PlaceIn(row, list)
    IN \/ \E c \in Classes : Clashes(LiveTaxonomy[c], row.new[c])
       \/ /\ at.list # 0
          /\ \/ \E i \in DOMAIN list : list[i].extra
             \/ place = 0
             \/ ~Has(taxonomy.fruit, row.fruit)
             \/ \E v \in row.sweetType : ~Has(taxonomy.sweetType, v)
             \/ ~row.image /\ BadImage(row.kind, list[place].image)
             \/ \E i \in DOMAIN list \ {place} : Broken(row.kind, list[i], taxonomy)
             \/ \E i, j \in DOMAIN list : i # j /\ list[i].id = list[j].id

\* The form is not stricter than the publisher: what it rejects could not have been
\* published as it is, or brings a classification that exists or is not for
\* this kind of card, or an image that cannot be converted.
RejectionsNeeded ==
  pc = "rejected" =>
    LET m == commits[at.formSchema]
        live == Taxonomy(m.schema, m.names)
    IN \/ BadNewFruit(payload, live) \/ BadNewSweetType(payload, live)
       \/ payload.kind \notin Kinds
       \/ payload.image = "broken"
       \/ ~Publishable(RowOf(payload), Decode(m.list), With(live, Defined(payload)))

\* The schema and the names may come from two commits, and the form decides
\* as if both came from the first (LoadTaxonomy, taxonomy.go:158-168).
TornReadHarmless ==
  at.formNames # 0 =>
    LET m == commits[at.formSchema]
    IN row # NoRow <=> Accepts(payload, Taxonomy(m.schema, m.names))

=============================================================================
