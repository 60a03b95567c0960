------------------------------ MODULE CardData ------------------------------
(***************************************************************************)
(* The data the CMS publishes: the card datasets, the classifications and  *)
(* the images of PPLALE-web, and the rules of package internal/cards on    *)
(* them.  Nothing here has state; Upstream and Submit build on it.         *)
(*                                                                         *)
(* A dataset file is a JSON array of cards with distinct IDs such as "y_7"; *)
(* here it is a function from the number in the ID to the card.  What a    *)
(* card says (name, cost, effect...) is abstracted to the draft that last  *)
(* wrote it; its classification and its image are kept, because they must  *)
(* agree with other files of the repository.  The two kinds of             *)
(* classification (fruit and sweet type) go through the same code, so one  *)
(* stands for both.                                                        *)
(***************************************************************************)
EXTENDS Integers, FiniteSets, FiniteSetsExt

CONSTANTS
  Kinds,        \* the datasets of the repository: yojo, sweet, ...
  CardIDs,      \* the card numbers a submitter may name as the card to edit
  Fruits,       \* values a classification can have
  Labels,       \* what people see of a classification
  KeyLabel,     \* the label that is the value itself
  SourceFiles,  \* how many source files define classifications
  Schema,       \* the one that says what is valid, in the order they are read
  Locale        \* the one that has the labels

ASSUME CardDataAssumption ==
  /\ IsFiniteSet(Kinds)
  /\ CardIDs \subseteq Nat
  /\ KeyLabel \in Labels
  /\ SourceFiles \in Nat
  /\ Schema \in 1..SourceFiles
  /\ Locale \in 1..SourceFiles

\* The ID of a draft that adds a card, and the author of a card that was in
\* the repository before the CMS; drafts are numbered from 1.
NoID == -1
NoDraft == 0

Option == [value : Fruits, label : Labels]
Values(options) == {o.value : o \in options}

\* What a source file has of a classification: only the locale's entry has a
\* label, the types, the schema and the lists of the pages have the value.
Entry(file, o) ==
  [value |-> o.value, label |-> IF file = Locale THEN o.label ELSE KeyLabel]

Card == [by : Nat, fruit : Fruits, image : Nat]

IsDataset(list) ==
  /\ list \in [DOMAIN list -> Card]
  /\ DOMAIN list \subseteq Nat
  /\ IsFiniteSet(DOMAIN list)

\* One commit of the repository: the datasets, the entries of each source file
\* that defines classifications, and the image files.
IsTree(tree) ==
  /\ tree = [data |-> tree.data, sources |-> tree.sources, images |-> tree.images]
  /\ tree.data = [k \in Kinds |-> tree.data[k]]
  /\ \A k \in Kinds : IsDataset(tree.data[k])
  /\ tree.sources \in [1..SourceFiles -> SUBSET Option]
  /\ tree.images \subseteq Nat

\* A queued card.  card is NoID for a new card, new the classification the
\* submitter defined with it, image whether an image was uploaded.
Draft(Users) ==
  [owner : Users, kind : Kinds, card : CardIDs \cup {NoID}, fruit : Fruits,
   new : SUBSET Option, image : BOOLEAN]

Put(f, x, v) == [y \in DOMAIN f \cup {x} |-> IF y = x THEN v ELSE f[y]]

-----------------------------------------------------------------------------
\* (Mutant: the highest number in use is given again.)
LastID(list) == Max(DOMAIN list \cup {0})

\* The highest number in use plus one; a gap is never filled.
NextID(list) == Max(DOMAIN list \cup {-1}) + 1

\* (Mutant: an edit without an image is given an image path of its own.)
WrittenWithNewImage(draft, d, list, id) ==
  [by |-> d, fruit |-> draft.fruit, image |-> d]

\* The card that publishing draft d writes at id: its own image, or the one
\* the card already has.
Written(draft, d, list, id) ==
  [by |-> d, fruit |-> draft.fruit,
   image |-> IF draft.image THEN d ELSE list[id].image]

\* Every card of the list has a known classification and a distinct ID (the
\* second by representation).
ValidDataset(list, values) ==
  \A i \in DOMAIN list : list[i].fruit \in values

-----------------------------------------------------------------------------
\* (Mutant: what a batch defines is not added to the sources.)
NoChanges(batch, live) == {}

\* The classifications a batch of drafts defines, and those of them whose value
\* the repository does not have.
Defined(batch) == UNION {batch[d].new : d \in DOMAIN batch}
Changes(batch, live) == {o \in Defined(batch) : o.value \notin live}

\* The values of the schema with their labels: a value the locale does not have
\* is shown as it is.
Named(live, locale) ==
  {o \in locale : o.value \in live}
    \cup {[value |-> v, label |-> KeyLabel] : v \in live \ Values(locale)}

\* One value under two labels: adding the second is refused.
Clash(batch, named) ==
  \E o \in Defined(batch), p \in Defined(batch) \cup named :
    o.value = p.value /\ o.label # p.label

\* (Mutant: the entry is looked up by its label.)
PatchedByLabel(file, source, changes) ==
  source \cup {Entry(file, o) : o \in {o \in changes : \A p \in source : p.label # o.label}}

\* (Mutant: the entry is added although its value is there.)
PatchedAgain(file, source, changes) == source \cup {Entry(file, o) : o \in changes}

\* (Mutant: the labels are left as they are.)
PatchedButLabels(file, source, changes) ==
  IF file = Locale THEN source
  ELSE source \cup {Entry(file, o) : o \in {o \in changes : o.value \notin Values(source)}}

\* Patching a source file adds an entry unless its value is there.
Patched(file, source, changes) ==
  source \cup {Entry(file, o) : o \in {o \in changes : o.value \notin Values(source)}}

=============================================================================
