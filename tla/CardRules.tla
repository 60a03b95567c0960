------------------------------ MODULE CardRules ------------------------------
(***************************************************************************)
(* The rules of internal/cards for a card and its classifications.         *)
(*                                                                         *)
(* A card is kept as far as the rules tell cards apart: its name is given  *)
(* or blank, least is the least of its cost, HP and attack, and an         *)
(* optional field is a set of at most one value.  An ID has the prefix of  *)
(* a dataset, or of none, and a number; NotANumber stands for any other    *)
(* text.                                                                   *)
(***************************************************************************)
EXTENDS Integers, Sequences, FiniteSets, FiniteSetsExt

CONSTANTS
  Keys,         \* the values classifications have in the source files
  Names,        \* the names of classifications that people think of
  KeyOf         \* the key each name is turned into, or NoKey

NoKey == "no key"

ASSUME CardRulesAssumption ==
  /\ KeyOf \in [Names -> Keys \cup {NoKey}]
  /\ NoKey \notin Keys

-----------------------------------------------------------------------------
(* The datasets.                                                           *)

TypeOfKind == [yojo |-> "yojo", sweet |-> "sweet", playable |-> "playable", tokenYojo |-> "yojo"]
DirOfKind == TypeOfKind           \* token yojo shares the yojo directory
Kinds == DOMAIN TypeOfKind

NotANumber == -1
NoID == [prefix |-> "none", number |-> NotANumber]
ID == [prefix : Kinds \cup {"none"}, number : Nat \cup {NotANumber}]

ParsesAs(k, id) == id.prefix = k /\ id.number # NotANumber

\* The highest number in use plus one.
NextID(k, list) ==
  LET used == {list[i].id.number : i \in {j \in DOMAIN list : ParsesAs(k, list[j].id)}}
  IN [prefix |-> k, number |-> Max(used \cup {-1}) + 1]

\* An image of the repository: its directory, whether the path is a WebP's
\* without dots, and a name.
ImageURL(k, name) == [dir |-> DirOfKind[k], webp |-> TRUE, name |-> name]

-----------------------------------------------------------------------------
(* The classifications: a schema lists the keys, a table has the names.    *)

Classes == {"fruit", "sweetType"}
Option == [value : Keys, label : Names \cup Keys]

\* (Mutant: the keys are taken from the table of names.)
TaxonomyOfTable(schema, labels) ==
  [c \in Classes |-> {[value |-> v, label |-> labels[c][v]] : v \in DOMAIN labels[c]}]

\* A key without a name is shown as it is.
Taxonomy(schema, labels) ==
  [c \in Classes |->
     {[value |-> v, label |-> IF v \in DOMAIN labels[c] THEN labels[c][v] ELSE v] : v \in schema[c]}]

Has(options, v) == \E o \in options : o.value = v

NewOption(name) == [value |-> KeyOf[name], label |-> name]

\* An option may be added again, but not under another name.
Clashes(options, new) == \E o \in options, n \in new : o.value = n.value /\ o.label # n.label

With(taxonomy, changes) == [c \in Classes |-> taxonomy[c] \cup changes[c]]

-----------------------------------------------------------------------------
(* A single card.                                                          *)

Roles == {"", "assistant_manager", "manager"}
Versions == {"normal", "beta"}

BadImage(k, image) == ~image.webp \/ image.dir # DirOfKind[k]

BadRole(c) == c.role # {} /\ (~(c.role \subseteq Roles) \/ c.type # "yojo")

BadSweetType(c, options) ==
  \/ \E v \in c.sweetType : ~Has(options, v) \/ c.type # "sweet"
  \/ c.type = "sweet" /\ c.sweetType = {}

\* A card of dataset k that breaks a rule.
Broken(k, c, taxonomy) ==
  \/ ~ParsesAs(k, c.id)
  \/ ~c.named
  \/ c.type # TypeOfKind[k]
  \/ ~Has(taxonomy.fruit, c.fruit)
  \/ c.least < 0
  \/ BadImage(k, c.image)
  \/ BadRole(c)
  \/ BadSweetType(c, taxonomy.sweetType)
  \/ ~(c.version \subseteq Versions)

BrokenDataset(k, list, taxonomy) ==
  \/ \E i \in DOMAIN list : Broken(k, list[i], taxonomy)
  \/ \E i, j \in DOMAIN list : i # j /\ list[i].id = list[j].id

\* The optional fields that the cards of the dataset have.
WithDefaults(k, c) ==
  [c EXCEPT !.role = IF TypeOfKind[k] = "yojo" /\ @ = {} THEN {""} ELSE @,
            !.sweetType = IF k = "sweet" /\ @ = {} THEN {""} ELSE @,
            !.version = IF k = "playable" /\ @ = {} THEN {"normal"} ELSE @,
            !.effect = IF @ = {} THEN {""} ELSE @]

\* (Mutant: fields that are not known are left out.)
DecodableAnyway(file) == TRUE

\* A file whose cards have a field the program does not know is not read.
Decodable(file) == \A i \in DOMAIN file : ~file[i].extra

Decode(file) == [i \in DOMAIN file |-> [file[i] EXCEPT !.extra = FALSE]]

=============================================================================
