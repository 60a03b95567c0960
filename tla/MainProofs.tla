----------------------------- MODULE MainProofs -----------------------------
(***************************************************************************)
(* What merging pull requests makes of main: which cards a merge changes   *)
(* and how, and what holds of every version of main whatever was merged,   *)
(* in whatever order, from files of whatever age.                          *)
(***************************************************************************)
EXTENDS PullProofs

-----------------------------------------------------------------------------
(* What merging changes.                                                   *)

LEMMA BatchIsDrafts ==
  ASSUME NEW b, NEW n \in Nat, IsBatch(b, n)
  PROVE  IsDrafts(b)
<1>1. IsFiniteSet(1..n)
  BY FS_Interval
<1>2. DOMAIN b \in SUBSET (1..n) /\ DOMAIN b \subseteq Nat
  BY DEF IsBatch
<1>. QED
  BY <1>1, <1>2, FS_Subset DEF IsBatch, IsDrafts

\* A merge takes over what the pull request changed, and nothing else.
LEMMA MergedTouches ==
  ASSUME NEW from, NEW ours, NEW theirs
  PROVE  Touched(ours, MergedList(from, ours, theirs)) \subseteq Touched(from, theirs)
<1>. DEFINE changed == Touched(from, theirs)
            D == (DOMAIN ours \ changed) \cup (DOMAIN theirs \cap changed)
            m == MergedList(from, ours, theirs)
<1>1. m = [i \in D |-> IF i \in changed THEN theirs[i] ELSE ours[i]]
  BY DEF MergedList
<1>. HIDE DEF m, changed
<1>2. ASSUME NEW i, i \notin changed
      PROVE  SameAt(ours, m, i)
  BY <1>1, <1>2 DEF SameAt
<1>3. Touched(ours, m) \subseteq changed
  BY <1>2 DEF Touched
<1>. QED
  BY <1>3 DEF m, changed

\* A batch changes the cards it names, and nothing else.
LEMMA ExpectedTouches ==
  ASSUME NEW list, NEW b, NEW k
  PROVE  Touched(list, Expected(list, b, k)) \subseteq {AssignedID(list, b, d) : d \in ItemsOf(b, k)}
<1>. DEFINE E == Expected(list, b, k)
            A == {AssignedID(list, b, d) : d \in ItemsOf(b, k)}
<1>1. E = [i \in ExpectedIDs(list, b, k) |-> CardAt(list, b, k, i)]
      /\ ExpectedIDs(list, b, k) = DOMAIN list \cup A
  BY ExpectedIs DEF ExpectedIDs
<1>2. \A i : i \notin A => CardAt(list, b, k, i) = list[i]
  BY DEF CardAt, Writers
<1>. HIDE DEF E, A
<1>3. ASSUME NEW i, i \notin A PROVE SameAt(list, E, i)
  BY <1>1, <1>2, <1>3 DEF SameAt
<1>4. Touched(list, E) \subseteq A
  BY <1>3 DEF Touched
<1>. QED
  BY <1>4 DEF E, A

LEMMA MergeTouches ==
  ASSUME TypeOK, PullsBuiltFromMain, NEW p \in DOMAIN prs, MergesPull(p), NEW k \in Kinds
  PROVE  \/ ItemsOf(prs[p].batch, k) # {} /\ ~BuiltFromBase(prs[p], k)
         \/ Touched(Main.data[k], Main'.data[k])
              \subseteq {prs[p].results[d] : d \in ItemsOf(prs[p].batch, k)}
<1>. DEFINE pr == prs[p]
            from == commits[pr.base].data[k]
<1>1. Main'.data[k] = MergedList(from, Main.data[k], pr.tree.data[k])
  <2>1. commits' = Append(commits, MergedTree(commits[pr.base], Main, pr.tree))
    BY DEF MergesPull
  <2>2. Main' = MergedTree(commits[pr.base], Main, pr.tree)
    BY <2>1, AppendSeq DEF Main, TypeOK, UpstreamTypeOK
  <2>. QED
    BY <2>2 DEF MergedTree
<1>2. Touched(Main.data[k], Main'.data[k]) \subseteq Touched(from, pr.tree.data[k])
  BY <1>1, MergedTouches
<1>3. BuiltFrom(commits, pr)
  BY BuiltFromIs
<1>4. CASE ItemsOf(pr.batch, k) = {}
  <2>1. pr.tree.data[k] = from
    BY <1>3, <1>4 DEF BuiltFrom
  <2>2. Touched(from, from) = {}
    BY DEF Touched, SameAt
  <2>. QED
    BY <1>2, <2>1, <2>2
<1>5. CASE ItemsOf(pr.batch, k) # {} /\ BuiltFromBase(pr, k)
  <2>1. EditsFound(from, pr.batch, k) /\ pr.tree.data[k] = Expected(from, pr.batch, k)
    BY <1>5 DEF BuiltFromBase
  <2>2. PICK s \in 1..pr.base :
          Published(commits[s].data[k], pr.batch, k, pr.tree.data[k], pr.results)
    BY <1>3, <1>5 DEF BuiltFrom
  <2>. DEFINE list == commits[s].data[k]
  <2>3. IsDataset(from) /\ IsDataset(list) /\ IsDrafts(pr.batch)
    <3>1. IsPull(pr, nextDraft - 1, Len(commits)) /\ DOMAIN commits = 1..Len(commits)
          /\ Len(commits) \in Nat /\ nextDraft - 1 \in Nat
      BY TypeFacts DEF TypeOK, UpstreamTypeOK
    <3>2. IsDrafts(pr.batch) /\ pr.base \in 1..Len(commits)
      BY <3>1, BatchIsDrafts DEF IsPull
    <3>3. pr.base \in DOMAIN commits /\ s \in DOMAIN commits
      BY <3>1, <3>2
    <3>4. IsTree(commits[pr.base]) /\ IsTree(commits[s])
      BY <3>3 DEF TypeOK, UpstreamTypeOK
    <3>. QED
      BY <3>2, <3>4 DEF IsTree
  <2>. DEFINE C == Cardinality(NewItems(pr.batch, k))
  <2>4. /\ NextID(pr.tree.data[k]) = NextID(from) + C
        /\ NextID(pr.tree.data[k]) = NextID(list) + C
    <3>. DEFINE out == pr.tree.data[k]
    <3>1. EditsFound(from, pr.batch, k) /\ out = Expected(from, pr.batch, k)
      BY <2>1
    <3>2. EditsFound(list, pr.batch, k) /\ out = Expected(list, pr.batch, k)
      BY <2>2 DEF Published
    <3>. HIDE DEF out, from, list
    <3>3. NextID(Expected(from, pr.batch, k)) = NextID(from) + Cardinality(NewItems(pr.batch, k))
      BY <2>3, <3>1, NextIDExpected
    <3>4. NextID(Expected(list, pr.batch, k)) = NextID(list) + Cardinality(NewItems(pr.batch, k))
      BY <2>3, <3>2, NextIDExpected
    <3>. QED
      BY <3>1, <3>2, <3>3, <3>4 DEF out
  <2>5. NextID(from) \in Nat /\ NextID(list) \in Nat /\ C \in Nat
    BY <2>3, NextIDIsFresh, NewItemsFinite
  <2>. HIDE DEF C, from, list
  <2>6. NextID(from) = NextID(list)
    BY <2>4, <2>5
  <2>7. \A d \in ItemsOf(pr.batch, k) : pr.results[d] = AssignedID(from, pr.batch, d)
    BY <2>2, <2>6, AssignedIs DEF Published, list
  <2>8. Touched(from, pr.tree.data[k]) \subseteq {AssignedID(from, pr.batch, d) : d \in ItemsOf(pr.batch, k)}
    BY <2>1, ExpectedTouches
  <2>9. {AssignedID(from, pr.batch, d) : d \in ItemsOf(pr.batch, k)}
          = {pr.results[d] : d \in ItemsOf(pr.batch, k)}
    BY <2>7
  <2>. QED
    BY <1>2, <2>8, <2>9 DEF from
<1>. QED
  BY <1>4, <1>5

\* Only a merge turns an open pull request into a merged one.
LEMMA OpenMerged ==
  ASSUME TypeOK, [Next]_vars, NEW p \in DOMAIN prs,
         prs[p].state = "open", prs'[p].state = "merged"
  PROVE  MergesPull(p)
<1>1. ASSUME prs'[p] = prs[p] PROVE FALSE
  BY <1>1
<1>2. ASSUME NEW q \in DOMAIN prs, MergesPull(q) PROVE MergesPull(p)
  <2>1. q # p => prs'[p] = prs[p]
    BY <1>2, PullKept DEF MergesPull
  <2>. QED
    BY <1>1, <1>2, <2>1
<1>3. ASSUME NEW q \in DOMAIN prs, ClosesPull(q) PROVE FALSE
  <2>1. (q # p => prs'[p] = prs[p]) /\ prs'[q].state = "closed"
    BY <1>3, PullKept DEF ClosesPull
  <2>. QED
    BY <1>1, <2>1
<1>4. ASSUME NEW r \in Requests, OpensPull(r) PROVE FALSE
  <2>1. prs'[p] = prs[p]
    BY <1>4, AppendSeq DEF OpensPull, TypeOK, UpstreamTypeOK
  <2>. QED
    BY <1>1, <2>1
<1>. QED
  BY <1>1, <1>2, <1>3, <1>4, UpstreamStep DEF upstreamVars, DropsBranch, PushesBranch

\* Merging a pull request changes on main no card but those it names, unless
\* one of its datasets was read before the commit its branch starts from.
THEOREM MergesAreLocal == Spec => MergesTouchTheirCards
<1>. DEFINE Local == \A p \in DOMAIN prs : LET pr == prs[p] IN
       pr.state = "open" /\ prs'[p].state = "merged" =>
         \A k \in Kinds :
           \/ ItemsOf(pr.batch, k) # {} /\ ~BuiltFromBase(pr, k)
           \/ Touched(Main.data[k], Main'.data[k]) \subseteq {pr.results[d] : d \in ItemsOf(pr.batch, k)}
<1>1. TypeOK /\ PullsBuiltFromMain /\ [Next]_vars => [Local]_vars
  BY OpenMerged, MergeTouches
<1>. QED
  BY <1>1, TypeCorrect, DatasetsAreAsExpected, PTL DEF Spec, MergesTouchTheirCards

-----------------------------------------------------------------------------
(* What merging keeps.                                                     *)

\* The datasets a pull request has to do with.
LEMMA PullData ==
  ASSUME TypeOK, NEW p \in DOMAIN prs, NEW k \in Kinds
  PROVE  /\ IsDrafts(prs[p].batch) /\ prs[p].base \in 1..Len(commits)
         /\ prs[p].base \in 1..prs[p].base
         /\ \A s \in 1..prs[p].base : s \in DOMAIN commits /\ IsDataset(commits[s].data[k])
         /\ IsDataset(Main.data[k]) /\ IsDataset(prs[p].tree.data[k])
<1>1. IsPull(prs[p], nextDraft - 1, Len(commits)) /\ DOMAIN commits = 1..Len(commits)
      /\ Len(commits) \in Nat /\ nextDraft - 1 \in Nat /\ IsTree(Main)
  BY TypeFacts DEF TypeOK, UpstreamTypeOK
<1>2. IsDrafts(prs[p].batch) /\ prs[p].base \in 1..Len(commits) /\ IsTree(prs[p].tree)
  BY <1>1, BatchIsDrafts DEF IsPull
<1>3. \A s \in 1..prs[p].base : s \in DOMAIN commits /\ IsTree(commits[s])
  BY <1>1, <1>2 DEF TypeOK, UpstreamTypeOK
<1>4. \A tree : IsTree(tree) => IsDataset(tree.data[k])
  BY DEF IsTree
<1>5. prs[p].base \in 1..prs[p].base
  BY <1>1, <1>2
<1>. QED
  BY <1>1, <1>2, <1>3, <1>4, <1>5

\* A batch takes no card away; those it adds have new IDs, and there are some
\* exactly when a draft asks for one.
LEMMA ExpectedAdds ==
  ASSUME NEW list, IsDataset(list), NEW b, IsDrafts(b), NEW k, EditsFound(list, b, k)
  PROVE  /\ DOMAIN list \subseteq DOMAIN Expected(list, b, k)
         /\ \A d \in NewItems(b, k) : /\ AssignedID(list, b, d) \notin DOMAIN list
                                      /\ AssignedID(list, b, d) \in DOMAIN Expected(list, b, k)
         /\ \A i \in DOMAIN Expected(list, b, k) \ DOMAIN list :
              \E d \in NewItems(b, k) : AssignedID(list, b, d) = i
<1>. DEFINE A(d) == AssignedID(list, b, d)
<1>1. DOMAIN Expected(list, b, k) = DOMAIN list \cup {A(d) : d \in ItemsOf(b, k)}
  BY ExpectedIs DEF ExpectedIDs
<1>2. ASSUME NEW d \in NewItems(b, k) PROVE A(d) \notin DOMAIN list
  <2>1. /\ A(d) = NextID(list) + Cardinality(NewBefore(b, k, d))
        /\ Cardinality(NewBefore(b, k, d)) \in Nat
    BY AssignedIs, NewItemsFinite DEF NewItems
  <2>2. NextID(list) \in Nat /\ (\A i \in DOMAIN list : i < NextID(list)) /\ DOMAIN list \subseteq Nat
    BY NextIDIsFresh DEF IsDataset
  <2>. HIDE DEF A
  <2>3. A(d) >= NextID(list) /\ A(d) \in Nat
    BY <2>1, <2>2
  <2>. QED
    BY <2>2, <2>3
<1>3. ASSUME NEW i \in DOMAIN Expected(list, b, k) \ DOMAIN list
      PROVE  \E d \in NewItems(b, k) : A(d) = i
  <2>1. PICK d \in ItemsOf(b, k) : A(d) = i
    BY <1>1, <1>3
  <2>2. CASE b[d].card = NoID
    BY <2>1, <2>2 DEF NewItems
  <2>3. CASE b[d].card # NoID
    <3>1. b[d].card = i
      BY <2>1, <2>3, AssignedIs
    <3>2. PICK e \in ItemsOf(b, k) : b[e].card = NoID /\ A(e) = i
      BY <1>3, <2>3, <3>1 DEF EditsFound
    <3>. QED
      BY <3>2 DEF NewItems
  <2>. QED
    BY <2>2, <2>3
<1>4. NewItems(b, k) \subseteq ItemsOf(b, k)
  BY DEF NewItems
<1>. HIDE DEF A
<1>5. \A d \in NewItems(b, k) : A(d) \in DOMAIN Expected(list, b, k)
  BY <1>1, <1>4
<1>. QED
  BY <1>1, <1>2, <1>3, <1>5 DEF A

\* When both sides are the same, so is the merge.
LEMMA MergedSame ==
  ASSUME NEW from, NEW ours, IsDataset(ours)
  PROVE  MergedList(from, ours, ours) = ours
<1>. DEFINE changed == Touched(from, ours)
            D == (DOMAIN ours \ changed) \cup (DOMAIN ours \cap changed)
<1>1. MergedList(from, ours, ours) = [i \in D |-> IF i \in changed THEN ours[i] ELSE ours[i]]
  BY DEF MergedList
<1>2. ours = [i \in DOMAIN ours |-> ours[i]] /\ D = DOMAIN ours
  BY DEF IsDataset
<1>. HIDE DEF D, changed
<1>. QED
  BY <1>1, <1>2

\* When both sides added a card, a merge without conflict finds them the same.
LEMMA BothAdded ==
  ASSUME NEW from, NEW ours, IsDataset(ours), NEW theirs, ~ListConflict(from, ours, theirs),
         NEW i \in DOMAIN ours \ DOMAIN from, NEW j \in DOMAIN theirs \ DOMAIN from
  PROVE  MergedList(from, ours, theirs) = ours
<1>1. ours = theirs
  BY DEF ListConflict
<1>. QED
  BY <1>1, MergedSame

LEMMA MainOfMerge ==
  ASSUME TypeOK, NEW p \in DOMAIN prs, MergesPull(p)
  PROVE  /\ Main' = MergedTree(commits[prs[p].base], Main, prs[p].tree)
         /\ \A k \in Kinds :
              /\ Main'.data[k] = MergedList(commits[prs[p].base].data[k], Main.data[k],
                                            prs[p].tree.data[k])
              /\ ~ListConflict(commits[prs[p].base].data[k], Main.data[k], prs[p].tree.data[k])
<1>1. Main' = MergedTree(commits[prs[p].base], Main, prs[p].tree)
  BY AppendSeq DEF MergesPull, Main, TypeOK, UpstreamTypeOK
<1>. QED
  BY <1>1 DEF MergedTree, MergesPull, Conflict

LEMMA MergeKeeps ==
  ASSUME TypeOK, PullsBuiltFromMain, NEW p \in DOMAIN prs, MergesPull(p),
         NEW k \in Kinds, NEW i \in DOMAIN Main.data[k]
  PROVE  \/ ItemsOf(prs[p].batch, k) # {} /\ ~BuiltFromBase(prs[p], k)
         \/ \E d \in ItemsOf(prs[p].batch, k) : prs[p].batch[d].card = i
         \/ SameAt(Main.data[k], Main'.data[k], i)
<1>. DEFINE b == prs[p].batch
            from == commits[prs[p].base].data[k]
            ours == Main.data[k]
            theirs == prs[p].tree.data[k]
<1>1. Main'.data[k] = MergedList(from, ours, theirs) /\ ~ListConflict(from, ours, theirs)
  BY MainOfMerge
<1>2. IsDataset(from) /\ IsDataset(ours) /\ IsDrafts(b)
  BY PullData
<1>3. ItemsOf(b, k) = {} => theirs = from
  BY BuiltFromIs DEF BuiltFrom
<1>4. BuiltFromBase(prs[p], k) => EditsFound(from, b, k) /\ theirs = Expected(from, b, k)
  BY DEF BuiltFromBase
<1>5. i \in DOMAIN ours
  OBVIOUS
<1>. SUFFICES ASSUME ItemsOf(b, k) = {} \/ BuiltFromBase(prs[p], k),
                     \A d \in ItemsOf(b, k) : b[d].card # i
              PROVE  SameAt(ours, MergedList(from, ours, theirs), i)
  BY <1>1
<1>. HIDE DEF b, from, ours, theirs
<1>6. ASSUME i \notin Touched(from, theirs)
      PROVE  SameAt(ours, MergedList(from, ours, theirs), i)
  <2>1. i \notin Touched(ours, MergedList(from, ours, theirs))
    BY <1>6, MergedTouches
  <2>. QED
    BY <1>5, <2>1 DEF Touched
<1>7. CASE ItemsOf(b, k) = {}
  <2>1. i \notin Touched(from, from)
    BY DEF Touched, SameAt
  <2>. QED
    BY <1>3, <1>6, <1>7, <2>1
<1>8. CASE BuiltFromBase(prs[p], k) /\ i \in Touched(from, theirs)
  <2>1. EditsFound(from, b, k) /\ theirs = Expected(from, b, k)
    BY <1>4, <1>8
  <2>2. PICK d \in ItemsOf(b, k) : AssignedID(from, b, d) = i
    BY <1>8, <2>1, ExpectedTouches
  <2>3. d \in NewItems(b, k)
    BY <2>2, AssignedIs DEF NewItems
  <2>4. i \in DOMAIN theirs \ DOMAIN from
    BY <1>2, <2>1, <2>2, <2>3, ExpectedAdds
  <2>5. MergedList(from, ours, theirs) = ours
    BY <1>1, <1>2, <1>5, <2>4, BothAdded
  <2>. QED
    BY <2>5 DEF SameAt
<1>. QED
  BY <1>6, <1>7, <1>8

\* A merge leaves every card of main as it is, but for those that a draft of the
\* pull request edits, unless the dataset was read before the base: an ID that
\* was given twice never costs a card.
THEOREM MergesKeepCards == Spec => MergesLoseNothing
<1>. DEFINE Kept == \A p \in DOMAIN prs : LET pr == prs[p] IN
       pr.state = "open" /\ prs'[p].state = "merged" =>
         \A k \in Kinds : \A i \in DOMAIN Main.data[k] :
           \/ ItemsOf(pr.batch, k) # {} /\ ~BuiltFromBase(pr, k)
           \/ \E d \in ItemsOf(pr.batch, k) : pr.batch[d].card = i
           \/ SameAt(Main.data[k], Main'.data[k], i)
<1>1. TypeOK /\ PullsBuiltFromMain /\ [Next]_vars => [Kept]_vars
  BY OpenMerged, MergeKeeps
<1>. QED
  BY <1>1, TypeCorrect, DatasetsAreAsExpected, PTL DEF Spec, MergesLoseNothing

-----------------------------------------------------------------------------
(* Images.                                                                 *)

HasImages(tree) ==
  \A k \in Kinds : \A i \in DOMAIN tree.data[k] : tree.data[k][i].image \in tree.images

\* A pull request carries the images of its base commit and its own, and adds no
\* card without one.
CarriesImages(h, pr) ==
  /\ h[pr.base].images \subseteq pr.tree.images
  /\ \A d \in DOMAIN pr.batch : /\ pr.batch[d].image => d \in pr.tree.images
                                /\ pr.batch[d].image \/ pr.batch[d].card # NoID

ImageInv ==
  /\ \A s \in DOMAIN commits : HasImages(commits[s])
  /\ \A s, t \in DOMAIN commits : s <= t => commits[s].images \subseteq commits[t].images
  /\ \A p \in DOMAIN prs : CarriesImages(commits, prs[p])

\* The card of a list that a batch without an image for it edits is there.
LEMMA ImageKept ==
  ASSUME NEW list, NEW b, IsDrafts(b), NEW k, EditsFound(list, b, k),
         \A d \in DOMAIN b : b[d].image \/ b[d].card # NoID,
         NEW i, Writers(list, b, k, i) # {}, Imaged(list, b, k, i) = {}
  PROVE  i \in DOMAIN list
<1>1. ItemsOf(b, k) \subseteq DOMAIN b
  BY DEF ItemsOf
<1>2. \A e \in ItemsOf(b, k) : AssignedID(list, b, e) = i => ~b[e].image /\ b[e].card # NoID
  BY <1>1 DEF Imaged, Writers
<1>3. PICK d \in ItemsOf(b, k) : AssignedID(list, b, d) = i
  BY DEF Writers
<1>4. b[d].card = i /\ b[d].card # NoID
  BY <1>2, <1>3, AssignedIs
<1>. QED
  BY <1>2, <1>3, <1>4 DEF EditsFound

\* A batch leaves no card without its image.
LEMMA ExpectedHasImages ==
  ASSUME NEW list, NEW b, IsDrafts(b), NEW k, EditsFound(list, b, k), NEW I,
         \A i \in DOMAIN list : list[i].image \in I,
         \A d \in DOMAIN b : b[d].image => d \in I,
         \A d \in DOMAIN b : b[d].image \/ b[d].card # NoID,
         NEW i \in DOMAIN Expected(list, b, k)
  PROVE  Expected(list, b, k)[i].image \in I
<1>. DEFINE W == Writers(list, b, k, i)
            M == Imaged(list, b, k, i)
<1>1. i \in ExpectedIDs(list, b, k) /\ Expected(list, b, k)[i] = CardAt(list, b, k, i)
  BY ExpectedIs
<1>2. /\ W = {} => i \in DOMAIN list /\ CardAt(list, b, k, i).image = list[i].image
      /\ W # {} => CardAt(list, b, k, i).image = IF M = {} THEN list[i].image ELSE Max(M)
  BY <1>1 DEF ExpectedIDs, Writers, CardAt
<1>3. /\ M \in SUBSET ItemsOf(b, k) /\ ItemsOf(b, k) \subseteq DOMAIN b
      /\ \A d \in M : b[d].image
  BY DEF Imaged, Writers, ItemsOf
<1>4. ASSUME M # {} PROVE Max(M) \in I
  <2>1. M \subseteq Int /\ IsFiniteSet(M)
    BY <1>3, NewItemsFinite, FS_Subset
  <2>2. Max(M) \in M
    BY <1>4, <2>1, MaxIn
  <2>. QED
    BY <1>3, <2>2
<1>5. ASSUME W # {}, M = {} PROVE i \in DOMAIN list
  BY <1>5, ImageKept
<1>. QED
  BY <1>1, <1>2, <1>4, <1>5

LEMMA PullHasImages ==
  ASSUME TypeOK, PullsBuiltFromMain, ImageInv, NEW p \in DOMAIN prs
  PROVE  HasImages(prs[p].tree)
<1>. DEFINE pr == prs[p]
            I == pr.tree.images
<1>1. /\ IsPull(pr, nextDraft - 1, Len(commits)) /\ DOMAIN commits = 1..Len(commits)
      /\ Len(commits) \in Nat /\ nextDraft - 1 \in Nat
  BY TypeFacts DEF TypeOK, UpstreamTypeOK
<1>2. IsDrafts(pr.batch) /\ pr.base \in 1..Len(commits)
  BY <1>1, BatchIsDrafts DEF IsPull
<1>3. CarriesImages(commits, pr) /\ BuiltFrom(commits, pr)
  BY BuiltFromIs DEF ImageInv
<1>4. ASSUME NEW s \in 1..pr.base, NEW k \in Kinds, NEW i \in DOMAIN commits[s].data[k]
      PROVE  commits[s].data[k][i].image \in I
  <2>1. s \in DOMAIN commits /\ pr.base \in DOMAIN commits /\ s <= pr.base
    BY <1>1, <1>2
  <2>2. commits[s].data[k][i].image \in commits[s].images
    BY <2>1 DEF ImageInv, HasImages
  <2>3. commits[s].images \subseteq commits[pr.base].images
    BY <2>1 DEF ImageInv
  <2>. QED
    BY <1>3, <2>2, <2>3 DEF CarriesImages
<1>5. ASSUME NEW k \in Kinds, NEW i \in DOMAIN pr.tree.data[k]
      PROVE  pr.tree.data[k][i].image \in I
  <2>1. CASE ItemsOf(pr.batch, k) = {}
    <3>1. pr.tree.data[k] = commits[pr.base].data[k] /\ pr.base \in 1..pr.base
      BY <1>2, <1>3, <2>1 DEF BuiltFrom
    <3>. QED
      BY <1>4, <1>5, <3>1
  <2>2. CASE ItemsOf(pr.batch, k) # {}
    <3>1. PICK s \in 1..pr.base :
            /\ EditsFound(commits[s].data[k], pr.batch, k)
            /\ pr.tree.data[k] = Expected(commits[s].data[k], pr.batch, k)
      BY <1>3, <2>2 DEF BuiltFrom, Published
    <3>2. \A j \in DOMAIN commits[s].data[k] : commits[s].data[k][j].image \in I
      BY <1>4
    <3>. DEFINE list == commits[s].data[k]
                b == pr.batch
    <3>3. /\ \A d \in DOMAIN b : b[d].image => d \in I
          /\ \A d \in DOMAIN b : b[d].image \/ b[d].card # NoID
      BY <1>3 DEF CarriesImages
    <3>4. EditsFound(list, b, k) /\ i \in DOMAIN Expected(list, b, k)
          /\ pr.tree.data[k] = Expected(list, b, k)
          /\ (\A j \in DOMAIN list : list[j].image \in I) /\ IsDrafts(b)
      BY <1>2, <1>5, <3>1, <3>2
    <3>. HIDE DEF list, b, I, pr
    <3>5. Expected(list, b, k)[i].image \in I
      BY <3>3, <3>4, ExpectedHasImages
    <3>. QED
      BY <3>4, <3>5
  <2>. QED
    BY <2>1, <2>2
<1>. QED
  BY <1>5 DEF HasImages

LEMMA MergedHasImages ==
  ASSUME NEW from, NEW ours, NEW theirs, HasImages(ours), HasImages(theirs)
  PROVE  HasImages(MergedTree(from, ours, theirs))
<1>. DEFINE m == MergedTree(from, ours, theirs)
<1>1. ASSUME NEW k \in Kinds, NEW i \in DOMAIN m.data[k]
      PROVE  m.data[k][i].image \in m.images
  <2>. DEFINE changed == Touched(from.data[k], theirs.data[k])
              D == (DOMAIN ours.data[k] \ changed) \cup (DOMAIN theirs.data[k] \cap changed)
  <2>1. /\ m.images = ours.images \cup theirs.images
        /\ m.data[k] = [n \in D |-> IF n \in changed THEN theirs.data[k][n] ELSE ours.data[k][n]]
    BY DEF MergedTree, MergedList
  <2>. HIDE DEF m, changed
  <2>2. i \in D /\ m.data[k][i] = IF i \in changed THEN theirs.data[k][i] ELSE ours.data[k][i]
    BY <1>1, <2>1
  <2>3. CASE i \in changed
    BY <2>1, <2>2, <2>3 DEF HasImages
  <2>4. CASE i \notin changed
    BY <2>1, <2>2, <2>4 DEF HasImages
  <2>. QED
    BY <2>3, <2>4
<1>. QED
  BY <1>1 DEF HasImages

LEMMA NewPullCarries ==
  ASSUME TypeOK, LabelInv, NEW r \in Requests, pc[r] = "pull"
  PROVE  CarriesImages(commits, PullRequestOf(r))
<1>. DEFINE j == job[r]
            pr == PullRequestOf(r)
<1>1. /\ pr.base = j.base /\ pr.batch = j.batch
      /\ pr.tree.images = commits[j.base].images \cup {d \in DOMAIN j.batch : j.batch[d].image}
  BY DEF PullRequestOf, TreeOf
<1>2. \A d \in DOMAIN j.batch : j.batch[d].image \/ j.batch[d].card # NoID
  BY DEF LabelInv, RequestLabels, Loaded, Processed
<1>. HIDE DEF pr
<1>3. CarriesImages(commits, pr)
  BY <1>1, <1>2 DEF CarriesImages
<1>. QED
  BY <1>3 DEF pr

LEMMA ImageStep ==
  ASSUME TypeOK, BuiltInv, ImageInv, [Next]_vars
  PROVE  ImageInv'
<1>1. /\ DOMAIN commits = 1..Len(commits) /\ DOMAIN commits' = 1..Len(commits')
      /\ Len(commits) \in Nat \ {0} /\ Main = commits[Len(commits)]
      /\ \A s \in DOMAIN commits : commits'[s] = commits[s]
  BY HistoryStep DEF Main
<1>2. ASSUME NEW s \in DOMAIN commits', s \notin DOMAIN commits
      PROVE  /\ s = Len(commits) + 1 /\ Main.images \subseteq commits'[s].images
             /\ HasImages(commits'[s])
  <2>1. PICK p \in DOMAIN prs :
          commits'[s] = MergedTree(commits[prs[p].base], Main, prs[p].tree)
    BY <1>2, HistoryStep
  <2>2. HasImages(Main) /\ HasImages(prs[p].tree)
    BY <1>1, PullHasImages DEF ImageInv, BuiltInv
  <2>3. Main.images \subseteq commits'[s].images
    BY <2>1 DEF MergedTree
  <2>4. HasImages(commits'[s])
    BY <2>1, <2>2, MergedHasImages
  <2>. QED
    BY <1>2, <2>3, <2>4, HistoryStep
<1>3. \A s \in DOMAIN commits' : HasImages(commits'[s])
  BY <1>1, <1>2 DEF ImageInv
<1>4. ASSUME NEW s \in DOMAIN commits', NEW t \in DOMAIN commits', s <= t
      PROVE  commits'[s].images \subseteq commits'[t].images
  <2>1. CASE t \in DOMAIN commits
    <3>1. s \in DOMAIN commits
      BY <1>1, <1>4, <2>1
    <3>. QED
      BY <1>1, <1>4, <2>1, <3>1 DEF ImageInv
  <2>2. CASE t \notin DOMAIN commits /\ s \in DOMAIN commits
    <3>1. commits[s].images \subseteq Main.images
      BY <1>1, <2>2 DEF ImageInv
    <3>. QED
      BY <1>1, <1>2, <2>2, <3>1
  <2>3. CASE t \notin DOMAIN commits /\ s \notin DOMAIN commits
    BY <1>2, <2>3
  <2>. QED
    BY <2>1, <2>2, <2>3
<1>5. ASSUME NEW p \in DOMAIN prs' PROVE CarriesImages(commits', prs'[p])
  <2>1. ASSUME p \in DOMAIN prs, SamePull(prs'[p], prs[p])
        PROVE  CarriesImages(commits', prs'[p])
    <3>1. CarriesImages(commits, prs[p]) /\ commits'[prs[p].base] = commits[prs[p].base]
      BY <1>1, <2>1, PullsKept DEF ImageInv
    <3>. QED
      BY <2>1, <3>1 DEF CarriesImages, SamePull
  <2>2. ASSUME NEW r \in Requests, pc[r] = "pull", prs'[p] = PullRequestOf(r),
               UNCHANGED commits
        PROVE  CarriesImages(commits', prs'[p])
    BY <2>2, NewPullCarries DEF BuiltInv
  <2>. QED
    BY <2>1, <2>2, PullsStep
<1>. QED
  BY <1>3, <1>4, <1>5 DEF ImageInv

LEMMA ImagesCorrect == Spec => [](TypeOK /\ BuiltInv /\ ImageInv)
<1>1. Init => ImageInv
  BY FirstTreeAssumption DEF Init, UpstreamInit, ImageInv, HasImages
<1>. QED
  BY <1>1, BuiltCorrect, ImageStep, PTL DEF Spec

\* Every card that was ever on main had its image there, whatever was merged
\* in which order: images travel with the cards that show them and no merge takes
\* one away.
THEOREM ImagesTravel == Spec => []MainHasImages
<1>1. ImageInv => MainHasImages
  BY DEF ImageInv, HasImages, MainHasImages
<1>. QED
  BY <1>1, ImagesCorrect, PTL

-----------------------------------------------------------------------------
(* Merging is publishing on the spot.                                      *)

\* A batch gives the same numbers on two lists that have the same cards, and so
\* it does when it adds none.
LEMMA SameNumbers ==
  ASSUME NEW list, NEW other, NEW b, NEW k,
         NewItems(b, k) = {} \/ DOMAIN list = DOMAIN other
  PROVE  /\ \A d \in ItemsOf(b, k) : AssignedID(list, b, d) = AssignedID(other, b, d)
         /\ \A i : /\ Writers(list, b, k, i) = Writers(other, b, k, i)
                   /\ Imaged(list, b, k, i) = Imaged(other, b, k, i)
<1>1. \A d \in ItemsOf(b, k) : AssignedID(list, b, d) = AssignedID(other, b, d)
  <2>1. CASE NewItems(b, k) = {}
    <3>1. \A d \in ItemsOf(b, k) : b[d].card # NoID
      BY <2>1 DEF NewItems
    <3>2. ASSUME NEW d \in ItemsOf(b, k)
          PROVE  AssignedID(list, b, d) = b[d].card /\ AssignedID(other, b, d) = b[d].card
      BY <3>1, <3>2, AssignedIs
    <3>. QED
      BY <3>2
  <2>2. CASE DOMAIN list = DOMAIN other
    <3>1. NextID(list) = NextID(other)
      BY <2>2 DEF NextID
    <3>. QED
      BY <3>1, AssignedIs
  <2>. QED
    BY <2>1, <2>2
<1>2. \A i : Writers(list, b, k, i) = Writers(other, b, k, i)
  BY <1>1 DEF Writers
<1>. QED
  BY <1>1, <1>2 DEF Imaged

\* A draft that writes a card is its author.
LEMMA WritersAreDrafts ==
  ASSUME NEW list, NEW b, IsDrafts(b), NEW k, NEW i, Writers(list, b, k, i) # {}
  PROVE  /\ Max(Writers(list, b, k, i)) \in Writers(list, b, k, i)
         /\ Writers(list, b, k, i) \subseteq ItemsOf(b, k)
         /\ CardAt(list, b, k, i).by = Max(Writers(list, b, k, i))
         /\ CardAt(list, b, k, i).fruit = b[Max(Writers(list, b, k, i))].fruit
<1>. DEFINE W == Writers(list, b, k, i)
<1>1. W \in SUBSET ItemsOf(b, k)
  BY DEF Writers
<1>2. W \subseteq Int /\ IsFiniteSet(W)
  BY <1>1, NewItemsFinite, FS_Subset
<1>3. Max(W) \in W
  BY <1>2, MaxIn
<1>. QED
  BY <1>1, <1>3 DEF CardAt

\* One card of a merge, when the batch gives the numbers it would give now.
LEMMA MergedCard ==
  ASSUME NEW from, IsDataset(from), NEW ours, IsDataset(ours), NEW b, IsDrafts(b), NEW k,
         EditsFound(from, b, k),
         \A d \in DOMAIN b : b[d].image \/ b[d].card # NoID,
         \A i \in DOMAIN from : from[i].by \notin ItemsOf(b, k),
         DOMAIN from \subseteq DOMAIN ours,
         ~ListConflict(from, ours, Expected(from, b, k)),
         NewItems(b, k) = {} \/ DOMAIN from = DOMAIN ours,
         NEW i
  PROVE  /\ i \in Touched(from, Expected(from, b, k))
              => /\ Writers(ours, b, k, i) # {}
                 /\ i \in DOMAIN Expected(from, b, k)
                 /\ Expected(from, b, k)[i] = CardAt(ours, b, k, i)
         /\ i \notin Touched(from, Expected(from, b, k)) => Writers(ours, b, k, i) = {}
<1>. DEFINE theirs == Expected(from, b, k)
            W == Writers(from, b, k, i)
            M == Imaged(from, b, k, i)
<1>1. W = Writers(ours, b, k, i) /\ M = Imaged(ours, b, k, i)
  BY SameNumbers
<1>2. /\ theirs = [n \in ExpectedIDs(from, b, k) |-> CardAt(from, b, k, n)]
      /\ ExpectedIDs(from, b, k) = DOMAIN from \cup {AssignedID(from, b, d) : d \in ItemsOf(b, k)}
  BY ExpectedIs DEF ExpectedIDs
<1>3. W # {} => i \in DOMAIN theirs /\ theirs[i] = CardAt(from, b, k, i)
  BY <1>2 DEF Writers
<1>4. ASSUME W # {}, M = {}, i \in Touched(from, theirs)
      PROVE  ours[i].image = from[i].image
  <2>1. i \in DOMAIN from
    BY <1>4, ImageKept
  <2>2. CASE i \notin Touched(from, ours)
    <3>1. SameAt(from, ours, i)
      BY <2>1, <2>2 DEF Touched
    <3>. QED
      BY <2>1, <3>1 DEF SameAt
  <2>3. CASE i \in Touched(from, ours)
    <3>1. SameAt(ours, theirs, i)
      BY <1>4, <2>3 DEF ListConflict
    <3>2. ours[i] = CardAt(from, b, k, i)
      BY <1>3, <1>4, <3>1 DEF SameAt
    <3>3. CardAt(from, b, k, i).image = from[i].image
      BY <1>4 DEF CardAt
    <3>. QED
      BY <3>2, <3>3
  <2>. QED
    BY <2>2, <2>3
<1>5. ASSUME i \in Touched(from, theirs)
      PROVE  W # {} /\ i \in DOMAIN theirs /\ theirs[i] = CardAt(ours, b, k, i)
  <2>1. W # {}
    BY <1>5, ExpectedTouches DEF Writers
  <2>2. CardAt(from, b, k, i) = CardAt(ours, b, k, i)
    BY <1>1, <1>4, <1>5, <2>1 DEF CardAt
  <2>. QED
    BY <1>3, <2>1, <2>2
<1>6. ASSUME i \notin Touched(from, theirs), W # {} PROVE FALSE
  <2>1. i \in DOMAIN theirs /\ theirs[i] = CardAt(from, b, k, i)
    BY <1>3, <1>6
  <2>2. SameAt(from, theirs, i)
    BY <1>6, <2>1 DEF Touched
  <2>3. i \in DOMAIN from /\ from[i] = CardAt(from, b, k, i)
    BY <2>1, <2>2 DEF SameAt
  <2>4. from[i].by \in ItemsOf(b, k)
    BY <1>6, <2>3, WritersAreDrafts
  <2>. QED
    BY <2>3, <2>4
<1>. QED
  BY <1>1, <1>5, <1>6

LEMMA MergedIsExpected ==
  ASSUME NEW from, IsDataset(from), NEW ours, IsDataset(ours), NEW b, IsDrafts(b), NEW k,
         EditsFound(from, b, k),
         \A d \in DOMAIN b : b[d].image \/ b[d].card # NoID,
         \A i \in DOMAIN from : from[i].by \notin ItemsOf(b, k),
         DOMAIN from \subseteq DOMAIN ours,
         ~ListConflict(from, ours, Expected(from, b, k))
  PROVE  MergedList(from, ours, Expected(from, b, k)) \in {ours, Expected(ours, b, k)}
<1>. DEFINE theirs == Expected(from, b, k)
            changed == Touched(from, theirs)
            D == (DOMAIN ours \ changed) \cup (DOMAIN theirs \cap changed)
            m == MergedList(from, ours, theirs)
<1>1. ASSUME NEW d \in NewItems(b, k), NEW i \in DOMAIN ours \ DOMAIN from
      PROVE  m = ours
  <2>1. AssignedID(from, b, d) \in DOMAIN theirs \ DOMAIN from
    BY ExpectedAdds
  <2>. QED
    BY <2>1, BothAdded
<1>2. CASE NewItems(b, k) = {} \/ DOMAIN from = DOMAIN ours
  <2>1. m = [i \in D |-> IF i \in changed THEN theirs[i] ELSE ours[i]]
    BY DEF MergedList
  <2>2. /\ Expected(ours, b, k) = [i \in ExpectedIDs(ours, b, k) |-> CardAt(ours, b, k, i)]
        /\ ExpectedIDs(ours, b, k) = DOMAIN ours \cup {AssignedID(ours, b, d) : d \in ItemsOf(b, k)}
    BY ExpectedIs DEF ExpectedIDs
  <2>3. \A i : /\ i \in changed => /\ Writers(ours, b, k, i) # {} /\ i \in DOMAIN theirs
                                   /\ theirs[i] = CardAt(ours, b, k, i)
               /\ i \notin changed => Writers(ours, b, k, i) = {}
    BY <1>2, MergedCard
  <2>. HIDE DEF changed, theirs, m
  <2>4. D = ExpectedIDs(ours, b, k)
    <3>1. \A i : i \in {AssignedID(ours, b, d) : d \in ItemsOf(b, k)} <=> Writers(ours, b, k, i) # {}
      BY DEF Writers
    <3>. QED
      BY <2>2, <2>3, <3>1
  <2>5. \A i \in D : (IF i \in changed THEN theirs[i] ELSE ours[i]) = CardAt(ours, b, k, i)
    BY <2>3 DEF CardAt
  <2>6. m = Expected(ours, b, k)
    BY <2>1, <2>2, <2>4, <2>5
  <2>. QED
    BY <2>6 DEF m, theirs
<1>. QED
  BY <1>1, <1>2

LEMMA MergeIsSerial ==
  ASSUME TypeOK, BuiltInv, ImageInv, NEW p \in DOMAIN prs, MergesPull(p),
         NEW k \in Kinds, InOrder(prs[p], k)
  PROVE  Main'.data[k] \in {Main.data[k], Expected(Main.data[k], prs[p].batch, k)}
<1>. DEFINE b == prs[p].batch
            from == commits[prs[p].base].data[k]
            ours == Main.data[k]
            theirs == prs[p].tree.data[k]
<1>1. Main'.data[k] = MergedList(from, ours, theirs) /\ ~ListConflict(from, ours, theirs)
  BY MainOfMerge
<1>2. IsDataset(from) /\ IsDataset(ours) /\ IsDrafts(b)
  BY PullData
<1>3. ItemsOf(b, k) = {} => theirs = from
  BY BuiltFromIs DEF BuiltInv, BuiltFrom
<1>4. /\ ItemsOf(b, k) = {} \/ BuiltFromBase(prs[p], k)
      /\ BuiltFromBase(prs[p], k) => EditsFound(from, b, k) /\ theirs = Expected(from, b, k)
      /\ \A i \in DOMAIN from : from[i].by \notin ItemsOf(b, k)
      /\ DOMAIN from \subseteq DOMAIN ours
  BY DEF InOrder, BuiltFromBase
<1>5. \A d \in DOMAIN b : b[d].image \/ b[d].card # NoID
  BY DEF ImageInv, CarriesImages
<1>6. CASE ItemsOf(b, k) = {}
  <2>1. Published(from, b, k, from, prs[p].results)
    BY <1>2, <1>6, NothingPublished
  <2>2. EditsFound(from, b, k) /\ theirs = Expected(from, b, k)
    BY <1>3, <1>6, <2>1 DEF Published
  <2>. HIDE DEF b, from, ours, theirs
  <2>. QED
    BY <1>1, <1>2, <1>4, <1>5, <2>2, MergedIsExpected DEF b, ours
<1>7. CASE BuiltFromBase(prs[p], k)
  <2>. HIDE DEF b, from, ours, theirs
  <2>. QED
    BY <1>1, <1>2, <1>4, <1>5, <1>7, MergedIsExpected DEF b, ours
<1>. QED
  BY <1>4, <1>6, <1>7

\* Requests, reviewers and merges may overlap as they like: a pull request whose
\* dataset was read from its base and whose merge is without conflict does to
\* main what publishing its batch at that moment would have done, or nothing when
\* the same was merged before, for batches of any size.
THEOREM MergesAreAsIfSerial == Spec => MergesAreSerial
<1>. DEFINE Serial == \A p \in DOMAIN prs : LET pr == prs[p] IN
       pr.state = "open" /\ prs'[p].state = "merged" =>
         \A k \in Kinds : InOrder(pr, k) =>
           Main'.data[k] \in {Main.data[k], Expected(Main.data[k], pr.batch, k)}
<1>1. TypeOK /\ BuiltInv /\ ImageInv /\ [Next]_vars => [Serial]_vars
  BY OpenMerged, MergeIsSerial
<1>. QED
  BY <1>1, ImagesCorrect, PTL DEF Spec, MergesAreSerial

-----------------------------------------------------------------------------
(* Where the cards of main come from.                                      *)

\* Card card of a pull request is draft card.by of its batch, under number i.
IsItem(pr, k, i, card) ==
  /\ card.by \in ItemsOf(pr.batch, k) /\ pr.results[card.by] = i
  /\ pr.batch[card.by].fruit = card.fruit

\* Its image is that of draft card.image of its batch.
HasItemsImage(pr, k, i, card) ==
  /\ card.image \in ItemsOf(pr.batch, k) /\ pr.results[card.image] = i
  /\ pr.batch[card.image].image

\* A card of a pull request is one of a version of main no later than its base,
\* or one of its batch, with an image of either.
LEMMA PullCards ==
  ASSUME TypeOK, PullsBuiltFromMain, ImageInv, NEW p \in DOMAIN prs, NEW k \in Kinds,
         NEW i \in DOMAIN prs[p].tree.data[k]
  PROVE  \E s \in 1..prs[p].base :
           LET list == commits[s].data[k]
               card == prs[p].tree.data[k][i]
           IN \/ i \in DOMAIN list /\ card = list[i]
              \/ /\ IsItem(prs[p], k, i, card)
                 /\ (i \in DOMAIN list /\ card.image = list[i].image) \/ HasItemsImage(prs[p], k, i, card)
<1>. DEFINE pr == prs[p]
            b == pr.batch
            out == pr.tree.data[k]
<1>1. BuiltFrom(commits, pr) /\ CarriesImages(commits, pr) /\ IsDrafts(b) /\ pr.base \in 1..pr.base
  BY BuiltFromIs, PullData DEF ImageInv
<1>2. CASE ItemsOf(b, k) = {}
  <2>1. out = commits[pr.base].data[k]
    BY <1>1, <1>2 DEF BuiltFrom
  <2>. QED
    BY <1>1, <2>1
<1>3. CASE ItemsOf(b, k) # {}
  <2>1. PICK s \in 1..pr.base : Published(commits[s].data[k], b, k, out, pr.results)
    BY <1>1, <1>3 DEF BuiltFrom
  <2>. DEFINE list == commits[s].data[k]
              W == Writers(list, b, k, i)
              M == Imaged(list, b, k, i)
              card == out[i]
  <2>2. /\ EditsFound(list, b, k) /\ out = Expected(list, b, k)
        /\ \A d \in ItemsOf(b, k) : pr.results[d] = AssignedID(list, b, d)
    BY <2>1 DEF Published
  <2>3. \A d \in DOMAIN b : b[d].image \/ b[d].card # NoID
    BY <1>1 DEF CarriesImages
  <2>4. i \in DOMAIN out
    OBVIOUS
  <2>. HIDE DEF out, b, list
  <2>5. i \in ExpectedIDs(list, b, k) /\ card = CardAt(list, b, k, i)
    BY <2>2, <2>4, ExpectedIs
  <2>6. CASE W = {}
    <3>1. i \in DOMAIN list /\ card = list[i]
      BY <2>5, <2>6 DEF ExpectedIDs, Writers, CardAt
    <3>. QED
      BY <3>1 DEF list, out
  <2>7. CASE W # {}
    <3>1. /\ card.by \in W /\ W \subseteq ItemsOf(b, k) /\ card.fruit = b[card.by].fruit
      BY <1>1, <2>5, <2>7, WritersAreDrafts
    <3>2. \A d \in W : pr.results[d] = i
      BY <2>2 DEF Writers
    <3>3. card.image = IF M = {} THEN list[i].image ELSE Max(M)
      BY <2>5, <2>7 DEF CardAt
    <3>4. M = {} => i \in DOMAIN list
      BY <1>1, <2>2, <2>3, <2>7, ImageKept
    <3>5. M # {} => Max(M) \in M
      <4>1. M \in SUBSET ItemsOf(b, k)
        BY DEF Imaged, Writers
      <4>2. M \subseteq Int /\ IsFiniteSet(M)
        BY <1>1, <4>1, NewItemsFinite, FS_Subset
      <4>. QED
        BY <4>2, MaxIn
    <3>6. \A d \in M : d \in W /\ b[d].image
      BY DEF Imaged
    <3>7. IsItem(pr, k, i, card)
      BY <3>1, <3>2 DEF IsItem, b
    <3>8. (i \in DOMAIN list /\ card.image = list[i].image) \/ HasItemsImage(pr, k, i, card)
      BY <3>1, <3>2, <3>3, <3>4, <3>5, <3>6 DEF HasItemsImage, b
    <3>. QED
      BY <3>7, <3>8 DEF list, out
  <2>. QED
    BY <2>6, <2>7
<1>. QED
  BY <1>2, <1>3

\* A new version of main is the merge of a pull request.
LEMMA NewCommit ==
  ASSUME TypeOK, [Next]_vars, NEW s \in DOMAIN commits', s \notin DOMAIN commits
  PROVE  /\ s = Len(commits) + 1 /\ commits'[s] = Main'
         /\ \E p \in DOMAIN prs : /\ MergesPull(p)
                                  /\ prs'[p].state = "merged" /\ SamePull(prs'[p], prs[p])
<1>1. s = Len(commits) + 1
  BY HistoryStep
<1>2. PICK p \in DOMAIN prs : MergesPull(p)
  <2>1. commits' # commits
    OBVIOUS
  <2>. QED
    BY <2>1, UpstreamStep DEF upstreamVars, ClosesPull, DropsBranch, PushesBranch, OpensPull
<1>3. prs'[p].state = "merged" /\ SamePull(prs'[p], prs[p])
  BY <1>2, PullKept DEF MergesPull
<1>4. commits'[s] = Main'
  <2>1. Len(commits') = Len(commits) + 1
    BY <1>2, AppendSeq DEF MergesPull, TypeOK, UpstreamTypeOK
  <2>. QED
    BY <1>1, <2>1 DEF Main
<1>. QED
  BY <1>1, <1>2, <1>3, <1>4

\* A card of a merge is a card of either side.
LEMMA MergedCards ==
  ASSUME NEW from, NEW ours, NEW theirs, NEW k \in Kinds,
         NEW i \in DOMAIN MergedTree(from, ours, theirs).data[k]
  PROVE  LET card == MergedTree(from, ours, theirs).data[k][i] IN
           \/ i \in DOMAIN ours.data[k] /\ card = ours.data[k][i]
           \/ i \in DOMAIN theirs.data[k] /\ card = theirs.data[k][i]
<1>. DEFINE m == MergedTree(from, ours, theirs)
            changed == Touched(from.data[k], theirs.data[k])
            D == (DOMAIN ours.data[k] \ changed) \cup (DOMAIN theirs.data[k] \cap changed)
<1>1. m.data[k] = [n \in D |-> IF n \in changed THEN theirs.data[k][n] ELSE ours.data[k][n]]
  BY DEF MergedTree, MergedList
<1>2. i \in DOMAIN m.data[k]
  OBVIOUS
<1>. HIDE DEF m, changed
<1>3. i \in D /\ m.data[k][i] = IF i \in changed THEN theirs.data[k][i] ELSE ours.data[k][i]
  BY <1>1, <1>2
<1>4. \/ i \in DOMAIN ours.data[k] /\ m.data[k][i] = ours.data[k][i]
      \/ i \in DOMAIN theirs.data[k] /\ m.data[k][i] = theirs.data[k][i]
  BY <1>3
<1>. QED
  BY <1>4 DEF m

\* What MainIsProposed says of a card, when the pull requests are ps.
CardProposed(ps, k, i, card) ==
  \/ LET first == FirstTree.data[k] IN
       i \in DOMAIN first /\ card.by = first[i].by /\ card.fruit = first[i].fruit
  \/ \E p \in DOMAIN ps : ps[p].state = "merged" /\ IsItem(ps[p], k, i, card)

ImageProposed(ps, k, i, card) ==
  \/ i \in DOMAIN FirstTree.data[k] /\ card.image = FirstTree.data[k][i].image
  \/ \E p \in DOMAIN ps : ps[p].state = "merged" /\ HasItemsImage(ps[p], k, i, card)

AllProposed ==
  \A s \in DOMAIN commits : \A k \in Kinds : \A i \in DOMAIN commits[s].data[k] :
    /\ CardProposed(prs, k, i, commits[s].data[k][i])
    /\ ImageProposed(prs, k, i, commits[s].data[k][i])

LEMMA ProposedIs == MainIsProposed <=> AllProposed
<1>. DEFINE first(k) == FirstTree.data[k]
            byPull(k, i, card) == \E p \in MergedAs(k, i, card.by) : prs[p].batch[card.by].fruit = card.fruit
            withImage(k, i, card) == \E p \in MergedAs(k, i, card.image) : prs[p].batch[card.image].image
            Said(k, i, card) ==
              /\ (i \in DOMAIN first(k) /\ card.by = first(k)[i].by /\ card.fruit = first(k)[i].fruit)
                 \/ byPull(k, i, card)
              /\ (i \in DOMAIN first(k) /\ card.image = first(k)[i].image) \/ withImage(k, i, card)
<1>1. MainIsProposed <=>
        \A s \in DOMAIN commits : \A k \in Kinds : \A i \in DOMAIN commits[s].data[k] :
          Said(k, i, commits[s].data[k][i])
  BY DEF MainIsProposed
<1>2. ASSUME NEW k, NEW i, NEW card
      PROVE  Said(k, i, card) <=> CardProposed(prs, k, i, card) /\ ImageProposed(prs, k, i, card)
  <2>1. byPull(k, i, card)
          <=> \E p \in DOMAIN prs : prs[p].state = "merged" /\ IsItem(prs[p], k, i, card)
    BY DEF MergedAs, IsItem
  <2>2. withImage(k, i, card)
          <=> \E p \in DOMAIN prs : prs[p].state = "merged" /\ HasItemsImage(prs[p], k, i, card)
    BY DEF MergedAs, HasItemsImage
  <2>. HIDE DEF byPull, withImage
  <2>. QED
    BY <2>1, <2>2 DEF CardProposed, ImageProposed
<1>. HIDE DEF Said
<1>. QED
  BY <1>1, <1>2 DEF AllProposed

\* What was proposed stays so.
LEMMA ProposedKept ==
  ASSUME TypeOK, [Next]_vars, NEW k, NEW i, NEW card
  PROVE  /\ CardProposed(prs, k, i, card) => CardProposed(prs', k, i, card)
         /\ ImageProposed(prs, k, i, card) => ImageProposed(prs', k, i, card)
<1>1. ASSUME NEW p \in DOMAIN prs, prs[p].state = "merged"
      PROVE  /\ p \in DOMAIN prs' /\ prs'[p].state = "merged"
             /\ prs'[p].batch = prs[p].batch /\ prs'[p].results = prs[p].results
  BY <1>1, PullsRemain DEF SamePull
<1>. QED
  BY <1>1 DEF CardProposed, ImageProposed, IsItem, HasItemsImage

LEMMA ProposedStep ==
  ASSUME TypeOK, PullsBuiltFromMain, ImageInv, MainIsProposed, [Next]_vars,
         NEW s \in DOMAIN commits', NEW k \in Kinds, NEW i \in DOMAIN commits'[s].data[k]
  PROVE  /\ CardProposed(prs', k, i, commits'[s].data[k][i])
         /\ ImageProposed(prs', k, i, commits'[s].data[k][i])
<1>. DEFINE P(card) == CardProposed(prs', k, i, card) /\ ImageProposed(prs', k, i, card)
<1>1. ASSUME NEW t \in DOMAIN commits, i \in DOMAIN commits[t].data[k]
      PROVE  P(commits[t].data[k][i])
  BY <1>1, ProposedIs, ProposedKept DEF AllProposed
<1>2. CASE s \in DOMAIN commits
  <2>1. commits'[s] = commits[s]
    BY <1>2, HistoryStep
  <2>. QED
    BY <1>1, <1>2, <2>1
<1>3. CASE s \notin DOMAIN commits
  <2>1. PICK p \in DOMAIN prs :
          MergesPull(p) /\ prs'[p].state = "merged" /\ SamePull(prs'[p], prs[p])
    BY <1>3, NewCommit
  <2>2. commits'[s] = MergedTree(commits[prs[p].base], Main, prs[p].tree)
    BY <1>3, <2>1, NewCommit, MainOfMerge
  <2>. DEFINE card == commits'[s].data[k][i]
  <2>3. \/ i \in DOMAIN Main.data[k] /\ card = Main.data[k][i]
        \/ i \in DOMAIN prs[p].tree.data[k] /\ card = prs[p].tree.data[k][i]
    BY <2>2, MergedCards
  <2>4. CASE i \in DOMAIN Main.data[k] /\ card = Main.data[k][i]
    <3>1. Len(commits) \in DOMAIN commits
      BY TypeFacts
    <3>. QED
      BY <1>1, <2>4, <3>1 DEF Main
  <2>5. CASE i \in DOMAIN prs[p].tree.data[k] /\ card = prs[p].tree.data[k][i]
    <3>1. PICK t \in 1..prs[p].base : LET list == commits[t].data[k] IN
            \/ i \in DOMAIN list /\ card = list[i]
            \/ /\ IsItem(prs[p], k, i, card)
               /\ (i \in DOMAIN list /\ card.image = list[i].image) \/ HasItemsImage(prs[p], k, i, card)
      BY <2>5, PullCards
    <3>2. t \in DOMAIN commits
      BY PullData
    <3>. DEFINE old == commits[t].data[k][i]
    <3>3. CASE i \in DOMAIN commits[t].data[k] /\ card = old
      BY <1>1, <3>2, <3>3
    <3>4. CASE IsItem(prs[p], k, i, card)
      <4>1. p \in DOMAIN prs' /\ IsItem(prs'[p], k, i, card)
        BY <2>1, <3>4, PullsRemain DEF SamePull, IsItem
      <4>2. CardProposed(prs', k, i, card)
        BY <2>1, <4>1 DEF CardProposed
      <4>3. CASE i \in DOMAIN commits[t].data[k] /\ card.image = old.image
        <5>1. ImageProposed(prs', k, i, old)
          BY <1>1, <3>2, <4>3
        <5>2. ImageProposed(prs', k, i, card)
          BY <4>3, <5>1 DEF ImageProposed, HasItemsImage
        <5>. QED
          BY <4>2, <5>2
      <4>4. CASE HasItemsImage(prs[p], k, i, card)
        <5>1. HasItemsImage(prs'[p], k, i, card)
          BY <2>1, <4>4 DEF SamePull, HasItemsImage
        <5>2. ImageProposed(prs', k, i, card)
          BY <2>1, <4>1, <5>1 DEF ImageProposed
        <5>. QED
          BY <4>2, <5>2
      <4>5. CASE i \in DOMAIN commits[t].data[k] /\ card = old
        BY <3>3, <4>5
      <4>. QED
        BY <3>1, <4>3, <4>4, <4>5
    <3>. QED
      BY <3>1, <3>3, <3>4
  <2>. QED
    BY <2>3, <2>4, <2>5
<1>. QED
  BY <1>2, <1>3

\* No card reaches main but under the number that a merged pull request announced
\* for its draft, and with an image of that card, however stale the files were
\* that were merged and however many pull requests wrote the card.
THEOREM CardsComeFromPulls == Spec => []MainIsProposed
<1>1. Init => MainIsProposed
  <2>. SUFFICES ASSUME Init, NEW s \in DOMAIN commits, NEW k \in Kinds, NEW i \in DOMAIN commits[s].data[k]
                PROVE  /\ CardProposed(prs, k, i, commits[s].data[k][i])
                       /\ ImageProposed(prs, k, i, commits[s].data[k][i])
    BY ProposedIs DEF AllProposed
  <2>1. commits[s] = FirstTree
    BY DEF Init, UpstreamInit
  <2>. QED
    BY <2>1 DEF CardProposed, ImageProposed
<1>2. TypeOK /\ BuiltInv /\ ImageInv /\ MainIsProposed /\ [Next]_vars => MainIsProposed'
  <2>1. MainIsProposed' <=> AllProposed'
    BY ProposedIs, PTL
  <2>. QED
    BY <2>1, ProposedStep DEF BuiltInv, AllProposed
<1>. QED
  BY <1>1, <1>2, ImagesCorrect, PTL DEF Spec

-----------------------------------------------------------------------------
(* Classifications of main.                                                *)

Classified(tree) == \A k \in Kinds : ValidDataset(tree.data[k], Values(tree.sources[Schema]))

\* All source files define the same values.
Agrees(tree) ==
  \A f, g \in 1..SourceFiles : Values(tree.sources[f]) = Values(tree.sources[g])

\* Each source file has what it had.
Extends(from, to) == \A f \in 1..SourceFiles : from.sources[f] \subseteq to.sources[f]

\* Once a classification is on main it stays, every card has its own, and all
\* source files have the same ones.
ClassInv ==
  /\ \A s, t \in DOMAIN commits : s <= t => Extends(commits[s], commits[t])
  /\ \A s \in DOMAIN commits : Classified(commits[s]) /\ Agrees(commits[s])

LEMMA ThreeSidesDiffer ==
  ASSUME NEW x, NEW y, NEW z, x # y, y # z, x # z
  PROVE  Cardinality({x, y, z}) = 3
<1>. DEFINE one == {x}
            two == one \cup {y}
<1>1. IsFiniteSet(one) /\ Cardinality(one) = 1
  BY FS_Singleton
<1>2. y \notin one /\ z \notin two /\ {x, y, z} = two \cup {z}
  OBVIOUS
<1>. HIDE DEF one
<1>3. IsFiniteSet(two) /\ Cardinality(two) = Cardinality(one) + 1
  BY <1>1, <1>2, FS_AddElement
<1>. HIDE DEF two
<1>4. Cardinality(two \cup {z}) = Cardinality(two) + 1
  BY <1>2, <1>3, FS_AddElement
<1>. QED
  BY <1>1, <1>2, <1>3, <1>4

\* A merge whose branch took nothing back has, in each file, the classifications
\* of both sides; it is the branch's file, or main's if the branch left it alone.
LEMMA MergedSources ==
  ASSUME NEW from, NEW ours, NEW theirs, ~Conflict(from, ours, theirs),
         Extends(from, theirs), Extends(from, ours), NEW f \in 1..SourceFiles
  PROVE  LET m == MergedTree(from, ours, theirs).sources[f] IN
         /\ ours.sources[f] \subseteq m /\ theirs.sources[f] \subseteq m
         /\ m = IF theirs.sources[f] = from.sources[f] THEN ours.sources[f] ELSE theirs.sources[f]
<1>1. MergedTree(from, ours, theirs).sources[f]
        = IF theirs.sources[f] = from.sources[f] THEN ours.sources[f] ELSE theirs.sources[f]
  BY DEF MergedTree, MergedSource
<1>2. from.sources[f] \subseteq theirs.sources[f] /\ from.sources[f] \subseteq ours.sources[f]
  BY DEF Extends
<1>3. CASE theirs.sources[f] = from.sources[f]
  BY <1>1, <1>2, <1>3
<1>4. CASE theirs.sources[f] # from.sources[f]
  <2>1. ours.sources[f] \in {from.sources[f], theirs.sources[f]}
    <3>. DEFINE x == from.sources[f]
                y == ours.sources[f]
                z == theirs.sources[f]
    <3>1. Cardinality({x, y, z}) # 3
      BY DEF Conflict, SourceConflict
    <3>. HIDE DEF x, y, z
    <3>2. x # z => y \in {x, z}
      BY <3>1, ThreeSidesDiffer
    <3>. QED
      BY <1>4, <3>2 DEF x, y, z
  <2>. QED
    BY <1>1, <1>2, <1>4, <2>1
<1>. QED
  BY <1>3, <1>4

\* The versions of main that a pull request can have read.
LEMMA BaseOf ==
  ASSUME TypeOK, NEW p \in DOMAIN prs
  PROVE  /\ prs[p].base \in 1..prs[p].base /\ prs[p].base \in DOMAIN commits
         /\ prs[p].base \in Nat
         /\ \A s \in 1..prs[p].base : s \in DOMAIN commits /\ s <= prs[p].base
<1>1. /\ prs[p].base \in 1..Len(commits) /\ Len(commits) \in Nat
      /\ DOMAIN commits = 1..Len(commits)
  BY TypeFacts DEF TypeOK, UpstreamTypeOK, IsPull
<1>. QED
  BY <1>1

\* The cards of a pull request that takes nothing back have their classifications
\* in it: main's had theirs, and those of the batch were on main or travel along.
LEMMA PullClassified ==
  ASSUME TypeOK, BuiltInv, ImageInv, PullsDefineWhatTheyUse, ClassInv, NEW p \in DOMAIN prs,
         Extends(commits[prs[p].base], prs[p].tree)
  PROVE  Classified(prs[p].tree)
<1>. DEFINE pr == prs[p]
            O == Values(pr.tree.sources[Schema])
            V(s) == Values(commits[s].sources[Schema])
<1>1. \A s \in 1..pr.base : V(s) \subseteq O
  <2>1. ASSUME NEW s \in 1..pr.base
        PROVE  commits[s].sources[Schema] \subseteq pr.tree.sources[Schema]
    <3>1. Extends(commits[s], commits[pr.base])
      BY BaseOf DEF ClassInv
    <3>. QED
      BY <3>1, CardDataAssumption DEF Extends
  <2>. QED
    BY <2>1 DEF Values
<1>2. ASSUME NEW d \in DOMAIN pr.batch
      PROVE  pr.batch[d].fruit \in O
  <2>1. PICK s \in 1..pr.base : DefinesFrom(commits, s, pr)
    BY DefinesIs DEF DefinesWhatItUses
  <2>. DEFINE added == Changes(pr.batch, V(s))
  <2>2. /\ pr.batch[d].fruit \in V(s) \cup Values(Defined(pr.batch))
        /\ added # {} => Values(added) \subseteq O
    BY <2>1, CardDataAssumption DEF DefinesFrom, SourcesExtended
  <2>3. CASE pr.batch[d].fruit \in V(s)
    BY <1>1, <2>3
  <2>4. CASE pr.batch[d].fruit \notin V(s)
    <3>1. PICK o \in Defined(pr.batch) : pr.batch[d].fruit = o.value
      BY <2>2, <2>4 DEF Values
    <3>2. o \in added
      BY <2>4, <3>1 DEF Changes
    <3>3. o.value \in Values(added)
      BY <3>2 DEF Values
    <3>. QED
      BY <2>2, <3>1, <3>2, <3>3
  <2>. QED
    BY <2>3, <2>4
<1>3. ASSUME NEW k \in Kinds, NEW i \in DOMAIN pr.tree.data[k]
      PROVE  pr.tree.data[k][i].fruit \in O
  <2>. DEFINE card == pr.tree.data[k][i]
  <2>1. PICK s \in 1..pr.base :
          \/ i \in DOMAIN commits[s].data[k] /\ card = commits[s].data[k][i]
          \/ IsItem(pr, k, i, card)
    BY PullCards DEF BuiltInv
  <2>2. CASE i \in DOMAIN commits[s].data[k] /\ card = commits[s].data[k][i]
    <3>1. card.fruit \in V(s)
      BY <2>2, BaseOf DEF ClassInv, Classified, ValidDataset
    <3>. QED
      BY <1>1, <3>1
  <2>3. CASE IsItem(pr, k, i, card)
    BY <1>2, <2>3 DEF IsItem, ItemsOf
  <2>. QED
    BY <2>1, <2>2, <2>3
<1>. QED
  BY <1>3 DEF Classified, ValidDataset

\* Nor do its source files disagree, though each may have been read from another
\* version of main; and it changes all of them or none.
LEMMA PullAgrees ==
  ASSUME TypeOK, PullsDefineWhatTheyUse, OneLabelPerValue, ClassInv, NEW p \in DOMAIN prs,
         Extends(commits[prs[p].base], prs[p].tree)
  PROVE  LET from == commits[prs[p].base]
             to == prs[p].tree
         IN /\ Agrees(to)
            /\ \/ \A f \in 1..SourceFiles : to.sources[f] = from.sources[f]
               \/ \A f \in 1..SourceFiles : to.sources[f] # from.sources[f]
<1>. DEFINE pr == prs[p]
            from == commits[prs[p].base]
            to == prs[p].tree
<1>1. PICK s \in 1..pr.base : DefinesFrom(commits, s, pr)
  BY DefinesIs DEF DefinesWhatItUses
<1>. DEFINE added == Changes(pr.batch, Values(commits[s].sources[Schema]))
<1>2. IF added = {} THEN to.sources = from.sources ELSE SourcesExtended(commits, s, pr, added)
  BY <1>1 DEF DefinesFrom
<1>3. Agrees(from)
  BY BaseOf DEF ClassInv
<1>4. CASE added = {}
  <2>1. to.sources = from.sources
    BY <1>2, <1>4
  <2>2. Agrees(to)
    BY <1>3, <2>1 DEF Agrees
  <2>. QED
    BY <2>1, <2>2
<1>5. CASE added # {}
  <2>1. ASSUME NEW f \in 1..SourceFiles
        PROVE  Values(to.sources[f]) = Values(from.sources[f]) \cup Values(added)
    <3>1. PICK t \in s..pr.base :
            /\ to.sources[f] \subseteq commits[t].sources[f] \cup {Entry(f, o) : o \in added}
            /\ Values(added) \subseteq Values(to.sources[f])
      <4>1. SourcesExtended(commits, s, pr, added)
        BY <1>2, <1>5
      <4>. HIDE DEF added
      <4>2. PICK read \in [1..SourceFiles -> s..pr.base] :
              LET source == commits[read[f]].sources[f] IN
              /\ to.sources[f] \subseteq source \cup {Entry(f, o) : o \in added}
              /\ Values(added) \subseteq Values(to.sources[f])
        BY <4>1 DEF SourcesExtended
      <4>3. read[f] \in s..pr.base
        OBVIOUS
      <4>. QED
        BY <4>2, <4>3
    <3>2. commits[t].sources[f] \subseteq from.sources[f] /\ from.sources[f] \subseteq to.sources[f]
      <4>1. t \in 1..pr.base
        BY BaseOf
      <4>2. Extends(commits[t], from)
        BY <4>1, BaseOf DEF ClassInv
      <4>. QED
        BY <4>2 DEF Extends
    <3>. HIDE DEF added, to, from
    <3>3. ASSUME NEW o \in to.sources[f]
          PROVE  o.value \in Values(from.sources[f]) \cup Values(added)
      <4>1. CASE o \in from.sources[f]
        BY <4>1 DEF Values
      <4>2. ASSUME NEW q \in added, o = Entry(f, q) PROVE o.value \in Values(added)
        BY <4>2 DEF Values, Entry
      <4>. QED
        BY <3>1, <3>2, <4>1, <4>2
    <3>4. Values(from.sources[f]) \subseteq Values(to.sources[f])
      BY <3>2 DEF Values
    <3>5. Values(to.sources[f]) \subseteq Values(from.sources[f]) \cup Values(added)
      BY <3>3 DEF Values
    <3>. QED
      BY <3>1, <3>4, <3>5
  <2>2. Agrees(to)
    BY <1>3, <2>1 DEF Agrees
  <2>3. ASSUME NEW f \in 1..SourceFiles, to.sources[f] = from.sources[f],
               NEW g \in 1..SourceFiles
        PROVE  to.sources[g] = from.sources[g]
    <3>1. Values(to.sources[g]) = Values(from.sources[g])
      BY <1>3, <2>2, <2>3 DEF Agrees
    <3>2. from.sources[g] \subseteq to.sources[g]
      BY DEF Extends
    <3>3. ASSUME NEW o \in to.sources[g] PROVE o \in from.sources[g]
      <4>1. PICK q \in from.sources[g] : q.value = o.value
        BY <3>1, <3>3 DEF Values
      <4>2. o = q
        BY <3>2, <3>3, <4>1 DEF OneLabelPerValue
      <4>. QED
        BY <4>2
    <3>. QED
      BY <3>2, <3>3
  <2>. QED
    BY <2>2, <2>3
<1>. QED
  BY <1>4, <1>5

LEMMA ClassStep ==
  ASSUME TypeOK, BuiltInv, ImageInv, PullsDefineWhatTheyUse, OneLabelPerValue,
         NothingReverted => ClassInv, [Next]_vars, NothingReverted'
  PROVE  ClassInv'
<1>1. /\ DOMAIN commits = 1..Len(commits) /\ DOMAIN commits' = 1..Len(commits')
      /\ Len(commits) \in Nat \ {0} /\ Main = commits[Len(commits)]
      /\ \A s \in DOMAIN commits : commits'[s] = commits[s]
  BY HistoryStep DEF Main
<1>2. ASSUME NEW p \in DOMAIN prs, p \in DOMAIN prs', SamePull(prs'[p], prs[p]),
             prs'[p].state = "merged"
      PROVE  Extends(commits[prs[p].base], prs[p].tree)
  <2>1. prs[p].base \in DOMAIN commits
    BY <1>2, PullsKept
  <2>2. commits'[prs[p].base] = commits[prs[p].base]
    BY <1>1, <2>1
  <2>3. prs'[p].base = prs[p].base /\ prs'[p].tree = prs[p].tree
    BY <1>2 DEF SamePull
  <2>4. Extends(commits'[prs'[p].base], prs'[p].tree)
    BY <1>2 DEF NothingReverted, Reverts, Extends
  <2>. QED
    BY <2>2, <2>3, <2>4
<1>3. NothingReverted
  <2>1. ASSUME NEW p \in DOMAIN prs, prs[p].state = "merged" PROVE ~Reverts(prs[p])
    BY <1>2, <2>1, PullsRemain DEF Reverts, Extends
  <2>. QED
    BY <2>1 DEF NothingReverted
<1>4. ClassInv
  BY <1>3
<1>5. ASSUME NEW s \in DOMAIN commits', s \notin DOMAIN commits
      PROVE  /\ s = Len(commits) + 1 /\ Extends(Main, commits'[s])
             /\ Classified(commits'[s]) /\ Agrees(commits'[s])
  <2>1. PICK p \in DOMAIN prs :
          MergesPull(p) /\ prs'[p].state = "merged" /\ SamePull(prs'[p], prs[p])
    BY <1>5, NewCommit
  <2>. DEFINE from == commits[prs[p].base]
              theirs == prs[p].tree
              m == MergedTree(from, Main, theirs)
  <2>2. commits'[s] = m
    BY <1>5, <2>1, NewCommit, MainOfMerge
  <2>3. Extends(from, theirs)
    BY <1>2, <2>1, PullsRemain
  <2>4. Extends(from, Main)
    <3>1. prs[p].base \in 1..Len(commits)
      BY DEF TypeOK, UpstreamTypeOK, IsPull
    <3>2. prs[p].base \in DOMAIN commits /\ Len(commits) \in DOMAIN commits
          /\ prs[p].base <= Len(commits)
      BY <1>1, <3>1
    <3>. QED
      BY <1>1, <1>4, <3>2 DEF ClassInv
  <2>5. \A f \in 1..SourceFiles :
          /\ Main.sources[f] \subseteq m.sources[f] /\ theirs.sources[f] \subseteq m.sources[f]
          /\ m.sources[f] = IF theirs.sources[f] = from.sources[f] THEN Main.sources[f]
                            ELSE theirs.sources[f]
    <3>1. ~Conflict(from, Main, theirs)
      BY <2>1 DEF MergesPull
    <3>. HIDE DEF from, theirs
    <3>. QED
      BY <2>3, <2>4, <3>1, MergedSources
  <2>6. /\ Classified(Main) /\ Classified(theirs) /\ Agrees(Main) /\ Agrees(theirs)
        /\ \/ \A f \in 1..SourceFiles : theirs.sources[f] = from.sources[f]
           \/ \A f \in 1..SourceFiles : theirs.sources[f] # from.sources[f]
    BY <1>1, <1>4, <2>3, PullClassified, PullAgrees DEF ClassInv
  <2>7. ASSUME NEW k \in Kinds, NEW i \in DOMAIN m.data[k]
        PROVE  m.data[k][i].fruit \in Values(m.sources[Schema])
    <3>1. \/ i \in DOMAIN Main.data[k] /\ m.data[k][i] = Main.data[k][i]
          \/ i \in DOMAIN theirs.data[k] /\ m.data[k][i] = theirs.data[k][i]
      BY <2>7, MergedCards
    <3>2. m.data[k][i].fruit \in Values(Main.sources[Schema]) \cup Values(theirs.sources[Schema])
      BY <2>6, <3>1 DEF Classified, ValidDataset
    <3>3. /\ Main.sources[Schema] \subseteq m.sources[Schema]
          /\ theirs.sources[Schema] \subseteq m.sources[Schema]
      BY <2>5, CardDataAssumption
    <3>. HIDE DEF m, theirs
    <3>. QED
      BY <3>2, <3>3 DEF Values
  <2>. HIDE DEF m, theirs, from
  <2>8. Classified(m)
    BY <2>7 DEF Classified, ValidDataset
  <2>9. Agrees(m)
    <3>1. \/ \A f \in 1..SourceFiles : m.sources[f] = Main.sources[f]
          \/ \A f \in 1..SourceFiles : m.sources[f] = theirs.sources[f]
      BY <2>5, <2>6
    <3>. QED
      BY <2>6, <3>1 DEF Agrees
  <2>10. Extends(Main, m)
    BY <2>5 DEF Extends
  <2>. QED
    BY <1>5, <2>2, <2>8, <2>9, <2>10, NewCommit
<1>6. \A s \in DOMAIN commits' : Classified(commits'[s]) /\ Agrees(commits'[s])
  BY <1>1, <1>4, <1>5 DEF ClassInv
<1>7. ASSUME NEW s \in DOMAIN commits', NEW t \in DOMAIN commits', s <= t
      PROVE  Extends(commits'[s], commits'[t])
  <2>1. CASE t \in DOMAIN commits
    <3>1. s \in DOMAIN commits
      BY <1>1, <1>7, <2>1
    <3>. QED
      BY <1>1, <1>4, <1>7, <2>1, <3>1 DEF ClassInv
  <2>2. CASE t \notin DOMAIN commits /\ s \in DOMAIN commits
    <3>1. Extends(commits[s], Main) /\ commits'[s] = commits[s]
      BY <1>1, <1>4, <2>2 DEF ClassInv
    <3>2. Extends(Main, commits'[t])
      BY <1>5, <2>2
    <3>. QED
      BY <3>1, <3>2 DEF Extends
  <2>3. CASE t \notin DOMAIN commits /\ s \notin DOMAIN commits
    BY <1>5, <2>3 DEF Extends
  <2>. QED
    BY <2>1, <2>2, <2>3
<1>. QED
  BY <1>6, <1>7 DEF ClassInv

LEMMA ClassCorrect == Spec => [](NothingReverted => ClassInv)
<1>1. Init => ClassInv
  BY FirstTreeAssumption
     DEF Init, UpstreamInit, ClassInv, Classified, ValidDataset, Agrees, Extends
<1>2. TypeOK /\ BuiltInv /\ ImageInv /\ PullsDefineWhatTheyUse /\ OneLabelPerValue
        /\ (NothingReverted => ClassInv) /\ [Next]_vars
      => (NothingReverted => ClassInv)'
  BY ClassStep
<1>. QED
  BY <1>1, <1>2, ImagesCorrect, ClassificationsTravel, LabelsAreUnique, PTL DEF Spec

\* As long as no pull request is merged that takes back classifications of its own
\* base, main never shows a card without its classification, whoever adds which
\* classification when: the race of the source files is the only way to it.
THEOREM CardsStayClassified == Spec => []ClassifiedUnlessReverted
<1>1. (NothingReverted => ClassInv) => ClassifiedUnlessReverted
  BY DEF ClassInv, Classified, ClassifiedUnlessReverted, MainClassified
<1>. QED
  BY <1>1, ClassCorrect, PTL

\* The source files are read one by one while main moves on, and still all files of
\* main have the same classifications as long as no pull request is merged that
\* takes some back: one that has different versions of the files and takes nothing
\* back adds the same values to all of them or changes none.
THEOREM SourcesStayTogether == Spec => []SourcesAgreeUnlessReverted
<1>1. (NothingReverted => ClassInv) => SourcesAgreeUnlessReverted
  BY DEF ClassInv, Agrees, SourcesAgreeUnlessReverted
<1>. QED
  BY <1>1, ClassCorrect, PTL

=============================================================================
