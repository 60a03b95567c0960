---------------------------- MODULE SubmitProofs ----------------------------
(***************************************************************************)
(* The type invariant of Submit, for any number of submitters, requests,   *)
(* drafts, datasets and classifications, with one lemma per action, and    *)
(* what the queue owes to those who fill it.                               *)
(***************************************************************************)
EXTENDS Submit, CommonFacts

-----------------------------------------------------------------------------
(* The card data: the next ID is fresh, and adding a card or patching the  *)
(* classifications gives data of the right type.                           *)

\* The ID given to a new card is larger than every ID in the dataset: it is
\* never that of another card, and no gap is filled (NextID, validate.go:159).
THEOREM NextIDIsFresh ==
  ASSUME NEW list, IsDataset(list)
  PROVE  /\ NextID(list) \in Nat
         /\ \A i \in DOMAIN list : i < NextID(list)
<1>. DEFINE S == DOMAIN list \cup {-1}
<1>1. IsFiniteSet(S) /\ S \subseteq Int /\ S # {}
  BY FS_AddElement DEF IsDataset
<1>2. Max(S) \in S /\ \A y \in S : y <= Max(S)
  BY <1>1, MaxIn
<1>3. Max(S) \in Nat \cup {-1}
  BY <1>2 DEF IsDataset
<1>. QED
  BY <1>2, <1>3 DEF NextID, IsDataset

\* Adding or replacing a card of a dataset gives a dataset.
LEMMA PutCard ==
  ASSUME NEW list, IsDataset(list), NEW id \in Nat, NEW card \in Card
  PROVE  IsDataset(Put(list, id, card))
<1>1. DOMAIN Put(list, id, card) = DOMAIN list \cup {id}
  BY DEF Put
<1>2. Put(list, id, card) \in [DOMAIN list \cup {id} -> Card]
  BY DEF Put, IsDataset
<1>3. IsFiniteSet(DOMAIN list \cup {id})
  BY FS_AddElement DEF IsDataset
<1>. QED
  BY <1>1, <1>2, <1>3 DEF IsDataset

\* Patching adds classifications, and only some of the given ones.
LEMMA EntryType ==
  ASSUME NEW f, NEW o \in Option
  PROVE  Entry(f, o) \in Option /\ Entry(f, o).value = o.value
BY CardDataAssumption DEF Entry, Option

LEMMA PatchedType ==
  ASSUME NEW f, NEW src \in SUBSET Option, NEW changes \in SUBSET Option
  PROVE  Patched(f, src, changes) \in SUBSET Option
BY EntryType DEF Patched

-----------------------------------------------------------------------------
(* Sequences and types.                                                    *)

LEMMA FunctionIsSeq ==
  ASSUME NEW n \in Nat, NEW S, NEW f \in [1..n -> S]
  PROVE  f \in Seq(S)
<1>1. [1..n -> S] \in {[1..m -> S] : m \in Nat}
  OBVIOUS
<1>2. f \in UNION {[1..m -> S] : m \in Nat}
  BY <1>1
<1>. QED
  BY <1>2, SeqDef, Zenon

LEMMA AppendSeq ==
  ASSUME NEW s, IsSeq(s), NEW x
  PROVE  /\ Len(s) \in Nat
         /\ DOMAIN s = 1..Len(s)
         /\ IsSeq(Append(s, x))
         /\ Len(Append(s, x)) = Len(s) + 1
         /\ DOMAIN Append(s, x) = 1..Len(s) + 1
         /\ \A i \in 1..Len(s) : Append(s, x)[i] = s[i]
         /\ Append(s, x)[Len(s) + 1] = x
<1>. DEFINE S == Range(s) \cup {x}
            t == Append(s, x)
<1>1. s \in Seq(S)
  BY SeqMonotonic DEF IsSeq
<1>2. Len(s) \in Nat /\ DOMAIN s = 1..Len(s)
  BY <1>1, LenProperties
<1>3. /\ t \in Seq(S)
      /\ Len(t) = Len(s) + 1
      /\ \A i \in 1..Len(s) : t[i] = s[i]
      /\ t[Len(s) + 1] = x
  BY <1>1, <1>2
<1>4. DOMAIN t = 1..Len(s) + 1
  BY <1>3, LenProperties
<1>5. t \in [1..Len(t) -> Range(t)]
  BY <1>3, <1>4, LenProperties DEF Range
<1>6. t \in Seq(Range(t))
  <2>1. Len(t) \in Nat
    BY <1>2, <1>3
  <2>. HIDE DEF t
  <2>. QED
    BY <1>5, <2>1, FunctionIsSeq
<1>. QED
  BY <1>2, <1>3, <1>4, <1>6 DEF IsSeq

LEMMA ExceptIsSeq ==
  ASSUME NEW s, IsSeq(s), NEW i \in DOMAIN s, NEW x
  PROVE  /\ IsSeq([s EXCEPT ![i] = x])
         /\ Len([s EXCEPT ![i] = x]) = Len(s)
<1>. DEFINE S == Range(s) \cup {x}
            t == [s EXCEPT ![i] = x]
<1>1. s \in Seq(S)
  BY SeqMonotonic DEF IsSeq
<1>2. Len(s) \in Nat /\ DOMAIN s = 1..Len(s)
  BY <1>1, LenProperties
<1>3. t \in Seq(S) /\ Len(t) = Len(s)
  BY <1>1, <1>2, ExceptSeq
<1>4. t \in [1..Len(t) -> Range(t)]
  BY <1>3, LenProperties DEF Range
<1>5. t \in Seq(Range(t))
  BY <1>2, <1>3, <1>4, FunctionIsSeq
<1>. QED
  BY <1>3, <1>5 DEF IsSeq

\* A type holds as more drafts, commits and pull requests are created.
LEMMA JobGrows ==
  ASSUME NEW n, NEW c, NEW p, NEW m, NEW d, NEW q,
         1..n \subseteq 1..m, 1..c \subseteq 1..d, 0..p \subseteq 0..q
  PROVE  \A j : IsJob(j, n, c, p) => IsJob(j, m, d, q)
BY DEF IsJob, IsBatch

LEMMA PullGrows ==
  ASSUME NEW n, NEW c, NEW m, NEW d, 1..n \subseteq 1..m, 1..c \subseteq 1..d
  PROVE  \A pr : IsPull(pr, n, c) => IsPull(pr, m, d)
BY DEF IsPull, IsBatch

LEMMA NoJobType ==
  ASSUME NEW n \in Nat, NEW c \in Nat \ {0}, NEW p \in Nat
  PROVE  IsJob(NoJob, n, c, p)
BY CardDataAssumption DEF NoJob, IsJob, IsBatch, IsResults, IsLists, Empty

\* Assigning a local variable of a request.
LEMMA JobFields ==
  ASSUME NEW n, NEW c, NEW p, NEW j, IsJob(j, n, c, p)
  PROVE  /\ \A b : IsBatch(b, n) /\ DOMAIN j.results \subseteq DOMAIN b
                => IsJob([j EXCEPT !.batch = b], n, c, p)
         /\ \A v \in SUBSET Fruits : IsJob([j EXCEPT !.live = v], n, c, p)
         /\ \A src \in [1..SourceFiles -> SUBSET Option], t \in 1..SourceFiles + 1 :
              IsJob([j EXCEPT !.source = src, !.path = t], n, c, p)
         /\ \A s \in 1..c : IsJob([j EXCEPT !.base = s], n, c, p)
         /\ \A q \in 0..p : IsJob([j EXCEPT !.number = q], n, c, p)
         /\ \A ls, res : IsLists(ls) /\ IsResults(res, j.batch)
                => IsJob([j EXCEPT !.lists = ls, !.results = res], n, c, p)
<1>. DEFINE Rec(bt, lv, ls, rs, sr, pt, bs, nm) ==
              [batch |-> bt, live |-> lv, lists |-> ls, results |-> rs,
               source |-> sr, path |-> pt, base |-> bs, number |-> nm]
<1>1. j = Rec(j.batch, j.live, j.lists, j.results, j.source, j.path, j.base, j.number)
  BY DEF IsJob
<1>2. ASSUME NEW b, IsBatch(b, n), DOMAIN j.results \subseteq DOMAIN b
      PROVE  IsJob([j EXCEPT !.batch = b], n, c, p)
  <2>1. [j EXCEPT !.batch = b] =
          Rec(b, j.live, j.lists, j.results, j.source, j.path, j.base, j.number)
    BY <1>1
  <2>2. IsJob(Rec(b, j.live, j.lists, j.results, j.source, j.path, j.base, j.number), n, c, p)
    BY <1>2 DEF IsJob, IsResults
  <2>. QED
    BY <2>1, <2>2
<1>3. ASSUME NEW o \in SUBSET Fruits
      PROVE  IsJob([j EXCEPT !.live = o], n, c, p)
  <2>1. [j EXCEPT !.live = o] =
          Rec(j.batch, o, j.lists, j.results, j.source, j.path, j.base, j.number)
    BY <1>1
  <2>2. IsJob(Rec(j.batch, o, j.lists, j.results, j.source, j.path, j.base, j.number), n, c, p)
    BY DEF IsJob
  <2>. QED
    BY <2>1, <2>2
<1>4. ASSUME NEW src \in [1..SourceFiles -> SUBSET Option], NEW t \in 1..SourceFiles + 1
      PROVE  IsJob([j EXCEPT !.source = src, !.path = t], n, c, p)
  <2>. DEFINE k == [j EXCEPT !.source = src]
  <2>a. k = Rec(j.batch, j.live, j.lists, j.results, src, j.path, j.base, j.number)
    BY <1>1
  <2>1. [k EXCEPT !.path = t] =
          Rec(j.batch, j.live, j.lists, j.results, src, t, j.base, j.number)
    <3>. HIDE DEF k
    <3>. QED
      BY <2>a
  <2>2. IsJob(Rec(j.batch, j.live, j.lists, j.results, src, t, j.base, j.number), n, c, p)
    BY DEF IsJob
  <2>. QED
    BY <2>1, <2>2
<1>5. ASSUME NEW s \in 1..c
      PROVE  IsJob([j EXCEPT !.base = s], n, c, p)
  <2>1. [j EXCEPT !.base = s] =
          Rec(j.batch, j.live, j.lists, j.results, j.source, j.path, s, j.number)
    BY <1>1
  <2>2. IsJob(Rec(j.batch, j.live, j.lists, j.results, j.source, j.path, s, j.number), n, c, p)
    BY DEF IsJob
  <2>. QED
    BY <2>1, <2>2
<1>6. ASSUME NEW q \in 0..p
      PROVE  IsJob([j EXCEPT !.number = q], n, c, p)
  <2>1. [j EXCEPT !.number = q] =
          Rec(j.batch, j.live, j.lists, j.results, j.source, j.path, j.base, q)
    BY <1>1
  <2>2. IsJob(Rec(j.batch, j.live, j.lists, j.results, j.source, j.path, j.base, q), n, c, p)
    BY DEF IsJob
  <2>. QED
    BY <2>1, <2>2
<1>7. ASSUME NEW ls, NEW res, IsLists(ls), IsResults(res, j.batch)
      PROVE  IsJob([j EXCEPT !.lists = ls, !.results = res], n, c, p)
  <2>. DEFINE k == [j EXCEPT !.lists = ls]
  <2>a. k = Rec(j.batch, j.live, ls, j.results, j.source, j.path, j.base, j.number)
    BY <1>1
  <2>b. [k EXCEPT !.results = res] =
          Rec(j.batch, j.live, ls, res, j.source, j.path, j.base, j.number)
    <3>. HIDE DEF k
    <3>. QED
      BY <2>a
  <2>1. [j EXCEPT !.lists = ls, !.results = res] =
          Rec(j.batch, j.live, ls, res, j.source, j.path, j.base, j.number)
    BY <2>b
  <2>2. IsJob(Rec(j.batch, j.live, ls, res, j.source, j.path, j.base, j.number), n, c, p)
    BY <1>7 DEF IsJob
  <2>. QED
    BY <2>1, <2>2
<1>. QED
  BY <1>2, <1>3, <1>4, <1>5, <1>6, <1>7

\* Assigning another variable leaves the batch alone.
LEMMA JobBatch ==
  ASSUME NEW n, NEW c, NEW p, NEW j, IsJob(j, n, c, p), NEW v, NEW w
  PROVE  /\ [j EXCEPT !.live = v].batch = j.batch
         /\ [j EXCEPT !.source = v, !.path = w].batch = j.batch
         /\ [j EXCEPT !.base = v].batch = j.batch
         /\ [j EXCEPT !.number = v].batch = j.batch
         /\ [j EXCEPT !.lists = v, !.results = w].batch = j.batch
<1>1. j = [batch |-> j.batch, live |-> j.live, lists |-> j.lists, results |-> j.results,
           source |-> j.source, path |-> j.path, base |-> j.base, number |-> j.number]
  BY DEF IsJob
<1>. QED
  BY <1>1

LEMMA DraftFields ==
  ASSUME NEW draft \in Draft(Users)
  PROVE  /\ draft.owner \in Users /\ draft.kind \in Kinds /\ draft.fruit \in Fruits
         /\ draft.card \in Nat \cup {NoID} /\ draft.new \subseteq Option
         /\ draft.image \in BOOLEAN
BY CardDataAssumption DEF Draft

LEMMA DefinedType ==
  ASSUME NEW b, NEW n, IsBatch(b, n)
  PROVE  Defined(b) \subseteq Option
<1>1. \A d \in DOMAIN b : b[d].new \subseteq Option
  BY DraftFields DEF IsBatch
<1>. QED
  BY <1>1 DEF Defined

-----------------------------------------------------------------------------
(* Merging and building trees.                                             *)

LEMMA MergedListType ==
  ASSUME NEW from, NEW ours, NEW theirs, IsDataset(ours), IsDataset(theirs)
  PROVE  IsDataset(MergedList(from, ours, theirs))
<1>. DEFINE changed == Touched(from, theirs)
            D == (DOMAIN ours \ changed) \cup (DOMAIN theirs \cap changed)
            m == MergedList(from, ours, theirs)
<1>1. m = [i \in D |-> IF i \in changed THEN theirs[i] ELSE ours[i]]
  BY DEF MergedList
<1>2. DOMAIN m = D
  BY <1>1
<1>3. m \in [D -> Card]
  <2>. HIDE DEF changed
  <2>. QED
    BY <1>1 DEF IsDataset
<1>4. D \subseteq Nat
  BY DEF IsDataset
<1>5. IsFiniteSet(D)
  <2>1. IsFiniteSet(DOMAIN ours \cup DOMAIN theirs)
    BY FS_Union DEF IsDataset
  <2>2. D \in SUBSET (DOMAIN ours \cup DOMAIN theirs)
    OBVIOUS
  <2>. QED
    BY <2>1, <2>2, FS_Subset
<1>. QED
  BY <1>2, <1>3, <1>4, <1>5 DEF IsDataset

LEMMA MergedTreeType ==
  ASSUME NEW from, NEW ours, NEW theirs, IsTree(ours), IsTree(theirs)
  PROVE  IsTree(MergedTree(from, ours, theirs))
<1>. DEFINE m == MergedTree(from, ours, theirs)
<1>1. m.data = [k \in Kinds |-> MergedList(from.data[k], ours.data[k], theirs.data[k])]
  BY DEF MergedTree
<1>2. \A k \in Kinds : IsDataset(m.data[k])
  BY <1>1, MergedListType DEF IsTree
<1>3. m.data = [k \in Kinds |-> m.data[k]]
  BY <1>1
<1>4. m.sources \in [1..SourceFiles -> SUBSET Option] /\ m.images \subseteq Nat
  BY DEF MergedTree, MergedSource, IsTree
<1>5. m = [data |-> m.data, sources |-> m.sources, images |-> m.images]
  BY DEF MergedTree
<1>. QED
  BY <1>2, <1>3, <1>4, <1>5 DEF IsTree

\* CreatePullRequest's commit is a tree.
LEMMA TreeOfType ==
  ASSUME UpstreamTypeOK, NEW j, NEW n \in Nat, NEW p, IsJob(j, n, Len(commits), p)
  PROVE  IsTree(TreeOf(j))
<1>. DEFINE t == TreeOf(j)
            from == commits[j.base]
            changes == Changes(j.batch, j.live)
<1>1. IsTree(from)
  <2>1. DOMAIN commits = 1..Len(commits)
    BY AppendSeq DEF UpstreamTypeOK
  <2>. QED
    BY <2>1 DEF UpstreamTypeOK, IsJob
<1>2. /\ t.data = [k \in Kinds |-> IF k \in DOMAIN j.lists THEN j.lists[k] ELSE from.data[k]]
      /\ t.sources = IF changes = {} THEN from.sources
                     ELSE [f \in 1..SourceFiles |-> Patched(f, j.source[f], changes)]
      /\ t.images = from.images \cup {d \in DOMAIN j.batch : j.batch[d].image}
      /\ t = [data |-> t.data, sources |-> t.sources, images |-> t.images]
  BY DEF TreeOf
<1>3. \A k \in Kinds : IsDataset(t.data[k])
  BY <1>1, <1>2 DEF IsTree, IsJob, IsLists
<1>4. t.sources \in [1..SourceFiles -> SUBSET Option]
  <2>1. changes \in SUBSET Option
    BY DefinedType DEF IsJob, Changes
  <2>2. ASSUME NEW f \in 1..SourceFiles PROVE Patched(f, j.source[f], changes) \in SUBSET Option
    BY <2>1, PatchedType DEF IsJob
  <2>. QED
    BY <1>1, <1>2, <2>2 DEF IsTree
<1>5. t.images \subseteq Nat
  BY <1>1, <1>2 DEF IsTree, IsJob, IsBatch
<1>6. t.data = [k \in Kinds |-> t.data[k]]
  BY <1>2
<1>. QED
  BY <1>2, <1>3, <1>4, <1>5, <1>6 DEF IsTree

-----------------------------------------------------------------------------
(* TypeOK is inductive: one lemma per group of actions.                    *)

\* What TypeOK says about the lengths and the head of main.
LEMMA TypeFacts ==
  ASSUME TypeOK
  PROVE  /\ Len(commits) \in Nat \ {0} /\ DOMAIN commits = 1..Len(commits)
         /\ Len(prs) \in Nat /\ DOMAIN prs = 1..Len(prs)
         /\ nextDraft \in Nat \ {0} /\ nextDraft - 1 \in Nat
         /\ IsTree(Main)
         /\ \A r \in Requests : IsJob(job[r], nextDraft - 1, Len(commits), Len(prs))
<1>1. Len(commits) \in Nat \ {0} /\ DOMAIN commits = 1..Len(commits)
  BY AppendSeq DEF TypeOK, UpstreamTypeOK
<1>2. Len(prs) \in Nat /\ DOMAIN prs = 1..Len(prs)
  BY AppendSeq DEF TypeOK, UpstreamTypeOK
<1>3. nextDraft \in Nat \ {0} /\ nextDraft - 1 \in Nat
  BY DEF TypeOK, QueueTypeOK
<1>4. IsTree(Main)
  BY <1>1 DEF TypeOK, UpstreamTypeOK, Main
<1>. QED
  BY <1>1, <1>2, <1>3, <1>4 DEF TypeOK, RequestTypeOK

LEMMA InitType == Init => TypeOK
<1>. SUFFICES ASSUME Init PROVE TypeOK
  OBVIOUS
<1>1. UpstreamTypeOK
  <2>1. /\ commits \in Seq({FirstTree}) /\ Len(commits) = 1
        /\ DOMAIN commits = {1} /\ commits[1] = FirstTree
    BY DEF Init, UpstreamInit
  <2>2. commits \in [1..1 -> Range(commits)]
    BY <2>1, LenProperties DEF Range
  <2>3. IsSeq(commits)
    BY <2>2, FunctionIsSeq DEF IsSeq
  <2>4. IsSeq(prs) /\ DOMAIN prs = {}
    BY EmptySeq DEF Init, UpstreamInit, IsSeq
  <2>. QED
    BY <2>1, <2>3, <2>4, FirstTreeAssumption DEF UpstreamTypeOK
<1>2. QueueTypeOK
  BY DEF Init, QueueTypeOK, IsBatch, Empty
<1>3. RequestTypeOK
  <2>1. Len(commits) = 1 /\ Len(prs) = 0
    BY DEF Init, UpstreamInit
  <2>2. IsJob(NoJob, nextDraft - 1, Len(commits), Len(prs))
    BY <2>1, NoJobType DEF Init
  <2>. QED
    BY <2>2 DEF Init, RequestTypeOK, Steps, Active
<1>. QED
  BY <1>1, <1>2, <1>3 DEF TypeOK

\* A step of one request, while drafts, commits and pull requests may be created.
LEMMA RequestMoves ==
  ASSUME TypeOK, NEW r \in Requests, NEW step \in Steps, NEW j,
         IsJob(j, nextDraft' - 1, Len(commits'), Len(prs')),
         step \in {"idle", "created", "failed"} => j = NoJob,
         GoTo(r, step), job' = [job EXCEPT ![r] = j],
         1..nextDraft - 1 \subseteq 1..nextDraft' - 1,
         1..Len(commits) \subseteq 1..Len(commits'),
         0..Len(prs) \subseteq 0..Len(prs')
  PROVE  RequestTypeOK'
<1>1. pc' \in [Requests -> Steps]
  BY DEF TypeOK, RequestTypeOK, GoTo
<1>2. job' = [q \in Requests |-> IF q = r THEN j ELSE job[q]]
  BY DEF TypeOK, RequestTypeOK
<1>3. \A i : IsJob(i, nextDraft - 1, Len(commits), Len(prs))
              => IsJob(i, nextDraft' - 1, Len(commits'), Len(prs'))
  <2>. DEFINE n == nextDraft - 1   c == Len(commits)   p == Len(prs)
              m == nextDraft' - 1  d == Len(commits')  q == Len(prs')
  <2>1. 1..n \subseteq 1..m /\ 1..c \subseteq 1..d /\ 0..p \subseteq 0..q
    OBVIOUS
  <2>2. \A i : IsJob(i, n, c, p) => IsJob(i, m, d, q)
    <3>. HIDE DEF n, c, p, m, d, q
    <3>. QED
      BY <2>1, JobGrows
  <2>. QED
    BY <2>2
<1>4. \A q \in Requests :
        /\ IsJob(job'[q], nextDraft' - 1, Len(commits'), Len(prs'))
        /\ ~Active(q)' => job'[q] = NoJob
  BY <1>2, <1>3 DEF TypeOK, RequestTypeOK, GoTo, Active
<1>. QED
  BY <1>1, <1>2, <1>4 DEF RequestTypeOK

\* A step of one request that changes nothing else but the branches.
LEMMA MoveType ==
  ASSUME TypeOK, NEW r \in Requests, NEW step \in Steps,
         NEW j, IsJob(j, nextDraft - 1, Len(commits), Len(prs)),
         step \in {"idle", "created", "failed"} => j = NoJob,
         GoTo(r, step), job' = [job EXCEPT ![r] = j],
         UNCHANGED <<commits, prs, queueVars, submissions>>
  PROVE  TypeOK'
<1>1. UpstreamTypeOK'
  BY DEF TypeOK, UpstreamTypeOK, queueVars
<1>2. QueueTypeOK'
  BY DEF TypeOK, QueueTypeOK, queueVars
<1>3. RequestTypeOK'
  BY RequestMoves DEF queueVars
<1>. QED
  BY <1>1, <1>2, <1>3 DEF TypeOK

LEMMA FinishIsMove ==
  ASSUME TypeOK, NEW r \in Requests, NEW step \in Steps, Finish(r, step),
         UNCHANGED <<commits, prs, queueVars, submissions>>
  PROVE  TypeOK'
<1>1. IsJob(NoJob, nextDraft - 1, Len(commits), Len(prs))
  BY TypeFacts, NoJobType
<1>. QED
  BY <1>1, MoveType DEF Finish

LEMMA ListDraftsType ==
  ASSUME TypeOK, NEW r \in Requests, ListDrafts(r)
  PROVE  TypeOK'
<1>1. PICK wanted \in SUBSET Queue(Requester[r]) :
        \/ Finish(r, "failed")
        \/ /\ job' = [job EXCEPT ![r].batch = Restrict(drafts, wanted)]
           /\ GoTo(r, "taxonomy")
  BY DEF ListDrafts
<1>2. UNCHANGED <<upstreamVars, queueVars, submissions>>
  BY DEF ListDrafts
<1>3. CASE Finish(r, "failed")
  BY <1>2, <1>3, FinishIsMove DEF Steps, upstreamVars
<1>4. CASE /\ job' = [job EXCEPT ![r].batch = Restrict(drafts, wanted)]
           /\ GoTo(r, "taxonomy")
  <2>. DEFINE b == Restrict(drafts, wanted)
              j == [NoJob EXCEPT !.batch = b]
  <2>1. IsBatch(b, nextDraft - 1)
    BY <1>1 DEF TypeOK, QueueTypeOK, IsBatch, Restrict, Queue
  <2>2. job[r] = NoJob
    BY DEF TypeOK, RequestTypeOK, ListDrafts, Active
  <2>3. job' = [job EXCEPT ![r] = j]
    BY <1>4, <2>2
  <2>4. IsJob(NoJob, nextDraft - 1, Len(commits), Len(prs))
    BY <2>2, TypeFacts
  <2>5. IsJob(j, nextDraft - 1, Len(commits), Len(prs))
    <3>1. DOMAIN NoJob.results = {}
      BY DEF NoJob, Empty
    <3>. QED
      BY <2>1, <2>4, <3>1, JobFields
  <2>. QED
    BY <1>2, <1>4, <2>3, <2>5, MoveType DEF Steps, upstreamVars
<1>. QED
  BY <1>1, <1>3, <1>4

LEMMA LoadSchemaType ==
  ASSUME TypeOK, NEW r \in Requests, LoadSchema(r)
  PROVE  TypeOK'
<1>. DEFINE v == Values(Main.sources[Schema])
            j == [job[r] EXCEPT !.live = v]
<1>1. job' = [job EXCEPT ![r] = j] /\ GoTo(r, "labels")
      /\ UNCHANGED <<upstreamVars, queueVars, submissions>>
  BY DEF LoadSchema
<1>2. v \subseteq Fruits
  BY TypeFacts, CardDataAssumption DEF IsTree, Values, Option
<1>3. IsJob(j, nextDraft - 1, Len(commits), Len(prs))
  <2>. HIDE DEF v
  <2>. QED
    BY <1>2, TypeFacts, JobFields
<1>. QED
  BY <1>1, <1>3, MoveType DEF Steps, upstreamVars

LEMMA LoadLabelsType ==
  ASSUME TypeOK, NEW r \in Requests, LoadLabels(r)
  PROVE  TypeOK'
<1>1. UNCHANGED <<upstreamVars, queueVars, submissions>>
  BY DEF LoadLabels
<1>2. CASE Finish(r, "failed")
  BY <1>1, <1>2, FinishIsMove DEF Steps, upstreamVars
<1>3. CASE GoTo(r, "items") /\ UNCHANGED job
  <2>1. job' = [job EXCEPT ![r] = job[r]]
    BY <1>3 DEF TypeOK, RequestTypeOK
  <2>2. IsJob(job[r], nextDraft - 1, Len(commits), Len(prs))
    BY TypeFacts
  <2>. QED
    BY <1>1, <1>3, <2>1, <2>2, MoveType DEF Steps, upstreamVars
<1>. QED
  BY <1>2, <1>3 DEF LoadLabels

\* What reading a source file does to the local variables.
LEMMA SourceRead ==
  ASSUME TypeOK, NEW r \in Requests, ReadSource(r)
  PROVE  \E src \in [1..SourceFiles -> SUBSET Option] :
           /\ job[r].path \in 1..SourceFiles
           /\ src[job[r].path] = Main.sources[job[r].path]
           /\ \A f \in 1..SourceFiles \ {job[r].path} : src[f] = job[r].source[f]
           /\ job' = [job EXCEPT ![r] = [job[r] EXCEPT !.source = src, !.path = job[r].path + 1]]
           /\ UNCHANGED <<upstreamVars, queueVars, submissions>>
           /\ GoTo(r, IF job[r].path = SourceFiles THEN "base" ELSE "sources")
<1>. DEFINE f == job[r].path
            src == [job[r].source EXCEPT ![f] = Main.sources[f]]
<1>1. /\ f \in 1..SourceFiles
      /\ job' = [job EXCEPT ![r].source[f] = Main.sources[f], ![r].path = f + 1]
      /\ UNCHANGED <<upstreamVars, queueVars, submissions>>
      /\ GoTo(r, IF f = SourceFiles THEN "base" ELSE "sources")
  BY DEF ReadSource
<1>2. job[r].source \in [1..SourceFiles -> SUBSET Option]
  BY TypeFacts DEF IsJob
<1>3. Main.sources[f] \in SUBSET Option
  BY <1>1, TypeFacts DEF IsTree
<1>4. /\ src \in [1..SourceFiles -> SUBSET Option]
      /\ src[f] = Main.sources[f]
      /\ \A g \in 1..SourceFiles \ {f} : src[g] = job[r].source[g]
  BY <1>1, <1>2, <1>3
<1>5. job' = [job EXCEPT ![r] = [job[r] EXCEPT !.source = src, !.path = f + 1]]
  BY <1>1 DEF TypeOK, RequestTypeOK
<1>. QED
  BY <1>1, <1>4, <1>5

LEMMA ReadSourceType ==
  ASSUME TypeOK, NEW r \in Requests, ReadSource(r)
  PROVE  TypeOK'
<1>1. PICK src \in [1..SourceFiles -> SUBSET Option] :
        /\ job[r].path \in 1..SourceFiles
        /\ job' = [job EXCEPT ![r] = [job[r] EXCEPT !.source = src, !.path = job[r].path + 1]]
        /\ UNCHANGED <<upstreamVars, queueVars, submissions>>
        /\ GoTo(r, IF job[r].path = SourceFiles THEN "base" ELSE "sources")
  BY SourceRead
<1>2. job[r].path + 1 \in 1..SourceFiles + 1
  BY <1>1, CardDataAssumption
<1>3. IsJob([job[r] EXCEPT !.source = src, !.path = job[r].path + 1],
            nextDraft - 1, Len(commits), Len(prs))
  BY <1>2, TypeFacts, JobFields
<1>. QED
  BY <1>1, <1>3, MoveType DEF Steps, upstreamVars

LEMMA GetBaseRefType ==
  ASSUME TypeOK, NEW r \in Requests, GetBaseRef(r)
  PROVE  TypeOK'
<1>. DEFINE j == [job[r] EXCEPT !.base = Len(commits)]
<1>1. job' = [job EXCEPT ![r] = j] /\ GoTo(r, "branch")
      /\ UNCHANGED <<upstreamVars, queueVars, submissions>>
  BY DEF GetBaseRef
<1>2. IsJob(j, nextDraft - 1, Len(commits), Len(prs))
  <2>1. Len(commits) \in 1..Len(commits)
    BY TypeFacts
  <2>. QED
    BY <2>1, TypeFacts, JobFields
<1>. QED
  BY <1>1, <1>2, MoveType DEF Steps, upstreamVars

LEMMA EncodeDatasetsType ==
  ASSUME TypeOK, NEW r \in Requests, EncodeDatasets(r)
  PROVE  TypeOK'
<1>1. UNCHANGED <<upstreamVars, queueVars, submissions>>
  BY DEF EncodeDatasets
<1>2. CASE Finish(r, "failed")
  BY <1>1, <1>2, FinishIsMove DEF Steps, upstreamVars
<1>3. ASSUME NEW step \in {"base", "sources"}, GoTo(r, step), job' = job
      PROVE  TypeOK'
  <2>1. job' = [job EXCEPT ![r] = job[r]]
    BY <1>3 DEF TypeOK, RequestTypeOK
  <2>2. IsJob(job[r], nextDraft - 1, Len(commits), Len(prs))
    BY TypeFacts
  <2>3. step \in Steps /\ step \notin {"idle", "created", "failed"}
    BY DEF Steps
  <2>. QED
    BY <1>1, <1>3, <2>1, <2>2, <2>3, MoveType DEF upstreamVars
<1>. QED
  BY <1>2, <1>3 DEF EncodeDatasets

LEMMA PublishItemType ==
  ASSUME TypeOK, NEW r \in Requests, PublishItem(r)
  PROVE  TypeOK'
<1>. DEFINE d == Min(Pending(r))
            draft == job[r].batch[d]
            list == ListOf(r, draft.kind)
            id == IF draft.card = NoID THEN NextID(list) ELSE draft.card
            edited == Put(list, id, Written(draft, d, list, id))
            ls == Put(job[r].lists, draft.kind, edited)
            res == Put(job[r].results, d, id)
            j == [job[r] EXCEPT !.lists = ls, !.results = res]
<1>1. UNCHANGED <<upstreamVars, queueVars, submissions>>
  BY DEF PublishItem
<1>2. CASE Finish(r, "failed")
  BY <1>1, <1>2, FinishIsMove DEF Steps, upstreamVars
<1>3. ASSUME Publishable(draft, list, Taxonomy(r)),
             job' = [job EXCEPT ![r].lists = ls, ![r].results = res],
             UNCHANGED pc
      PROVE  TypeOK'
  <2>1. /\ IsJob(job[r], nextDraft - 1, Len(commits), Len(prs))
        /\ IsBatch(job[r].batch, nextDraft - 1)
        /\ IsResults(job[r].results, job[r].batch)
        /\ IsLists(job[r].lists)
    BY TypeFacts DEF IsJob
  <2>2. d \in DOMAIN job[r].batch /\ d \in Nat
    <3>1. Pending(r) \subseteq DOMAIN job[r].batch /\ Pending(r) \subseteq Nat
      BY <2>1, TypeFacts DEF Pending, IsBatch
    <3>2. Pending(r) # {}
      BY DEF PublishItem
    <3>. QED
      BY <3>1, <3>2, MinIn
  <2>3. draft \in Draft(Users)
    BY <2>1, <2>2 DEF IsBatch
  <2>4. draft.kind \in Kinds /\ draft.fruit \in Fruits /\ draft.card \in Nat \cup {NoID}
    BY <2>3, DraftFields
  <2>. HIDE DEF d, draft
  <2>5. IsDataset(list)
    BY <2>1, <2>4, TypeFacts DEF ListOf, IsLists, IsTree
  <2>. HIDE DEF list
  <2>6. id \in Nat /\ (draft.card # NoID => id \in DOMAIN list)
    BY <1>3, <2>4, <2>5, NextIDIsFresh DEF Publishable
  <2>. HIDE DEF id
  <2>7. Written(draft, d, list, id) \in Card
    <3>1. draft.image \/ list[id] \in Card
      BY <1>3, <2>5, <2>6 DEF Publishable, IsDataset
    <3>2. list[id] \in Card => list[id].image \in Nat
      BY DEF Card
    <3>. QED
      BY <2>2, <2>4, <3>1, <3>2 DEF Written, Card
  <2>8. IsDataset(edited)
    BY <2>5, <2>6, <2>7, PutCard
  <2>. HIDE DEF edited
  <2>9. IsLists(ls)
    BY <2>1, <2>4, <2>8 DEF IsLists, Put
  <2>10. IsResults(res, job[r].batch)
    BY <2>1, <2>2, <2>6 DEF IsResults, Put
  <2>. HIDE DEF ls, res
  <2>11. IsJob(j, nextDraft - 1, Len(commits), Len(prs))
    BY <2>1, <2>9, <2>10, JobFields
  <2>12. job' = [job EXCEPT ![r] = j]
    BY <1>3 DEF TypeOK, RequestTypeOK
  <2>13. GoTo(r, "items")
    BY <1>3 DEF PublishItem, GoTo, TypeOK, RequestTypeOK
  <2>. QED
    BY <1>1, <2>11, <2>12, <2>13, MoveType DEF Steps, upstreamVars
<1>. QED
  BY <1>2, <1>3 DEF PublishItem

LEMMA CallFailsType ==
  ASSUME TypeOK, NEW r \in Requests, CallFails(r)
  PROVE  TypeOK'
BY FinishIsMove DEF CallFails, Steps, upstreamVars

LEMMA CrashType ==
  ASSUME TypeOK, Crash
  PROVE  TypeOK'
<1>1. IsJob(NoJob, nextDraft - 1, Len(commits), Len(prs))
  BY TypeFacts, NoJobType
<1>2. UNCHANGED <<upstreamVars, queueVars, submissions>>
  BY DEF Crash
<1>3. UpstreamTypeOK' /\ QueueTypeOK'
  BY <1>2 DEF TypeOK, UpstreamTypeOK, QueueTypeOK, upstreamVars, queueVars
<1>4. RequestTypeOK'
  BY <1>1, <1>2 DEF Crash, TypeOK, RequestTypeOK, upstreamVars, queueVars, Steps
<1>. QED
  BY <1>3, <1>4 DEF TypeOK

\* A step that leaves the requests alone, with more drafts or commits.
LEMMA RequestsKeepType ==
  ASSUME TypeOK, UNCHANGED <<pc, job>>,
         1..nextDraft - 1 \subseteq 1..nextDraft' - 1,
         1..Len(commits) \subseteq 1..Len(commits'),
         0..Len(prs) \subseteq 0..Len(prs')
  PROVE  RequestTypeOK'
<1>1. \A j : IsJob(j, nextDraft - 1, Len(commits), Len(prs))
              => IsJob(j, nextDraft' - 1, Len(commits'), Len(prs'))
  <2>. DEFINE n == nextDraft - 1   c == Len(commits)   p == Len(prs)
              m == nextDraft' - 1  d == Len(commits')  q == Len(prs')
  <2>1. 1..n \subseteq 1..m /\ 1..c \subseteq 1..d /\ 0..p \subseteq 0..q
    OBVIOUS
  <2>2. \A j : IsJob(j, n, c, p) => IsJob(j, m, d, q)
    <3>. HIDE DEF n, c, p, m, d, q
    <3>. QED
      BY <2>1, JobGrows
  <2>. QED
    BY <2>2
<1>. QED
  BY <1>1 DEF TypeOK, RequestTypeOK, Active

LEMMA CreateDraftType ==
  ASSUME TypeOK, NEW draft \in Draft(Users), CreateDraft(draft)
  PROVE  TypeOK'
<1>1. /\ nextDraft' = nextDraft + 1 /\ drafts' = Put(drafts, nextDraft, draft)
      /\ UNCHANGED <<commits, branches, prs, submissions, pc, job, removed>>
  BY DEF CreateDraft, upstreamVars
<1>2. nextDraft' \in Nat \ {0} /\ nextDraft' - 1 = nextDraft
      /\ 1..nextDraft - 1 \subseteq 1..nextDraft' - 1
  BY <1>1, TypeFacts
<1>3. RequestTypeOK'
  BY <1>1, <1>2, RequestsKeepType
<1>4. IsBatch(drafts', nextDraft' - 1)
  BY <1>1, <1>2, TypeFacts DEF TypeOK, QueueTypeOK, IsBatch, Put
<1>5. QueueTypeOK'
  BY <1>1, <1>2, <1>4 DEF TypeOK, QueueTypeOK
<1>6. \A pr : IsPull(pr, nextDraft - 1, Len(commits))
                => IsPull(pr, nextDraft' - 1, Len(commits))
  BY <1>2, PullGrows, Zenon
<1>7. UpstreamTypeOK'
  BY <1>1, <1>6 DEF TypeOK, UpstreamTypeOK
<1>. QED
  BY <1>3, <1>5, <1>7 DEF TypeOK

LEMMA DeleteDraftType ==
  ASSUME TypeOK, NEW d \in DOMAIN drafts, DeleteDraft(d)
  PROVE  TypeOK'
<1>1. /\ drafts' = Restrict(drafts, DOMAIN drafts \ {d}) /\ removed' = removed \cup {d}
      /\ UNCHANGED <<commits, branches, prs, nextDraft, submissions, pc, job>>
  BY DEF DeleteDraft, upstreamVars
<1>2. RequestTypeOK' /\ UpstreamTypeOK'
  BY <1>1 DEF TypeOK, RequestTypeOK, UpstreamTypeOK, Active
<1>3. QueueTypeOK'
  BY <1>1 DEF TypeOK, QueueTypeOK, IsBatch, Restrict
<1>. QED
  BY <1>2, <1>3 DEF TypeOK

LEMMA CreateRefType ==
  ASSUME TypeOK, NEW r \in Requests, CreateRef(r)
  PROVE  TypeOK'
<1>1. UNCHANGED <<commits, prs, queueVars, submissions>>
  BY DEF CreateRef
<1>2. CASE Finish(r, "failed")
  BY <1>1, <1>2, FinishIsMove DEF Steps
<1>3. CASE GoTo(r, "pull") /\ UNCHANGED job
  <2>1. job' = [job EXCEPT ![r] = job[r]]
    BY <1>3 DEF TypeOK, RequestTypeOK
  <2>. QED
    BY <1>1, <1>3, <2>1, TypeFacts, MoveType DEF Steps
<1>. QED
  BY <1>2, <1>3 DEF CreateRef

LEMMA PullRequestType ==
  ASSUME TypeOK, NEW r \in Requests
  PROVE  IsPull(PullRequestOf(r), nextDraft - 1, Len(commits))
<1>1. IsJob(job[r], nextDraft - 1, Len(commits), Len(prs))
  BY TypeFacts
<1>2. IsTree(TreeOf(job[r]))
  BY <1>1, TypeFacts, TreeOfType DEF TypeOK
<1>3. Requester[r] \in Users
  BY SubmitAssumption
<1>. QED
  BY <1>1, <1>2, <1>3 DEF PullRequestOf, IsPull, IsJob

LEMMA CreatePullType ==
  ASSUME TypeOK, NEW r \in Requests, CreatePull(r)
  PROVE  TypeOK'
<1>1. prs' = Append(prs, PullRequestOf(r))
      /\ UNCHANGED <<commits, branches, queueVars, submissions>>
  BY DEF CreatePull
<1>2. /\ IsSeq(prs') /\ Len(prs') = Len(prs) + 1 /\ DOMAIN prs' = 1..Len(prs) + 1
      /\ \A p \in 1..Len(prs) : prs'[p] = prs[p]
      /\ prs'[Len(prs) + 1] = PullRequestOf(r)
  BY <1>1, AppendSeq DEF TypeOK, UpstreamTypeOK
<1>3. \A p \in DOMAIN prs' : p \in DOMAIN prs \/ p = Len(prs) + 1
  BY <1>2, TypeFacts
<1>4. UpstreamTypeOK'
  BY <1>1, <1>2, <1>3, PullRequestType, TypeFacts DEF TypeOK, UpstreamTypeOK, queueVars
<1>5. 0..Len(prs) \subseteq 0..Len(prs') /\ Len(prs) + 1 \in 0..Len(prs')
  BY <1>2, TypeFacts
<1>6. QueueTypeOK'
  BY <1>1, <1>5 DEF TypeOK, QueueTypeOK, queueVars
<1>7. RequestTypeOK'
  <2>1. \A j : IsJob(j, nextDraft - 1, Len(commits), Len(prs))
               => IsJob(j, nextDraft - 1, Len(commits), Len(prs'))
    BY <1>5 DEF IsJob
  <2>2. IsJob(job[r], nextDraft' - 1, Len(commits'), Len(prs'))
    BY <1>1, <2>1, TypeFacts DEF queueVars
  <2>3. CASE GoTo(r, "audit") /\ job' = [job EXCEPT ![r].number = Len(prs) + 1]
    <3>. DEFINE j == [job[r] EXCEPT !.number = Len(prs) + 1]
    <3>1. IsJob(j, nextDraft' - 1, Len(commits'), Len(prs'))
      BY <1>5, <2>2, JobFields
    <3>2. job' = [job EXCEPT ![r] = j]
      BY <2>3
    <3>. HIDE DEF j
    <3>. QED
      BY <1>1, <1>5, <2>3, <3>1, <3>2, RequestMoves DEF queueVars, Steps
  <2>4. CASE Finish(r, "failed")
    <3>1. IsJob(NoJob, nextDraft' - 1, Len(commits'), Len(prs'))
      BY <1>1, <2>1, TypeFacts, NoJobType DEF queueVars
    <3>. QED
      BY <1>1, <1>5, <2>4, <3>1, RequestMoves DEF queueVars, Steps, Finish
  <2>. QED
    BY <2>3, <2>4 DEF CreatePull
<1>. QED
  BY <1>4, <1>6, <1>7 DEF TypeOK

LEMMA RecordSubmissionType ==
  ASSUME TypeOK, NEW r \in Requests, RecordSubmission(r)
  PROVE  TypeOK'
<1>1. UNCHANGED <<commits, prs, nextDraft, drafts, removed, job>> /\ GoTo(r, "cleanup")
  BY DEF RecordSubmission, upstreamVars, queueVars
<1>2. UpstreamTypeOK'
  BY <1>1 DEF TypeOK, UpstreamTypeOK
<1>3. job[r].number \in 0..Len(prs) /\ Requester[r] \in Users
  BY TypeFacts, SubmitAssumption DEF IsJob
<1>4. QueueTypeOK'
  BY <1>1, <1>3 DEF TypeOK, QueueTypeOK, RecordSubmission
<1>5. RequestTypeOK'
  <2>1. job' = [job EXCEPT ![r] = job[r]]
    BY <1>1 DEF TypeOK, RequestTypeOK
  <2>. QED
    BY <1>1, <2>1, TypeFacts, RequestMoves DEF Steps
<1>. QED
  BY <1>2, <1>4, <1>5 DEF TypeOK

LEMMA ClearDraftsType ==
  ASSUME TypeOK, NEW r \in Requests, ClearDrafts(r)
  PROVE  TypeOK'
<1>1. /\ UNCHANGED <<commits, prs, nextDraft, removed, submissions>>
      /\ Finish(r, "created")
  BY DEF ClearDrafts, upstreamVars
<1>2. UpstreamTypeOK'
  BY <1>1 DEF TypeOK, UpstreamTypeOK
<1>3. IsBatch(drafts', nextDraft - 1)
  BY DEF TypeOK, QueueTypeOK, ClearDrafts, IsBatch, Restrict
<1>4. QueueTypeOK'
  BY <1>1, <1>3 DEF TypeOK, QueueTypeOK
<1>5. RequestTypeOK'
  <2>1. IsJob(NoJob, nextDraft' - 1, Len(commits'), Len(prs'))
    BY <1>1, TypeFacts, NoJobType
  <2>. QED
    BY <1>1, <2>1, RequestMoves DEF Steps, Finish
<1>. QED
  BY <1>2, <1>4, <1>5 DEF TypeOK

\* Merging or closing changes a pull request only in its state.
LEMMA PullState ==
  ASSUME NEW pr, NEW n, NEW c, IsPull(pr, n, c), NEW state \in {"open", "merged", "closed"}
  PROVE  /\ IsPull([pr EXCEPT !.state = state], n, c)
         /\ [pr EXCEPT !.state = state].batch = pr.batch
         /\ [pr EXCEPT !.state = state].owner = pr.owner
<1>. DEFINE k == [owner |-> pr.owner, branch |-> pr.branch, base |-> pr.base,
                  tree |-> pr.tree, batch |-> pr.batch, results |-> pr.results,
                  state |-> state]
<1>1. pr = [owner |-> pr.owner, branch |-> pr.branch, base |-> pr.base, tree |-> pr.tree,
            batch |-> pr.batch, results |-> pr.results, state |-> pr.state]
  BY DEF IsPull
<1>2. [pr EXCEPT !.state = state] = k
  BY <1>1
<1>3. IsPull(k, n, c)
  BY DEF IsPull
<1>. QED
  BY <1>2, <1>3

LEMMA SetStateFacts ==
  ASSUME TypeOK, NEW p \in DOMAIN prs, NEW state \in {"open", "merged", "closed"},
         SetState(p, state)
  PROVE  /\ IsSeq(prs') /\ Len(prs') = Len(prs) /\ DOMAIN prs' = DOMAIN prs
         /\ \A q \in DOMAIN prs : /\ IsPull(prs'[q], nextDraft - 1, Len(commits))
                                 /\ prs'[q].batch = prs[q].batch
                                 /\ prs'[q].owner = prs[q].owner
<1>1. prs' = [prs EXCEPT ![p] = [prs[p] EXCEPT !.state = state]]
  BY DEF SetState
<1>2. IsSeq(prs') /\ Len(prs') = Len(prs)
  BY <1>1, ExceptIsSeq DEF TypeOK, UpstreamTypeOK
<1>3. DOMAIN prs' = DOMAIN prs
  BY <1>1
<1>4. IsPull(prs[p], nextDraft - 1, Len(commits))
  BY DEF TypeOK, UpstreamTypeOK
<1>5. \A q \in DOMAIN prs :
        prs'[q] = IF q = p THEN [prs[p] EXCEPT !.state = state] ELSE prs[q]
  BY <1>1
<1>. DEFINE pr == [prs[p] EXCEPT !.state = state]
<1>6. /\ IsPull(pr, nextDraft - 1, Len(commits))
      /\ pr.batch = prs[p].batch /\ pr.owner = prs[p].owner
  BY <1>4, PullState
<1>7. \A q \in DOMAIN prs : IsPull(prs[q], nextDraft - 1, Len(commits))
  BY DEF TypeOK, UpstreamTypeOK
<1>8. \A q \in DOMAIN prs : \/ prs'[q] = pr /\ q = p
                          \/ prs'[q] = prs[q]
  BY <1>5
<1>. HIDE DEF pr
<1>. QED
  BY <1>2, <1>3, <1>6, <1>7, <1>8

LEMMA MaintainType ==
  ASSUME TypeOK, Maintain
  PROVE  TypeOK'
<1>1. UNCHANGED <<drafts, nextDraft, removed, submissions, pc, job>>
  BY DEF Maintain, queueVars
<1>2. ASSUME NEW p \in DOMAIN prs, Merge(p)
      PROVE  TypeOK'
  <2>. DEFINE tree == MergedTree(commits[prs[p].base], Main, prs[p].tree)
  <2>1. commits' = Append(commits, tree) /\ SetState(p, "merged")
    BY <1>2 DEF Merge
  <2>2. IsTree(tree)
    BY TypeFacts, MergedTreeType DEF TypeOK, UpstreamTypeOK, IsPull
  <2>3. /\ IsSeq(commits') /\ Len(commits') = Len(commits) + 1
        /\ DOMAIN commits' = 1..Len(commits) + 1
        /\ \A s \in 1..Len(commits) : commits'[s] = commits[s]
        /\ commits'[Len(commits) + 1] = tree
    BY <2>1, AppendSeq DEF TypeOK, UpstreamTypeOK
  <2>4. \A s \in DOMAIN commits' : s \in DOMAIN commits \/ s = Len(commits) + 1
    BY <2>3, TypeFacts
  <2>5. \A s \in DOMAIN commits' : IsTree(commits'[s])
    <3>. HIDE DEF tree
    <3>. QED
      BY <2>2, <2>3, <2>4, TypeFacts DEF TypeOK, UpstreamTypeOK
  <2>6. 1..Len(commits) \subseteq 1..Len(commits') /\ Len(commits') > 0
    BY <2>3, TypeFacts
  <2>7. \A pr : IsPull(pr, nextDraft - 1, Len(commits))
                  => IsPull(pr, nextDraft - 1, Len(commits'))
    BY <2>6 DEF IsPull
  <2>8. /\ IsSeq(prs') /\ Len(prs') = Len(prs) /\ DOMAIN prs' = DOMAIN prs
        /\ \A q \in DOMAIN prs : IsPull(prs'[q], nextDraft - 1, Len(commits))
    BY <2>1, SetStateFacts
  <2>9. UpstreamTypeOK'
    BY <1>1, <2>3, <2>5, <2>6, <2>7, <2>8 DEF UpstreamTypeOK
  <2>10. QueueTypeOK'
    BY <1>1, <2>8 DEF TypeOK, QueueTypeOK
  <2>11. RequestTypeOK'
    BY <1>1, <2>6, <2>8, RequestsKeepType
  <2>. QED
    BY <2>9, <2>10, <2>11 DEF TypeOK
<1>3. ASSUME NEW p \in DOMAIN prs, Close(p)
      PROVE  TypeOK'
  <2>1. SetState(p, "closed") /\ UNCHANGED commits
    BY <1>3 DEF Close
  <2>2. /\ IsSeq(prs') /\ Len(prs') = Len(prs) /\ DOMAIN prs' = DOMAIN prs
        /\ \A q \in DOMAIN prs : IsPull(prs'[q], nextDraft - 1, Len(commits))
    BY <2>1, SetStateFacts
  <2>3. UpstreamTypeOK' /\ QueueTypeOK'
    BY <1>1, <2>1, <2>2 DEF TypeOK, UpstreamTypeOK, QueueTypeOK
  <2>4. RequestTypeOK'
    BY <1>1, <2>1, <2>2, RequestsKeepType
  <2>. QED
    BY <2>3, <2>4 DEF TypeOK
<1>4. ASSUME NEW b \in branches, DeleteBranch(b)
      PROVE  TypeOK'
  BY <1>1, <1>4 DEF DeleteBranch, TypeOK, UpstreamTypeOK, QueueTypeOK, RequestTypeOK, Active
<1>. QED
  BY <1>2, <1>3, <1>4 DEF Maintain

LEMMA TypeStep == TypeOK /\ [Next]_vars => TypeOK'
<1>. SUFFICES ASSUME TypeOK, [Next]_vars PROVE TypeOK'
  OBVIOUS
<1>1. ASSUME NEW draft \in Draft(Users), CreateDraft(draft) PROVE TypeOK'
  BY <1>1, CreateDraftType
<1>2. ASSUME NEW d \in DOMAIN drafts, DeleteDraft(d) PROVE TypeOK'
  BY <1>2, DeleteDraftType
<1>3. ASSUME NEW r \in Requests, ListDrafts(r) PROVE TypeOK'
  BY <1>3, ListDraftsType
<1>4. ASSUME NEW r \in Requests, Proceed(r) PROVE TypeOK'
  BY <1>4, LoadSchemaType, LoadLabelsType, PublishItemType, EncodeDatasetsType, ReadSourceType,
     GetBaseRefType, CreateRefType, CreatePullType, RecordSubmissionType,
     ClearDraftsType, CallFailsType DEF Proceed
<1>5. CASE Crash
  BY <1>5, CrashType
<1>6. CASE Maintain
  BY <1>6, MaintainType
<1>7. CASE UNCHANGED vars
  BY <1>7 DEF vars, upstreamVars, TypeOK, UpstreamTypeOK, QueueTypeOK, RequestTypeOK, Active
<1>. QED
  BY <1>1, <1>2, <1>3, <1>4, <1>5, <1>6, <1>7 DEF Next

\* Every table, commit, pull request and local variable keeps its type, and a
\* request refers only to commits and pull requests that exist.
THEOREM TypeCorrect == Spec => []TypeOK
BY InitType, TypeStep, PTL DEF Spec

-----------------------------------------------------------------------------
(* That no failure loses a draft, that the queue implements QueueDelivery, *)
(* and that a pull request has one submitter.  All rest on two facts about *)
(* the local variables of a request, which the type invariant does not     *)
(* give: past CreatePull its batch is in a pull request, and its batch was *)
(* queued by the person who submits it.                                    *)


\* What the queue owes its users in the states where a request is about to
\* clear the drafts it delivered.
PastDelivery == {"audit", "cleanup"}

DeliveryInv ==
  /\ NoDraftLost
  /\ \A r \in Requests : pc[r] \in PastDelivery => DOMAIN job[r].batch \subseteq Delivered
  /\ nextDraft <= MaxDrafts + 1

-----------------------------------------------------------------------------
(* How each action looks to the queue.                                     *)

LEMMA DeliveredKnown ==
  ASSUME TypeOK
  PROVE  Delivered \subseteq 1..nextDraft - 1
BY DEF TypeOK, UpstreamTypeOK, IsPull, IsBatch, Delivered

\* A step that the queue does not notice.
Quiet ==
  /\ UNCHANGED <<drafts, nextDraft, removed>>
  /\ Delivered' = Delivered
  /\ \A r \in Requests : pc'[r] \in PastDelivery
       => pc[r] \in PastDelivery /\ job'[r] = job[r]

LEMMA QuietMove ==
  ASSUME TypeOK, NEW r \in Requests, NEW step \in Steps \ PastDelivery, NEW j,
         GoTo(r, step), job' = [job EXCEPT ![r] = j], UNCHANGED <<prs, queueVars>>
  PROVE  Quiet
<1>1. \A q \in Requests \ {r} : pc'[q] = pc[q] /\ job'[q] = job[q]
  BY DEF GoTo, TypeOK, RequestTypeOK
<1>2. pc'[r] = step
  BY DEF GoTo, TypeOK, RequestTypeOK
<1>. QED
  BY <1>1, <1>2 DEF Quiet, queueVars, Delivered

LEMMA QuietRequest ==
  ASSUME TypeOK, NEW r \in Requests,
         \/ ListDrafts(r) \/ LoadSchema(r) \/ LoadLabels(r) \/ PublishItem(r) \/ EncodeDatasets(r)
         \/ ReadSource(r) \/ GetBaseRef(r) \/ CreateRef(r) \/ CallFails(r)
  PROVE  Quiet
<1>1. UNCHANGED <<prs, queueVars>>
  BY DEF ListDrafts, LoadSchema, LoadLabels, PublishItem, EncodeDatasets, ReadSource,
     GetBaseRef, CreateRef, CallFails, upstreamVars
<1>2. /\ {"taxonomy", "labels", "items", "sources", "base", "branch", "pull", "failed"}
           \subseteq Steps \ PastDelivery
      /\ job = [q \in Requests |-> job[q]] /\ pc = [q \in Requests |-> pc[q]]
  BY DEF Steps, PastDelivery, TypeOK, RequestTypeOK
<1>3. job = [job EXCEPT ![r] = job[r]]
  BY <1>2
<1>4. ASSUME NEW step \in {"taxonomy", "labels", "items", "sources", "base", "branch", "pull",
                           "failed"},
             GoTo(r, step), NEW j, job' = [job EXCEPT ![r] = j]
      PROVE  Quiet
  BY <1>1, <1>2, <1>4, QuietMove
<1>5. ASSUME Finish(r, "failed") PROVE Quiet
  BY <1>4, <1>5 DEF Finish
<1>6. CASE ListDrafts(r)
  <2>1. PICK wanted : \/ Finish(r, "failed")
                      \/ /\ job' = [job EXCEPT ![r].batch = Restrict(drafts, wanted)]
                         /\ GoTo(r, "taxonomy")
    BY <1>6 DEF ListDrafts
  <2>. QED
    BY <1>4, <1>5, <2>1
<1>7. CASE LoadSchema(r) \/ LoadLabels(r)
  BY <1>3, <1>4, <1>5, <1>7 DEF LoadSchema, LoadLabels
<1>8. CASE PublishItem(r)
  <2>1. PICK j : Finish(r, "failed") \/ (job' = [job EXCEPT ![r] = j] /\ GoTo(r, "items"))
    <3>1. pc[r] = "items" /\ (pc' = pc => GoTo(r, "items"))
      BY <1>2, <1>8 DEF PublishItem, GoTo
    <3>. QED
      BY <1>8, <3>1 DEF PublishItem
  <2>. QED
    BY <1>4, <1>5, <2>1
<1>9. CASE EncodeDatasets(r)
  BY <1>3, <1>4, <1>5, <1>9 DEF EncodeDatasets
<1>10. CASE ReadSource(r)
  BY <1>4, <1>10, SourceRead
<1>11. CASE GetBaseRef(r)
  BY <1>4, <1>11 DEF GetBaseRef
<1>12. CASE CreateRef(r)
  BY <1>3, <1>4, <1>5, <1>12 DEF CreateRef
<1>13. CASE CallFails(r)
  BY <1>5, <1>13 DEF CallFails
<1>. QED
  BY <1>6, <1>7, <1>8, <1>9, <1>10, <1>11, <1>12, <1>13

LEMMA QuietRecord ==
  ASSUME TypeOK, NEW r \in Requests, RecordSubmission(r)
  PROVE  Quiet
<1>1. UNCHANGED <<prs, queueVars, job>> /\ pc[r] = "audit" /\ GoTo(r, "cleanup")
  BY DEF RecordSubmission, upstreamVars
<1>2. \A q \in Requests \ {r} : pc'[q] = pc[q]
  BY <1>1 DEF GoTo, TypeOK, RequestTypeOK
<1>. QED
  BY <1>1, <1>2 DEF Quiet, queueVars, Delivered, PastDelivery

LEMMA QuietCrash ==
  ASSUME Crash
  PROVE  Quiet
<1>1. UNCHANGED <<prs, queueVars>>
  BY DEF Crash, upstreamVars
<1>2. \A r \in Requests : pc'[r] \notin PastDelivery
  BY DEF Crash, Active, PastDelivery
<1>. QED
  BY <1>1, <1>2 DEF Quiet, queueVars, Delivered

LEMMA QuietMaintain ==
  ASSUME TypeOK, Maintain
  PROVE  Quiet
<1>1. UNCHANGED <<drafts, nextDraft, removed, pc, job>>
  BY DEF Maintain, queueVars
<1>2. Delivered' = Delivered
  <2>1. ASSUME NEW p \in DOMAIN prs, NEW state \in {"open", "merged", "closed"},
               SetState(p, state)
        PROVE  Delivered' = Delivered
    <3>1. DOMAIN prs' = DOMAIN prs /\ \A q \in DOMAIN prs : prs'[q].batch = prs[q].batch
      BY <2>1, SetStateFacts
    <3>. QED
      BY <3>1 DEF Delivered
  <2>2. ASSUME UNCHANGED prs PROVE Delivered' = Delivered
    BY <2>2 DEF Delivered
  <2>. QED
    BY <2>1, <2>2 DEF Maintain, Merge, Close, DeleteBranch
<1>. QED
  BY <1>1, <1>2 DEF Quiet

\* The only action that delivers.
LEMMA PullDelivers ==
  ASSUME TypeOK, NEW r \in Requests, CreatePull(r)
  PROVE  /\ UNCHANGED <<drafts, nextDraft, removed>>
         /\ Delivered' = Delivered \cup DOMAIN job[r].batch
         /\ \A q \in Requests \ {r} : pc'[q] = pc[q] /\ job'[q] = job[q]
         /\ pc'[r] \in PastDelivery => job'[r].batch = job[r].batch
<1>1. prs' = Append(prs, PullRequestOf(r)) /\ UNCHANGED <<drafts, nextDraft, removed>>
  BY DEF CreatePull, queueVars
<1>2. /\ DOMAIN prs' = DOMAIN prs \cup {Len(prs) + 1}
      /\ \A p \in DOMAIN prs : prs'[p] = prs[p]
      /\ prs'[Len(prs) + 1] = PullRequestOf(r)
  <2>1. /\ Len(prs) \in Nat /\ DOMAIN prs = 1..Len(prs)
        /\ DOMAIN prs' = 1..Len(prs) + 1
        /\ \A i \in 1..Len(prs) : prs'[i] = prs[i]
        /\ prs'[Len(prs) + 1] = PullRequestOf(r)
    BY <1>1, AppendSeq DEF TypeOK, UpstreamTypeOK
  <2>2. 1..Len(prs) + 1 = (1..Len(prs)) \cup {Len(prs) + 1}
    BY <2>1
  <2>. QED
    BY <2>1, <2>2
<1>3. PullRequestOf(r).batch = job[r].batch
  BY DEF PullRequestOf
<1>4. Delivered' = Delivered \cup DOMAIN job[r].batch
  BY <1>2, <1>3 DEF Delivered
<1>5. \A q \in Requests \ {r} : pc'[q] = pc[q] /\ job'[q] = job[q]
  BY DEF CreatePull, GoTo, Finish, TypeOK, RequestTypeOK
<1>6. pc'[r] \in PastDelivery => job'[r].batch = job[r].batch
  <2>1. CASE Finish(r, "failed")
    BY <2>1 DEF Finish, GoTo, PastDelivery, TypeOK, RequestTypeOK
  <2>2. CASE job' = [job EXCEPT ![r].number = Len(prs) + 1]
    <3>1. job'[r] = [job[r] EXCEPT !.number = Len(prs) + 1]
      BY <2>2 DEF TypeOK, RequestTypeOK
    <3>. QED
      BY <3>1, TypeFacts, JobBatch
  <2>. QED
    BY <2>1, <2>2 DEF CreatePull
<1>. QED
  BY <1>1, <1>4, <1>5, <1>6

\* The only action that clears.
LEMMA ClearKeeps ==
  ASSUME TypeOK, NEW r \in Requests, ClearDrafts(r)
  PROVE  /\ UNCHANGED <<nextDraft, removed>> /\ Delivered' = Delivered
         /\ pc[r] \in PastDelivery
         /\ \/ DOMAIN drafts' = DOMAIN drafts \ DOMAIN job[r].batch
            \/ drafts' = drafts
         /\ \A q \in Requests : pc'[q] \in PastDelivery
              => pc[q] \in PastDelivery /\ job'[q] = job[q]
<1>1. UNCHANGED <<prs, nextDraft, removed>> /\ Finish(r, "created") /\ pc[r] = "cleanup"
  BY DEF ClearDrafts, upstreamVars
<1>2. \/ DOMAIN drafts' = DOMAIN drafts \ DOMAIN job[r].batch
      \/ drafts' = drafts
  <2>1. DOMAIN Restrict(drafts, DOMAIN drafts \ DOMAIN job[r].batch)
          = DOMAIN drafts \ DOMAIN job[r].batch
    BY DEF Restrict
  <2>. QED
    BY <2>1 DEF ClearDrafts
<1>3. \A q \in Requests : pc'[q] \in PastDelivery
              => pc[q] \in PastDelivery /\ job'[q] = job[q]
  BY <1>1 DEF Finish, GoTo, PastDelivery, TypeOK, RequestTypeOK
<1>. QED
  BY <1>1, <1>2, <1>3 DEF Delivered, PastDelivery

-----------------------------------------------------------------------------
(* The invariant.                                                          *)

LEMMA DeliveryInit == Init => DeliveryInv
<1>. SUFFICES ASSUME Init PROVE DeliveryInv
  OBVIOUS
<1>1. NoDraftLost
  BY DEF Init, NoDraftLost
<1>2. \A r \in Requests : pc[r] \notin PastDelivery
  BY DEF Init, PastDelivery
<1>3. nextDraft <= MaxDrafts + 1
  BY SubmitAssumption DEF Init
<1>. QED
  BY <1>1, <1>2, <1>3 DEF DeliveryInv

LEMMA DeliveryStep == TypeOK /\ DeliveryInv /\ [Next]_vars => DeliveryInv'
<1>. SUFFICES ASSUME TypeOK, DeliveryInv, [Next]_vars PROVE DeliveryInv'
  OBVIOUS
<1>1. ASSUME Quiet PROVE DeliveryInv'
  BY <1>1 DEF Quiet, DeliveryInv, NoDraftLost
<1>2. ASSUME NEW draft \in Draft(Users), CreateDraft(draft) PROVE DeliveryInv'
  <2>1. /\ nextDraft <= MaxDrafts /\ nextDraft' = nextDraft + 1
        /\ DOMAIN drafts' = DOMAIN drafts \cup {nextDraft}
        /\ UNCHANGED <<prs, removed, pc, job>>
    BY <1>2 DEF CreateDraft, Put, upstreamVars
  <2>2. Delivered' = Delivered
    BY <2>1 DEF Delivered
  <2>3. 1..nextDraft' - 1 \subseteq (1..nextDraft - 1) \cup {nextDraft}
    BY <2>1, TypeFacts
  <2>4. nextDraft' <= MaxDrafts + 1
    BY <2>1, TypeFacts, SubmitAssumption
  <2>. QED
    BY <2>1, <2>2, <2>3, <2>4 DEF DeliveryInv, NoDraftLost
<1>3. ASSUME NEW d \in DOMAIN drafts, DeleteDraft(d) PROVE DeliveryInv'
  <2>1. /\ UNCHANGED <<prs, nextDraft, pc, job>> /\ removed' = removed \cup {d}
        /\ DOMAIN drafts' = DOMAIN drafts \ {d}
    BY <1>3 DEF DeleteDraft, Restrict, upstreamVars
  <2>. QED
    BY <2>1 DEF DeliveryInv, NoDraftLost, Delivered
<1>4. ASSUME NEW r \in Requests, CreatePull(r) PROVE DeliveryInv'
  BY <1>4, PullDelivers DEF DeliveryInv, NoDraftLost
<1>5. ASSUME NEW r \in Requests, ClearDrafts(r) PROVE DeliveryInv'
  BY <1>5, ClearKeeps DEF DeliveryInv, NoDraftLost
<1>6. ASSUME NEW r \in Requests, ListDrafts(r) \/ Proceed(r) PROVE DeliveryInv'
  BY <1>1, <1>4, <1>5, <1>6, QuietRequest, QuietRecord DEF Proceed
<1>7. CASE Crash
  BY <1>1, <1>7, QuietCrash
<1>8. CASE Maintain
  BY <1>1, <1>8, QuietMaintain
<1>9. CASE UNCHANGED vars
  BY <1>1, <1>9 DEF vars, upstreamVars, Quiet, Delivered
<1>. QED
  BY <1>2, <1>3, <1>6, <1>7, <1>8, <1>9 DEF Next

LEMMA DeliveryCorrect == Spec => [](TypeOK /\ DeliveryInv)
BY InitType, TypeStep, DeliveryInit, DeliveryStep, PTL DEF Spec

\* Whatever call fails, is lost or is cut short by a crash, a draft leaves the
\* queue only when a person removed it or a pull request carries it.
THEOREM NothingLost == Spec => []NoDraftLost
<1>1. DeliveryInv => NoDraftLost
  BY DEF DeliveryInv
<1>. QED
  BY <1>1, DeliveryCorrect, PTL

-----------------------------------------------------------------------------
(* Refinement of QueueDelivery.                                            *)

LEMMA RefinementStep ==
  ASSUME TypeOK, DeliveryInv, [Next]_vars
  PROVE  [Delivery!Next]_(Delivery!vars)
<1>1. /\ nextDraft \in Nat \ {0} /\ nextDraft - 1 <= MaxDrafts
      /\ DOMAIN drafts \subseteq 1..nextDraft - 1 /\ removed \subseteq 1..nextDraft - 1
      /\ Delivered \subseteq 1..nextDraft - 1
      /\ \A r \in Requests : DOMAIN job[r].batch \subseteq 1..nextDraft - 1
  <2>1. nextDraft \in Nat \ {0} /\ nextDraft - 1 <= MaxDrafts
    BY TypeFacts, SubmitAssumption DEF DeliveryInv
  <2>2. DOMAIN drafts \subseteq 1..nextDraft - 1 /\ removed \subseteq 1..nextDraft - 1
    BY DEF TypeOK, QueueTypeOK, IsBatch
  <2>3. \A r \in Requests : DOMAIN job[r].batch \subseteq 1..nextDraft - 1
    BY TypeFacts DEF IsBatch, IsJob
  <2>. QED
    BY <2>1, <2>2, <2>3, DeliveredKnown
<1>2. 1..nextDraft - 1 \subseteq 1..MaxDrafts
  BY <1>1, SubmitAssumption
<1>3. ASSUME Quiet PROVE UNCHANGED Delivery!vars
  BY <1>3 DEF Quiet, Delivery!vars
<1>4. ASSUME NEW draft \in Draft(Users), CreateDraft(draft) PROVE Delivery!Next
  <2>1. /\ nextDraft <= MaxDrafts /\ DOMAIN drafts' = DOMAIN drafts \cup {nextDraft}
        /\ UNCHANGED <<prs, removed>>
    BY <1>4 DEF CreateDraft, Put, upstreamVars
  <2>2. nextDraft \in 1..MaxDrafts /\ nextDraft \notin 1..nextDraft - 1
    BY <1>1, <2>1, SubmitAssumption
  <2>3. Delivery!Accept(nextDraft)
    BY <1>1, <2>1, <2>2 DEF Delivery!Accept, Delivery!Known, Delivered
  <2>. QED
    BY <2>2, <2>3 DEF Delivery!Next
<1>5. ASSUME NEW d \in DOMAIN drafts, DeleteDraft(d) PROVE Delivery!Next
  <2>1. /\ UNCHANGED prs /\ removed' = removed \cup {d}
        /\ DOMAIN drafts' = DOMAIN drafts \ {d}
    BY <1>5 DEF DeleteDraft, Restrict, upstreamVars
  <2>2. Delivery!Remove(d)
    BY <2>1 DEF Delivery!Remove, Delivered
  <2>3. d \in 1..MaxDrafts
    BY <1>1, <1>2
  <2>. QED
    BY <2>2, <2>3 DEF Delivery!Next
<1>6. ASSUME NEW r \in Requests, CreatePull(r) PROVE Delivery!Next
  <2>1. Delivery!Deliver(DOMAIN job[r].batch)
    BY <1>1, <1>6, PullDelivers
       DEF Delivery!Deliver, Delivery!Known, DeliveryInv, NoDraftLost
  <2>2. DOMAIN job[r].batch \in SUBSET (1..MaxDrafts)
    BY <1>1, <1>2
  <2>. QED
    BY <2>1, <2>2 DEF Delivery!Next
<1>7. ASSUME NEW r \in Requests, ClearDrafts(r)
      PROVE  Delivery!Next \/ UNCHANGED Delivery!vars
  <2>1. CASE DOMAIN drafts' = DOMAIN drafts \ DOMAIN job[r].batch
    <3>1. Delivery!Clear(DOMAIN job[r].batch)
      BY <1>7, <2>1, ClearKeeps DEF Delivery!Clear, DeliveryInv
    <3>2. DOMAIN job[r].batch \in SUBSET (1..MaxDrafts)
      BY <1>1, <1>2
    <3>. QED
      BY <3>1, <3>2 DEF Delivery!Next
  <2>2. CASE drafts' = drafts
    BY <1>7, <2>2, ClearKeeps DEF Delivery!vars
  <2>. QED
    BY <1>7, <2>1, <2>2, ClearKeeps
<1>8. ASSUME NEW r \in Requests, ListDrafts(r) \/ Proceed(r)
      PROVE  Delivery!Next \/ UNCHANGED Delivery!vars
  BY <1>3, <1>6, <1>7, <1>8, QuietRequest, QuietRecord DEF Proceed
<1>9. CASE Crash
  BY <1>3, <1>9, QuietCrash
<1>10. CASE Maintain
  BY <1>3, <1>10, QuietMaintain
<1>11. CASE UNCHANGED vars
  BY <1>11 DEF vars, upstreamVars, Delivery!vars, Delivered
<1>. QED
  BY <1>4, <1>5, <1>8, <1>9, <1>10, <1>11 DEF Next

\* Seen through the three sets of drafts (queued, in a pull request, removed),
\* the program behaves as QueueDelivery: each of its steps is one of the
\* queue's, or none.
THEOREM ImplementsDelivery == Spec => DeliveryImplemented
<1>1. Init => Delivery!Init
  BY DEF Init, UpstreamInit, Delivery!Init, Delivered, Empty
<1>2. TypeOK /\ DeliveryInv /\ [Next]_vars => [Delivery!Next]_(Delivery!vars)
  BY RefinementStep
<1>. QED
  BY <1>1, <1>2, DeliveryCorrect, PTL DEF Spec, DeliveryImplemented, Delivery!Spec

-----------------------------------------------------------------------------
(* One submitter.                                                          *)

OwnBatch(r) == \A d \in DOMAIN job[r].batch : job[r].batch[d].owner = Requester[r]

OwnerInv == OneSubmitter /\ \A r \in Requests : OwnBatch(r)

\* The batch of a request changes when it begins and when it ends.
LEMMA BatchMoves ==
  ASSUME TypeOK, NEW r \in Requests, ListDrafts(r) \/ Proceed(r), NEW q \in Requests
  PROVE  \/ job'[q].batch = job[q].batch
         \/ DOMAIN job'[q].batch = {}
         \/ /\ q = r
            /\ \E wanted \in SUBSET Queue(Requester[r]) :
                 job'[r].batch = Restrict(drafts, wanted)
<1>1. /\ job = [i \in Requests |-> job[i]]
      /\ IsJob(job[r], nextDraft - 1, Len(commits), Len(prs))
  BY TypeFacts DEF TypeOK, RequestTypeOK
<1>2. ASSUME NEW step, Finish(r, step)
      PROVE  job'[q].batch = job[q].batch \/ DOMAIN job'[q].batch = {}
  <2>1. job'[q] = job[q] \/ job'[q] = NoJob
    BY <1>1, <1>2 DEF Finish
  <2>. QED
    BY <2>1 DEF NoJob, Empty
<1>3. ASSUME NEW j, job' = [job EXCEPT ![r] = j], j.batch = job[r].batch
      PROVE  job'[q].batch = job[q].batch
  BY <1>1, <1>3
<1>4. CASE ListDrafts(r)
  <2>1. PICK wanted \in SUBSET Queue(Requester[r]) :
          \/ Finish(r, "failed")
          \/ job' = [job EXCEPT ![r].batch = Restrict(drafts, wanted)]
    BY <1>4 DEF ListDrafts
  <2>2. CASE job' = [job EXCEPT ![r].batch = Restrict(drafts, wanted)]
    <3>1. job[r] = NoJob
      BY <1>4 DEF TypeOK, RequestTypeOK, ListDrafts, Active
    <3>2. job'[r] = [NoJob EXCEPT !.batch = Restrict(drafts, wanted)]
      BY <1>1, <2>2, <3>1
    <3>3. job'[r].batch = Restrict(drafts, wanted)
      BY <3>2 DEF NoJob
    <3>4. q # r => job'[q] = job[q]
      BY <1>1, <2>2
    <3>. QED
      BY <3>3, <3>4
  <2>. QED
    BY <1>2, <2>1, <2>2
<1>5. CASE LoadSchema(r)
  <2>. DEFINE j == [job[r] EXCEPT !.live = Values(Main.sources[Schema])]
  <2>1. j.batch = job[r].batch
    BY <1>1, JobBatch
  <2>2. job' = [job EXCEPT ![r] = j]
    BY <1>5 DEF LoadSchema
  <2>. HIDE DEF j
  <2>. QED
    BY <1>3, <2>1, <2>2
<1>6. CASE PublishItem(r)
  <2>1. PICK ls, res : \/ Finish(r, "failed")
                       \/ job' = [job EXCEPT ![r].lists = ls, ![r].results = res]
    BY <1>6 DEF PublishItem
  <2>2. CASE job' = [job EXCEPT ![r].lists = ls, ![r].results = res]
    <3>. DEFINE j == [job[r] EXCEPT !.lists = ls, !.results = res]
    <3>1. job' = [job EXCEPT ![r] = j]
      BY <1>1, <2>2
    <3>2. j.batch = job[r].batch
      BY <1>1, JobBatch
    <3>. QED
      BY <1>3, <3>1, <3>2
  <2>. QED
    BY <1>2, <2>1, <2>2
<1>7. CASE LoadLabels(r) \/ EncodeDatasets(r) \/ CreateRef(r) \/ RecordSubmission(r)
  BY <1>2, <1>7 DEF LoadLabels, EncodeDatasets, CreateRef, RecordSubmission
<1>8. CASE ReadSource(r)
  <2>1. PICK src : job' = [job EXCEPT ![r] =
                             [job[r] EXCEPT !.source = src, !.path = job[r].path + 1]]
    BY <1>8, SourceRead
  <2>2. [job[r] EXCEPT !.source = src, !.path = job[r].path + 1].batch = job[r].batch
    BY <1>1, JobBatch
  <2>. QED
    BY <1>3, <2>1, <2>2
<1>9. CASE GetBaseRef(r)
  BY <1>1, <1>3, <1>9, JobBatch DEF GetBaseRef
<1>10. CASE CreatePull(r)
  <2>. DEFINE j == [job[r] EXCEPT !.number = Len(prs) + 1]
  <2>1. j.batch = job[r].batch
    BY <1>1, JobBatch
  <2>2. Finish(r, "failed") \/ job' = [job EXCEPT ![r] = j]
    BY <1>10 DEF CreatePull
  <2>. HIDE DEF j
  <2>. QED
    BY <1>2, <1>3, <2>1, <2>2
<1>11. CASE ClearDrafts(r) \/ CallFails(r)
  BY <1>2, <1>11 DEF ClearDrafts, CallFails
<1>. QED
  BY <1>4, <1>5, <1>6, <1>7, <1>8, <1>9, <1>10, <1>11 DEF Proceed

LEMMA OwnBatchStep ==
  ASSUME TypeOK, \A r \in Requests : OwnBatch(r), [Next]_vars, NEW q \in Requests
  PROVE  OwnBatch(q)'
<1>1. ASSUME job'[q].batch = job[q].batch \/ DOMAIN job'[q].batch = {}
      PROVE  OwnBatch(q)'
  BY <1>1 DEF OwnBatch
<1>2. ASSUME NEW r \in Requests, ListDrafts(r) \/ Proceed(r) PROVE OwnBatch(q)'
  <2>1. ASSUME NEW wanted \in SUBSET Queue(Requester[r]), q = r,
               job'[r].batch = Restrict(drafts, wanted)
        PROVE  OwnBatch(q)'
    BY <2>1 DEF OwnBatch, Queue, Restrict
  <2>. QED
    BY <1>1, <1>2, <2>1, BatchMoves
<1>3. CASE Crash
  BY <1>1, <1>3 DEF Crash, NoJob, Empty
<1>. QED
  BY <1>1, <1>2, <1>3 DEF Next, CreateDraft, DeleteDraft, Maintain, vars

\* Every card of a pull request was queued by the person the pull request is
\* attributed to, whoever else submits meanwhile.
THEOREM SubmittersSeparate == Spec => []OneSubmitter
<1>1. Init => OwnerInv
  BY DEF Init, UpstreamInit, OwnerInv, OneSubmitter, OwnBatch, NoJob, Empty
<1>2. ASSUME TypeOK, OwnerInv, [Next]_vars PROVE OwnerInv'
  <2>1. \A r \in Requests : OwnBatch(r)'
    BY <1>2, OwnBatchStep DEF OwnerInv
  <2>2. ASSUME UNCHANGED prs PROVE OneSubmitter'
    BY <1>2, <2>2 DEF OwnerInv, OneSubmitter
  <2>3. ASSUME NEW r \in Requests, CreatePull(r) PROVE OneSubmitter'
    <3>1. prs' = Append(prs, PullRequestOf(r))
      BY <2>3 DEF CreatePull
    <3>2. /\ DOMAIN prs = 1..Len(prs) /\ DOMAIN prs' = 1..Len(prs) + 1
          /\ \A p \in 1..Len(prs) : prs'[p] = prs[p]
          /\ prs'[Len(prs) + 1] = PullRequestOf(r)
      BY <1>2, <3>1, AppendSeq DEF TypeOK, UpstreamTypeOK
    <3>3. \A p \in DOMAIN prs' : p \in DOMAIN prs \/ p = Len(prs) + 1
      BY <1>2, <3>2, TypeFacts
    <3>4. PullRequestOf(r).owner = Requester[r] /\ PullRequestOf(r).batch = job[r].batch
      BY DEF PullRequestOf
    <3>. QED
      BY <1>2, <3>2, <3>3, <3>4 DEF OwnerInv, OneSubmitter, OwnBatch
  <2>4. ASSUME Maintain PROVE OneSubmitter'
    <3>1. ASSUME NEW p \in DOMAIN prs, NEW state \in {"open", "merged", "closed"},
                 SetState(p, state)
          PROVE  OneSubmitter'
      BY <1>2, <3>1, SetStateFacts DEF OwnerInv, OneSubmitter
    <3>. QED
      BY <2>2, <2>4, <3>1 DEF Maintain, Merge, Close, DeleteBranch
  <2>5. ASSUME NEW r \in Requests, ListDrafts(r) \/ Proceed(r), ~CreatePull(r)
        PROVE  UNCHANGED prs
    BY <2>5 DEF Proceed, ListDrafts, LoadSchema, LoadLabels, PublishItem, EncodeDatasets,
       ReadSource, GetBaseRef, CreateRef, RecordSubmission, ClearDrafts, CallFails,
       upstreamVars
  <2>6. OneSubmitter'
    <3>1. ASSUME NEW r \in Requests, ListDrafts(r) \/ Proceed(r) PROVE OneSubmitter'
      BY <2>2, <2>3, <2>5, <3>1
    <3>2. (\E draft \in Draft(Users) : CreateDraft(draft))
            \/ (\E d \in DOMAIN drafts : DeleteDraft(d)) \/ Crash \/ UNCHANGED vars
          => UNCHANGED prs
      BY DEF CreateDraft, DeleteDraft, Crash, vars, upstreamVars
    <3>. QED
      BY <1>2, <2>2, <2>4, <3>1, <3>2 DEF Next
  <2>. QED
    BY <2>1, <2>6 DEF OwnerInv
<1>3. OwnerInv => OneSubmitter
  BY DEF OwnerInv
<1>. QED
  BY <1>1, <1>2, <1>3, TypeCorrect, PTL DEF Spec

=============================================================================
