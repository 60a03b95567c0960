------------------------------ MODULE Upstream ------------------------------
(***************************************************************************)
(* The PPLALE-web repository on GitHub as the CMS uses it: the commits of  *)
(* main, the branches the CMS pushed, and its pull requests, which people  *)
(* merge or close.  The repository is outside the code base: what happens  *)
(* to it here is what internal/ghapp and the webhook handler rely on.      *)
(***************************************************************************)
EXTENDS CardData, Sequences

CONSTANT FirstTree        \* main before the CMS opens its first pull request

ASSUME FirstTreeAssumption ==
  /\ IsTree(FirstTree)
  /\ \A k \in Kinds : \A i \in DOMAIN FirstTree.data[k] :
       /\ FirstTree.data[k][i].fruit \in Values(FirstTree.sources[Schema])
       /\ FirstTree.data[k][i].image \in FirstTree.images
  /\ \A f \in 1..SourceFiles :
       /\ Values(FirstTree.sources[f]) = Values(FirstTree.sources[Schema])
       /\ \A o, p \in FirstTree.sources[f] : o.value = p.value => o = p

VARIABLES
  commits,     \* the history of main; a commit is named by its position
  branches,    \* the names of the branches the CMS pushed
  prs          \* the pull requests, in the order they were opened

upstreamVars == <<commits, branches, prs>>

Main == commits[Len(commits)]

IsSeq(s) == s \in Seq(Range(s))

UpstreamInit ==
  /\ commits = <<FirstTree>>
  /\ branches = {}
  /\ prs = <<>>

-----------------------------------------------------------------------------
(* Three-way merge of a pull request built on commit base into main.       *)

SameAt(f, g, i) ==
  /\ i \in DOMAIN f <=> i \in DOMAIN g
  /\ i \in DOMAIN f => f[i] = g[i]

Touched(base, list) == {i \in DOMAIN base \cup DOMAIN list : ~SameAt(base, list, i)}

\* Both sides changed a card differently, or both appended to the array.
ListConflict(base, ours, theirs) ==
  \/ \E i \in Touched(base, ours) \cap Touched(base, theirs) : ~SameAt(ours, theirs, i)
  \/ /\ DOMAIN ours \ DOMAIN base # {}
     /\ DOMAIN theirs \ DOMAIN base # {}
     /\ ours # theirs

\* Both sides changed a source file differently: what the CMS adds goes to the
\* same place of it.
SourceConflict(base, ours, theirs) == Cardinality({base, ours, theirs}) = 3

Conflict(base, ours, theirs) ==
  \/ \E k \in Kinds : ListConflict(base.data[k], ours.data[k], theirs.data[k])
  \/ \E f \in 1..SourceFiles : SourceConflict(base.sources[f], ours.sources[f], theirs.sources[f])

MergedList(base, ours, theirs) ==
  LET changed == Touched(base, theirs) IN
    [i \in (DOMAIN ours \ changed) \cup (DOMAIN theirs \cap changed) |->
       IF i \in changed THEN theirs[i] ELSE ours[i]]

MergedSource(base, ours, theirs) == IF theirs = base THEN ours ELSE theirs

MergedTree(base, ours, theirs) ==
  [data |-> [k \in Kinds |-> MergedList(base.data[k], ours.data[k], theirs.data[k])],
   sources |-> [f \in 1..SourceFiles |->
                  MergedSource(base.sources[f], ours.sources[f], theirs.sources[f])],
   images |-> ours.images \cup theirs.images]

-----------------------------------------------------------------------------
(* What people do on GitHub.                                               *)

SetState(p, state) == prs' = [prs EXCEPT ![p].state = state]

Merge(p) ==
  LET base == commits[prs[p].base] IN
  /\ prs[p].state = "open"
  /\ ~Conflict(base, Main, prs[p].tree)
  /\ commits' = Append(commits, MergedTree(base, Main, prs[p].tree))
  /\ SetState(p, "merged")
  /\ UNCHANGED branches

Close(p) ==
  /\ prs[p].state = "open"
  /\ SetState(p, "closed")
  /\ UNCHANGED <<commits, branches>>

\* A branch is deleted once no open pull request needs it.
DeleteBranch(b) ==
  /\ ~\E p \in DOMAIN prs : prs[p].branch = b /\ prs[p].state = "open"
  /\ branches' = branches \ {b}
  /\ UNCHANGED <<commits, prs>>

=============================================================================
