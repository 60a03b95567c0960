------------------------------- MODULE Submit -------------------------------
(***************************************************************************)
(* The draft queue and its submission: the handlers of internal/httpapi    *)
(* that queue, remove and submit drafts, Publisher.PublishBatch, and the   *)
(* calls of ghapp.Client it makes.  Every call on the store or on GitHub   *)
(* is one step, so that requests interleave with each other, with the      *)
(* people who merge pull requests, and with crashes of the server.         *)
(*                                                                         *)
(* A remote call may fail before it has an effect, and a call that creates *)
(* something may have its effect and lose its answer.  Blobs, trees and    *)
(* commits that nothing refers to are seen by nobody: the calls that       *)
(* create them are part of the step that creates the branch.               *)
(***************************************************************************)
EXTENDS Upstream

CONSTANTS
  Users,            \* the submitters
  Requests,         \* submit requests, each made once
  Requester,        \* who makes which
  MaxDrafts         \* a bound on the drafts created, for TLC

ASSUME SubmitAssumption ==
  /\ Requester \in [Requests -> Users]
  /\ MaxDrafts \in Nat

VARIABLES
  drafts,           \* the drafts table: ID -> draft
  nextDraft,        \* its sequence
  submissions,      \* the audit rows
  pc,               \* how far each submit request is
  job,              \* its local variables
  removed           \* auxiliary: the drafts a person removed from the queue

vars == <<upstreamVars, drafts, nextDraft, submissions, pc, job, removed>>

Empty == [x \in {} |-> x]

(***************************************************************************)
(* The local variables of a submit request:                                *)
(*   batch    the drafts it publishes, ID -> draft                         *)
(*   live     the values of the schema it read from main                   *)
(*   lists    the datasets it read, edited by the items processed so far   *)
(*   results  the card number given to each draft processed so far         *)
(*   source   the source files it read                                     *)
(*   path     which of them it reads next                                  *)
(*   base     the commit its branch starts from                            *)
(*   number   its pull request                                             *)
(***************************************************************************)
NoJob == [batch |-> Empty, live |-> {}, lists |-> Empty, results |-> Empty,
          source |-> [f \in 1..SourceFiles |-> {}], path |-> 1, base |-> 1, number |-> 0]

Init ==
  /\ UpstreamInit
  /\ drafts = Empty
  /\ nextDraft = 1
  /\ submissions = {}
  /\ pc = [r \in Requests |-> "idle"]
  /\ job = [r \in Requests |-> NoJob]
  /\ removed = {}

-----------------------------------------------------------------------------
(* Queueing and removing drafts.                                           *)

\* The handler validated the draft against the classifications of some
\* commit; main may have moved on while the image was uploaded.  That the
\* card being edited exists is not checked here.
Acceptable(draft, live) ==
  /\ Cardinality(draft.new) <= 1
  /\ \A o \in draft.new : o.value = draft.fruit /\ o.value \notin live
  /\ draft.fruit \in live \cup Values(draft.new)
  /\ draft.image \/ draft.card # NoID

\* (Mutant: the sequence is not advanced.)
CreateDraftReusingID(draft) ==
  /\ nextDraft <= MaxDrafts
  /\ \E s \in DOMAIN commits : Acceptable(draft, Values(commits[s].sources[Schema]))
  /\ drafts' = Put(drafts, nextDraft, draft)
  /\ UNCHANGED <<upstreamVars, nextDraft, submissions, pc, job, removed>>

CreateDraft(draft) ==
  /\ nextDraft <= MaxDrafts
  /\ \E s \in DOMAIN commits : Acceptable(draft, Values(commits[s].sources[Schema]))
  /\ drafts' = Put(drafts, nextDraft, draft)
  /\ nextDraft' = nextDraft + 1
  /\ UNCHANGED <<upstreamVars, submissions, pc, job, removed>>

\* By its owner or by an administrator.
DeleteDraft(d) ==
  /\ drafts' = Restrict(drafts, DOMAIN drafts \ {d})
  /\ removed' = removed \cup {d}
  /\ UNCHANGED <<upstreamVars, nextDraft, submissions, pc, job>>

-----------------------------------------------------------------------------
(* A submit request, step by step.                                         *)

queueVars == <<drafts, nextDraft, removed>>

GoTo(r, step) == pc' = [pc EXCEPT ![r] = step]

\* The handler returns, and its local variables are gone.
Finish(r, outcome) ==
  /\ GoTo(r, outcome)
  /\ job' = [job EXCEPT ![r] = NoJob]

\* (Mutant: the rows are not filtered by submitter.)
QueueOfAll(user) == DOMAIN drafts

Queue(user) == {d \in DOMAIN drafts : drafts[d].owner = user}

\* (Mutant: the drafts are taken off the queue when the request begins.)
ListDraftsTaking(r) ==
  /\ pc[r] = "idle"
  /\ \E wanted \in SUBSET Queue(Requester[r]) \ {{}} :
       /\ job' = [job EXCEPT ![r].batch = Restrict(drafts, wanted)]
       /\ drafts' = Restrict(drafts, DOMAIN drafts \ wanted)
  /\ GoTo(r, "taxonomy")
  /\ UNCHANGED <<upstreamVars, nextDraft, removed, submissions>>

\* The request names some of the caller's drafts; naming none means all.  A
\* failing read ends the request as an empty queue does.
ListDrafts(r) ==
  /\ pc[r] = "idle"
  /\ \E wanted \in SUBSET Queue(Requester[r]) :
       IF wanted = {}
       THEN Finish(r, "failed")
       ELSE /\ job' = [job EXCEPT ![r].batch = Restrict(drafts, wanted)]
            /\ GoTo(r, "taxonomy")
  /\ UNCHANGED <<upstreamVars, queueVars, submissions>>

LoadSchema(r) ==
  /\ pc[r] = "taxonomy"
  /\ job' = [job EXCEPT ![r].live = Values(Main.sources[Schema])]
  /\ GoTo(r, "labels")
  /\ UNCHANGED <<upstreamVars, queueVars, submissions>>

\* The labels may be of a later main than the schema.
LoadLabels(r) ==
  /\ pc[r] = "labels"
  /\ IF Clash(job[r].batch, Named(job[r].live, Main.sources[Locale]))
     THEN Finish(r, "failed")
     ELSE GoTo(r, "items") /\ UNCHANGED job
  /\ UNCHANGED <<upstreamVars, queueVars, submissions>>

\* The values the batch is validated against: its own definitions are added.
Taxonomy(r) == job[r].live \cup Values(Defined(job[r].batch))

Pending(r) == DOMAIN job[r].batch \ DOMAIN job[r].results

\* (Mutant: every item reads the dataset again.)
ListOfEach(r, k) == Main.data[k]

\* The first item of a kind reads the dataset; the next ones share it.
ListOf(r, k) == IF k \in DOMAIN job[r].lists THEN job[r].lists[k] ELSE Main.data[k]

Publishable(draft, list, values) ==
  /\ draft.card = NoID \/ draft.card \in DOMAIN list
  /\ draft.image \/ draft.card # NoID
  /\ draft.fruit \in values

PublishItem(r) ==
  /\ pc[r] = "items"
  /\ Pending(r) # {}
  /\ LET d == Min(Pending(r))
         draft == job[r].batch[d]
         list == ListOf(r, draft.kind)
         id == IF draft.card = NoID THEN NextID(list) ELSE draft.card
         edited == Put(list, id, Written(draft, d, list, id))
     IN IF Publishable(draft, list, Taxonomy(r))
        THEN /\ job' = [job EXCEPT ![r].lists = Put(@, draft.kind, edited),
                                   ![r].results = Put(@, d, id)]
             /\ UNCHANGED pc
        ELSE Finish(r, "failed")
  /\ UNCHANGED <<upstreamVars, queueVars, submissions>>

EncodeDatasets(r) ==
  /\ pc[r] = "items"
  /\ Pending(r) = {}
  /\ IF \A k \in DOMAIN job[r].lists : ValidDataset(job[r].lists[k], Taxonomy(r))
     THEN /\ GoTo(r, IF Changes(job[r].batch, job[r].live) = {} THEN "base" ELSE "sources")
          /\ UNCHANGED job
     ELSE Finish(r, "failed")
  /\ UNCHANGED <<upstreamVars, queueVars, submissions>>

\* The files are read one by one, each from main as it is by then.
ReadSource(r) ==
  LET f == job[r].path IN
  /\ pc[r] = "sources"
  /\ f \in 1..SourceFiles
  /\ job' = [job EXCEPT ![r].source[f] = Main.sources[f], ![r].path = f + 1]
  /\ GoTo(r, IF f = SourceFiles THEN "base" ELSE "sources")
  /\ UNCHANGED <<upstreamVars, queueVars, submissions>>

GetBaseRef(r) ==
  /\ pc[r] = "base"
  /\ job' = [job EXCEPT ![r].base = Len(commits)]
  /\ GoTo(r, "branch")
  /\ UNCHANGED <<upstreamVars, queueVars, submissions>>

\* (Mutant: every branch has a random name.)
RandomBranch(r) == <<"batch", r>>

\* A single card names its branch; a batch has a random name.
Branch(r) ==
  LET batch == job[r].batch IN
  IF Cardinality(DOMAIN batch) = 1
  THEN LET d == Min(DOMAIN batch) IN <<"card", batch[d].kind, job[r].results[d]>>
  ELSE <<"batch", r>>

\* GitHub refuses a branch that exists.
CreateRef(r) ==
  /\ pc[r] = "branch"
  /\ IF Branch(r) \in branches
     THEN Finish(r, "failed") /\ UNCHANGED branches
     ELSE /\ branches' = branches \cup {Branch(r)}
          /\ \/ GoTo(r, "pull") /\ UNCHANGED job
             \/ Finish(r, "failed")
  /\ UNCHANGED <<commits, prs, queueVars, submissions>>

\* (Mutant: the tree is made without the base commit's.)
TreeWithoutBase(j) ==
  [data |-> [k \in Kinds |-> IF k \in DOMAIN j.lists THEN j.lists[k] ELSE Empty],
   sources |-> commits[j.base].sources,
   images |-> {d \in DOMAIN j.batch : j.batch[d].image}]

\* The base commit with the files of the batch written over it.
TreeOf(j) ==
  LET from == commits[j.base]
      changes == Changes(j.batch, j.live)
  IN [data |-> [k \in Kinds |-> IF k \in DOMAIN j.lists THEN j.lists[k] ELSE from.data[k]],
      sources |-> IF changes = {} THEN from.sources
                  ELSE [f \in 1..SourceFiles |-> Patched(f, j.source[f], changes)],
      images |-> from.images \cup {d \in DOMAIN j.batch : j.batch[d].image}]

PullRequestOf(r) ==
  [owner |-> Requester[r], branch |-> Branch(r), base |-> job[r].base,
   tree |-> TreeOf(job[r]), batch |-> job[r].batch, results |-> job[r].results,
   state |-> "open"]

CreatePull(r) ==
  /\ pc[r] = "pull"
  /\ prs' = Append(prs, PullRequestOf(r))
  /\ \/ GoTo(r, "audit") /\ job' = [job EXCEPT ![r].number = Len(prs) + 1]
     \/ Finish(r, "failed")
  /\ UNCHANGED <<commits, branches, queueVars, submissions>>

\* (Mutant: the row is of the pull request opened last.)
RecordLatest(r) ==
  /\ pc[r] = "audit"
  /\ \/ submissions' = submissions \cup
           {[number |-> Len(prs), owner |-> Requester[r], cards |-> job[r].results]}
     \/ UNCHANGED submissions
  /\ GoTo(r, "cleanup")
  /\ UNCHANGED <<upstreamVars, queueVars, job>>

\* A failure is logged and the request goes on.
RecordSubmission(r) ==
  /\ pc[r] = "audit"
  /\ \/ submissions' = submissions \cup
           {[number |-> job[r].number, owner |-> Requester[r], cards |-> job[r].results]}
     \/ UNCHANGED submissions
  /\ GoTo(r, "cleanup")
  /\ UNCHANGED <<upstreamVars, queueVars, job>>

\* (Mutant: the submitter's queue is emptied, not the batch.)
ClearQueue(r) ==
  /\ pc[r] = "cleanup"
  /\ drafts' = Restrict(drafts, DOMAIN drafts \ Queue(Requester[r]))
  /\ Finish(r, "created")
  /\ UNCHANGED <<upstreamVars, nextDraft, removed, submissions>>

\* A failure is logged and the request succeeds.
ClearDrafts(r) ==
  /\ pc[r] = "cleanup"
  /\ \/ drafts' = Restrict(drafts, DOMAIN drafts \ DOMAIN job[r].batch)
     \/ UNCHANGED drafts
  /\ Finish(r, "created")
  /\ UNCHANGED <<upstreamVars, nextDraft, removed, submissions>>

\* A remote call fails without effect, and the request with it.
ReadsDataset(r) ==
  /\ pc[r] = "items"
  /\ Pending(r) # {}
  /\ job[r].batch[Min(Pending(r))].kind \notin DOMAIN job[r].lists

CallFails(r) ==
  /\ pc[r] \in {"taxonomy", "labels", "sources", "base", "branch", "pull"} \/ ReadsDataset(r)
  /\ Finish(r, "failed")
  /\ UNCHANGED <<upstreamVars, queueVars, submissions>>

-----------------------------------------------------------------------------
\* The server stops: the requests under way are gone, the tables are not.
Active(r) == pc[r] \notin {"idle", "created", "failed"}

Crash ==
  /\ \E r \in Requests : Active(r)
  /\ pc' = [r \in Requests |-> IF Active(r) THEN "failed" ELSE pc[r]]
  /\ job' = [r \in Requests |-> NoJob]
  /\ UNCHANGED <<upstreamVars, queueVars, submissions>>

\* Maintainers merge and close pull requests and delete branches, but leave
\* alone a branch between the two calls that push it and open its request.
Maintain ==
  /\ \/ \E p \in DOMAIN prs : Merge(p) \/ Close(p)
     \/ \E b \in branches :
          /\ \A r \in Requests : pc[r] = "pull" => Branch(r) # b
          /\ DeleteBranch(b)
  /\ UNCHANGED <<queueVars, submissions, pc, job>>

\* What a request does once it has begun.
Proceed(r) ==
  \/ LoadSchema(r) \/ LoadLabels(r) \/ PublishItem(r) \/ EncodeDatasets(r)
  \/ ReadSource(r) \/ GetBaseRef(r) \/ CreateRef(r) \/ CreatePull(r)
  \/ RecordSubmission(r) \/ ClearDrafts(r)
  \/ CallFails(r)

Next ==
  \/ \E draft \in Draft(Users) : CreateDraft(draft)
  \/ \E d \in DOMAIN drafts : DeleteDraft(d)
  \/ \E r \in Requests : ListDrafts(r) \/ Proceed(r)
  \/ Crash
  \/ Maintain

Spec == Init /\ [][Next]_vars

-----------------------------------------------------------------------------
(* Properties.                                                             *)

\* Types of what is kept when n drafts, c commits and p pull requests have
\* been created.
IsBatch(b, n) == b \in [DOMAIN b -> Draft(Users)] /\ DOMAIN b \subseteq 1..n
IsResults(res, b) == res \in [DOMAIN res -> Nat] /\ DOMAIN res \subseteq DOMAIN b
IsLists(ls) ==
  /\ ls = [k \in DOMAIN ls |-> ls[k]]
  /\ \A k \in DOMAIN ls : k \in Kinds /\ IsDataset(ls[k])

IsJob(j, n, c, p) ==
  /\ j = [batch |-> j.batch, live |-> j.live, lists |-> j.lists, results |-> j.results,
          source |-> j.source, path |-> j.path, base |-> j.base, number |-> j.number]
  /\ IsBatch(j.batch, n)
  /\ IsResults(j.results, j.batch)
  /\ IsLists(j.lists)
  /\ j.live \subseteq Fruits
  /\ j.source \in [1..SourceFiles -> SUBSET Option]
  /\ j.path \in 1..SourceFiles + 1
  /\ j.base \in 1..c
  /\ j.number \in 0..p

IsPull(pr, n, c) ==
  /\ pr = [owner |-> pr.owner, branch |-> pr.branch, base |-> pr.base, tree |-> pr.tree,
           batch |-> pr.batch, results |-> pr.results, state |-> pr.state]
  /\ pr.owner \in Users
  /\ pr.base \in 1..c
  /\ IsTree(pr.tree)
  /\ IsBatch(pr.batch, n)
  /\ IsResults(pr.results, pr.batch)
  /\ pr.state \in {"open", "merged", "closed"}

Steps == {"idle", "taxonomy", "labels", "items", "sources", "base", "branch", "pull", "audit",
          "cleanup", "created", "failed"}

\* main and the pull requests.
UpstreamTypeOK ==
  /\ IsSeq(commits) /\ Len(commits) > 0
  /\ \A s \in DOMAIN commits : IsTree(commits[s])
  /\ IsSeq(prs)
  /\ \A p \in DOMAIN prs : IsPull(prs[p], nextDraft - 1, Len(commits))

\* The tables.
QueueTypeOK ==
  /\ nextDraft \in Nat \ {0}
  /\ IsBatch(drafts, nextDraft - 1)
  /\ removed \subseteq 1..nextDraft - 1
  /\ \A row \in submissions : row.number \in 0..Len(prs) /\ row.owner \in Users

\* The requests; one that has not begun or is over has no local variables.
RequestTypeOK ==
  /\ pc \in [Requests -> Steps]
  /\ job = [r \in Requests |-> job[r]]
  /\ \A r \in Requests :
       /\ IsJob(job[r], nextDraft - 1, Len(commits), Len(prs))
       /\ ~Active(r) => job[r] = NoJob

\* Every commit, pull request, table and local variable has its type, and a
\* request points to a commit and to a pull request that exist.
TypeOK == UpstreamTypeOK /\ QueueTypeOK /\ RequestTypeOK

\* The drafts that a pull request carries.
Delivered == UNION {DOMAIN prs[p].batch : p \in DOMAIN prs}

\* No failure loses a card somebody queued: a draft leaves the queue only
\* because a person removed it or because a pull request carries it, whatever
\* call fails, loses its answer or is cut short by a crash
\* (handleSubmitDrafts deletes drafts only after PublishBatch returned).
NoDraftLost == 1..nextDraft - 1 \subseteq DOMAIN drafts \cup removed \cup Delivered

\* The queue keeps that promise and every other of QueueDelivery.
Delivery == INSTANCE QueueDelivery WITH
  DraftIDs <- 1..MaxDrafts, queued <- DOMAIN drafts, delivered <- Delivered

\* Each step of the program is one of the queue's, seen from the person who
\* filled it, or none (handlers.go:572-674, 505-516).
DeliveryImplemented == Delivery!Spec

\* Every card in a pull request was queued by the person it is attributed to
\* ("A batch always belongs to a single submitter", publish.go:30).
OneSubmitter ==
  \A p \in DOMAIN prs : \A d \in DOMAIN prs[p].batch : prs[p].batch[d].owner = prs[p].owner

-----------------------------------------------------------------------------
(* What publishing a batch on a dataset should give, in closed form.       *)

ItemsOf(b, k) == {d \in DOMAIN b : b[d].kind = k}

AssignedID(list, b, d) ==
  IF b[d].card # NoID THEN b[d].card
  ELSE NextID(list) + Cardinality({e \in ItemsOf(b, b[d].kind) : e < d /\ b[e].card = NoID})

\* A card that is edited is there, or added by the same batch before.
EditsFound(list, b, k) ==
  \A d \in ItemsOf(b, k) :
    \/ b[d].card \in DOMAIN list \cup {NoID}
    \/ \E e \in ItemsOf(b, k) : e < d /\ b[e].card = NoID /\ AssignedID(list, b, e) = b[d].card

Expected(list, b, k) ==
  LET writers(i) == {d \in ItemsOf(b, k) : AssignedID(list, b, d) = i}
      imaged(i) == {d \in writers(i) : b[d].image}
  IN [i \in DOMAIN list \cup {AssignedID(list, b, d) : d \in ItemsOf(b, k)} |->
        IF writers(i) = {} THEN list[i]
        ELSE [by |-> Max(writers(i)), fruit |-> b[Max(writers(i))].fruit,
              image |-> IF imaged(i) = {} THEN list[i].image ELSE Max(imaged(i))]]

\* Each dataset file of a pull request is a version that main once had, no
\* later than the commit the pull request starts from, with exactly the cards
\* of the batch added or edited, the IDs allocated in queue order; datasets
\* the batch has no card for are those of the start commit
\* (PublishBatch's item loop and CreatePullRequest's base_tree).
PullsBuiltFromMain ==
  \A p \in DOMAIN prs : LET pr == prs[p] IN
    \A k \in Kinds :
      IF ItemsOf(pr.batch, k) = {}
      THEN pr.tree.data[k] = commits[pr.base].data[k]
      ELSE \E s \in 1..pr.base : LET list == commits[s].data[k] IN
             /\ EditsFound(list, pr.batch, k)
             /\ pr.tree.data[k] = Expected(list, pr.batch, k)
             /\ \A d \in ItemsOf(pr.batch, k) : pr.results[d] = AssignedID(list, pr.batch, d)

\* The dataset of a pull request is the one of its own base commit, edited.
BuiltFromBase(pr, k) ==
  LET list == commits[pr.base].data[k] IN
  EditsFound(list, pr.batch, k) /\ pr.tree.data[k] = Expected(list, pr.batch, k)

\* Merging a pull request changes nothing on main but the cards it names, in the
\* one exception that a dataset was read before the commit the branch starts
\* from: then it takes back what was merged in between.  An edit may
\* overwrite a younger edit of the same card, never another card
\* (publish.go:162 and 216-220, client.go:112).
MergesTouchTheirCards ==
  [][\A p \in DOMAIN prs : LET pr == prs[p] IN
       pr.state = "open" /\ prs'[p].state = "merged" =>
         \A k \in Kinds :
           \/ ItemsOf(pr.batch, k) # {} /\ ~BuiltFromBase(pr, k)
           \/ Touched(Main.data[k], Main'.data[k]) \subseteq {pr.results[d] : d \in ItemsOf(pr.batch, k)}]_vars

\* Nor does it take back or replace a card of main that no draft of it edits: a
\* new card whose ID was given to another one meanwhile is a conflict, or the
\* same card (NextID, validate.go:161; publish.go:180).
MergesLoseNothing ==
  [][\A p \in DOMAIN prs : LET pr == prs[p] IN
       pr.state = "open" /\ prs'[p].state = "merged" =>
         \A k \in Kinds : \A i \in DOMAIN Main.data[k] :
           \/ ItemsOf(pr.batch, k) # {} /\ ~BuiltFromBase(pr, k)
           \/ \E d \in ItemsOf(pr.batch, k) : pr.batch[d].card = i
           \/ SameAt(Main.data[k], Main'.data[k], i)]_vars

\* The dataset of a pull request was read from its base, which had none of its
\* cards yet, and main has lost no card since.
InOrder(pr, k) ==
  LET list == commits[pr.base].data[k] IN
  /\ ItemsOf(pr.batch, k) = {} \/ BuiltFromBase(pr, k)
  /\ \A i \in DOMAIN list : list[i].by \notin ItemsOf(pr.batch, k)
  /\ DOMAIN list \subseteq DOMAIN Main.data[k]

\* Pull requests that wait for review for days are as good as ones made on the
\* spot: merging one does to main what publishing its batch on main as it is at
\* that moment would do, the same IDs included, or nothing when the same drafts
\* are there already (PublishBatch and CreatePullRequest hold no lock on main).
MergesAreSerial ==
  [][\A p \in DOMAIN prs : LET pr == prs[p] IN
       pr.state = "open" /\ prs'[p].state = "merged" =>
         \A k \in Kinds : InOrder(pr, k) =>
           Main'.data[k] \in {Main.data[k], Expected(Main.data[k], pr.batch, k)}]_vars

\* What a merged pull request gave the number i to.
MergedAs(k, i, d) ==
  {p \in DOMAIN prs : /\ prs[p].state = "merged" /\ d \in ItemsOf(prs[p].batch, k)
                      /\ prs[p].results[d] = i}

\* Whatever the age of the files that were merged, a card on main is the first
\* tree's, or the draft that a merged pull request announced under this very
\* number; and so is its image, which never is another card's
\* (publish.go:180-220; the results of PublishBatch go to the audit trail).
MainIsProposed ==
  \A s \in DOMAIN commits : \A k \in Kinds : \A i \in DOMAIN commits[s].data[k] :
    LET card == commits[s].data[k][i]
        first == FirstTree.data[k]
    IN /\ \/ i \in DOMAIN first /\ card.by = first[i].by /\ card.fruit = first[i].fruit
          \/ \E p \in MergedAs(k, i, card.by) : prs[p].batch[card.by].fruit = card.fruit
       /\ \/ i \in DOMAIN first /\ card.image = first[i].image
          \/ \E p \in MergedAs(k, i, card.image) : prs[p].batch[card.image].image

\* An audit row is of the pull request that its request opened, whatever else
\* was opened meanwhile: it names its submitter and the number of every card in
\* it (handlers.go:644-657).
RowsMatchPulls ==
  \A row \in submissions :
    /\ row.number \in DOMAIN prs
    /\ LET pr == prs[row.number] IN
         /\ pr.owner = row.owner /\ pr.results = row.cards
         /\ DOMAIN row.cards = DOMAIN pr.batch

\* Every card on main has its image on main: an image travels in the pull
\* request of the card that shows it, and an edit without an image keeps one
\* that is there (publish.go:196-210).
MainHasImages ==
  \A s \in DOMAIN commits : \A k \in Kinds : \A i \in DOMAIN commits[s].data[k] :
    commits[s].data[k][i].image \in commits[s].images

\* A card has at most one open pull request of its own: the branch is named
\* after the card, and exists while one is open (branchName, publish.go:305).
OneOpenPullPerCard ==
  \A p, q \in DOMAIN prs :
    /\ prs[p].state = "open" /\ prs[q].state = "open"
    /\ \E d \in DOMAIN prs[p].batch, e \in DOMAIN prs[q].batch :
         /\ {d} = DOMAIN prs[p].batch /\ {e} = DOMAIN prs[q].batch
         /\ prs[p].batch[d].kind = prs[q].batch[e].kind
         /\ prs[p].results[d] = prs[q].results[e]
    => p = q

\* main and every pull request show each classification under one label:
\* a second label for a value is refused when a batch is validated, skipped
\* when the sources are patched, and a conflict when both sides added it,
\* although schema and labels may be read from different versions of main
\* (addOption, LoadTaxonomy, PatchTaxonomySources).
OneLabelPerValue ==
  \A tree \in {commits[s] : s \in DOMAIN commits} \cup {prs[p].tree : p \in DOMAIN prs} :
    \A f \in 1..SourceFiles : \A o, q \in tree.sources[f] : o.value = q.value => o = q

\* Whatever main's history, a pull request defines in every source file the
\* classifications its drafts bring and the schema of some version of main
\* lacked.  The files need not be of one version: each has all that some
\* version of main defines in it, at least as new as that of the file read
\* before.  It touches no source file when there is nothing to add
\* (publish.go:122-146 and 237-267, taxonomy_patch.go).
PullsDefineWhatTheyUse ==
  \A p \in DOMAIN prs : LET pr == prs[p] IN
    \E s \in 1..pr.base :
      LET live == Values(commits[s].sources[Schema])
          added == Changes(pr.batch, live)
      IN /\ \A d \in DOMAIN pr.batch : pr.batch[d].fruit \in live \cup Values(Defined(pr.batch))
         /\ IF added = {}
            THEN pr.tree.sources = commits[pr.base].sources
            ELSE \E read \in [1..SourceFiles -> s..pr.base] :
                   /\ \A f, g \in 1..SourceFiles : f <= g => read[f] <= read[g]
                   /\ \A f \in 1..SourceFiles :
                        LET source == commits[read[f]].sources[f] IN
                        /\ source \subseteq pr.tree.sources[f]
                        /\ pr.tree.sources[f] \subseteq source \cup {Entry(f, o) : o \in added}
                        /\ Values(added) \subseteq Values(pr.tree.sources[f])

-----------------------------------------------------------------------------
(* What the documentation says and the interleavings refute.               *)

\* "Datasets are always re-read from the base branch so that IDs are allocated
\* against live data" (publish.go:106): a new card's ID is not in use on the
\* commit its pull request starts from.
IDsFreshInBase ==
  \A p \in DOMAIN prs : LET pr == prs[p] IN
    \A d \in DOMAIN pr.batch :
      pr.batch[d].card = NoID => pr.results[d] \notin DOMAIN commits[pr.base].data[pr.batch[d].kind]

\* "Keeping the definition with the card lets one pull request update both the
\* game schema and the card that first uses the value" (taxonomy.go:28): main
\* never has a card whose classification it does not define.
MainClassified ==
  \A s \in DOMAIN commits : \A k \in Kinds :
    ValidDataset(commits[s].data[k], Values(commits[s].sources[Schema]))

\* A pull request that takes back classifications of the commit it starts from,
\* having read a source file before it.
Reverts(pr) ==
  \E f \in 1..SourceFiles : ~(commits[pr.base].sources[f] \subseteq pr.tree.sources[f])

NothingReverted == \A p \in DOMAIN prs : prs[p].state = "merged" => ~Reverts(prs[p])

\* The one way main comes to have such a card is a merged pull request that takes
\* classifications back, having read the sources before its base: as long as
\* none is merged, every card of main has its classification, whoever adds
\* which classification when (publish.go:237-267, taxonomy_patch.go).
ClassifiedUnlessReverted == NothingReverted => MainClassified

\* Nor can the files of main disagree otherwise: though a pull request may hold
\* each file as of another version of main, as long as none that takes something
\* back is merged, the types, the schema, the labels and the lists of the pages
\* all have the same values (publish.go:249-267, taxonomy_patch.go:12-77).
SourcesAgreeUnlessReverted ==
  NothingReverted =>
    \A s \in DOMAIN commits : \A f, g \in 1..SourceFiles :
      Values(commits[s].sources[f]) = Values(commits[s].sources[g])

\* "publishes ... the caller's queued drafts as a single pull request"
\* (handlers.go:570): no draft is in two pull requests.
SinglePull ==
  \A p, q \in DOMAIN prs : DOMAIN prs[p].batch \cap DOMAIN prs[q].batch # {} => p = q

=============================================================================
