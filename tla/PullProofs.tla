------------------------------ MODULE PullProofs ------------------------------
(***************************************************************************)
(* What the pull requests contain, for any number of submitters, requests, *)
(* drafts, datasets and classifications and any history of main: the       *)
(* datasets and classifications they are made of, and the branches that    *)
(* keep two pull requests for one card apart.                              *)
(*                                                                         *)
(* A pull request is made in one step from the local variables of its      *)
(* request, so the invariants say of the variables of a request what the   *)
(* pull request will say of its contents: which versions of main they came *)
(* from.  Main only grows, so that what was true of a version stays true.  *)
(***************************************************************************)
EXTENDS SubmitProofs

-----------------------------------------------------------------------------
(* What a step does to one request, and to GitHub.                         *)

Moves(q, step, j) == pc'[q] = step /\ job'[q] = j

Begins(q) ==
  /\ pc[q] = "idle" /\ job[q] = NoJob
  /\ \E wanted \in SUBSET DOMAIN drafts :
       Moves(q, "taxonomy", [NoJob EXCEPT !.batch = Restrict(drafts, wanted)])

Loads(q) ==
  /\ pc[q] = "taxonomy"
  /\ Moves(q, "labels", [job[q] EXCEPT !.live = Values(Main.sources[Schema])])

Names(q) ==
  /\ pc[q] = "labels"
  /\ ~Clash(job[q].batch, Named(job[q].live, Main.sources[Locale]))
  /\ Moves(q, "items", job[q])

Publishes(q) ==
  LET d == Min(Pending(q))
      draft == job[q].batch[d]
      list == ListOf(q, draft.kind)
      id == IF draft.card = NoID THEN NextID(list) ELSE draft.card
  IN /\ pc[q] = "items"
     /\ Pending(q) # {}
     /\ Publishable(draft, list, Taxonomy(q))
     /\ Moves(q, "items",
          [job[q] EXCEPT
             !.lists = Put(job[q].lists, draft.kind, Put(list, id, Written(draft, d, list, id))),
             !.results = Put(job[q].results, d, id)])

Encodes(q) ==
  /\ pc[q] = "items"
  /\ Pending(q) = {}
  /\ Moves(q, IF Changes(job[q].batch, job[q].live) = {} THEN "base" ELSE "sources", job[q])

\* src is what the request read, now with the file it reads next.
Reads(q, src) ==
  /\ job[q].path \in 1..SourceFiles
  /\ src[job[q].path] = Main.sources[job[q].path]
  /\ \A f \in 1..SourceFiles \ {job[q].path} : src[f] = job[q].source[f]

Sources(q) ==
  /\ pc[q] = "sources"
  /\ \E src :
       /\ Reads(q, src)
       /\ Moves(q, IF job[q].path = SourceFiles THEN "base" ELSE "sources",
                [job[q] EXCEPT !.source = src, !.path = job[q].path + 1])

Starts(q) ==
  /\ pc[q] = "base"
  /\ Moves(q, "branch", [job[q] EXCEPT !.base = Len(commits)])

Branches(q) ==
  /\ pc[q] = "branch"
  /\ Branch(q) \notin branches /\ Branch(q) \in branches'
  /\ Moves(q, "pull", job[q])

Opens(q) ==
  /\ pc[q] = "pull"
  /\ prs' = Append(prs, PullRequestOf(q))
  /\ Moves(q, "audit", [job[q] EXCEPT !.number = Len(prs) + 1])

Records(q) == pc[q] = "audit" /\ Moves(q, "cleanup", job[q])

Ends(q) == pc'[q] \in {"created", "failed"} /\ job'[q] = NoJob

Rests(q) == Moves(q, pc[q], job[q])

\* Each step is one of these for each request.
LEMMA RequestStep ==
  ASSUME TypeOK, [Next]_vars, NEW q \in Requests
  PROVE  \/ Begins(q) \/ Loads(q) \/ Names(q) \/ Publishes(q) \/ Encodes(q) \/ Sources(q)
         \/ Starts(q) \/ Branches(q) \/ Opens(q) \/ Records(q) \/ Ends(q) \/ Rests(q)
<1>1. /\ job = [r \in Requests |-> job[r]] /\ pc = [r \in Requests |-> pc[r]]
      /\ pc[q] = "idle" => job[q] = NoJob
  BY DEF TypeOK, RequestTypeOK, Active
<1>. DEFINE Goal == \/ Begins(q) \/ Loads(q) \/ Names(q) \/ Publishes(q) \/ Encodes(q) \/ Sources(q)
                    \/ Starts(q) \/ Branches(q) \/ Opens(q) \/ Records(q) \/ Ends(q) \/ Rests(q)
<1>2. ASSUME UNCHANGED <<pc, job>> PROVE Goal
  BY <1>2 DEF Rests, Moves
<1>3. ASSUME Finish(q, "failed") \/ Finish(q, "created") PROVE Goal
  BY <1>1, <1>3 DEF Finish, GoTo, Ends
<1>4. ASSUME NEW r \in Requests, ListDrafts(r) \/ Proceed(r), r # q PROVE Goal
  <2>1. \E step, j : pc' = [pc EXCEPT ![r] = step] /\ job' = [job EXCEPT ![r] = j]
    <3>1. job = [job EXCEPT ![r] = job[r]] /\ pc = [pc EXCEPT ![r] = pc[r]]
      BY <1>1
    <3>2. CASE ListDrafts(r)
      BY <3>2 DEF ListDrafts, GoTo, Finish
    <3>3. CASE LoadSchema(r) \/ LoadLabels(r)
      BY <3>1, <3>3 DEF LoadSchema, LoadLabels, GoTo, Finish
    <3>4. CASE PublishItem(r)
      <4>1. PICK ls, res : \/ Finish(r, "failed")
                           \/ /\ job' = [job EXCEPT ![r].lists = ls, ![r].results = res]
                              /\ UNCHANGED pc
        BY <3>4 DEF PublishItem
      <4>2. job' = [job EXCEPT ![r].lists = ls, ![r].results = res]
              => job' = [job EXCEPT ![r] = [job[r] EXCEPT !.lists = ls, !.results = res]]
        BY <1>1
      <4>. QED
        BY <3>1, <4>1, <4>2 DEF Finish, GoTo
    <3>5. CASE EncodeDatasets(r)
      BY <3>1, <3>5 DEF EncodeDatasets, GoTo, Finish
    <3>6. CASE ReadSource(r) \/ GetBaseRef(r)
      <4>1. CASE ReadSource(r)
        <5>1. PICK src \in [1..SourceFiles -> SUBSET Option] :
                job' = [job EXCEPT ![r] = [job[r] EXCEPT !.source = src, !.path = job[r].path + 1]]
          BY <4>1, SourceRead, Zenon
        <5>2. \E step : pc' = [pc EXCEPT ![r] = step]
          BY <4>1 DEF ReadSource, GoTo
        <5>. QED
          BY <5>1, <5>2
      <4>. QED
        BY <3>6, <4>1 DEF GetBaseRef, GoTo
    <3>7. CASE CreateRef(r)
      BY <3>1, <3>7 DEF CreateRef, GoTo, Finish
    <3>8. CASE CreatePull(r)
      BY <3>8 DEF CreatePull, GoTo, Finish
    <3>9. CASE RecordSubmission(r)
      BY <3>1, <3>9 DEF RecordSubmission, GoTo
    <3>10. CASE ClearDrafts(r) \/ CallFails(r)
      BY <3>10 DEF ClearDrafts, CallFails, GoTo, Finish
    <3>. QED
      BY <1>4, <3>2, <3>3, <3>4, <3>5, <3>6, <3>7, <3>8, <3>9, <3>10 DEF Proceed
  <2>2. pc'[q] = pc[q] /\ job'[q] = job[q]
    BY <1>1, <1>4, <2>1
  <2>. QED
    BY <2>2 DEF Rests, Moves
<1>5. ASSUME ListDrafts(q) PROVE Goal
  <2>1. PICK wanted \in SUBSET Queue(Requester[q]) :
          \/ Finish(q, "failed")
          \/ /\ job' = [job EXCEPT ![q].batch = Restrict(drafts, wanted)]
             /\ GoTo(q, "taxonomy")
    BY <1>5 DEF ListDrafts
  <2>2. pc[q] = "idle" /\ wanted \in SUBSET DOMAIN drafts
    BY <1>5, <2>1 DEF ListDrafts, Queue
  <2>3. ASSUME job' = [job EXCEPT ![q].batch = Restrict(drafts, wanted)], GoTo(q, "taxonomy")
        PROVE  Begins(q)
    BY <1>1, <2>2, <2>3 DEF Begins, Moves, GoTo
  <2>. QED
    BY <1>3, <2>1, <2>3
<1>6. ASSUME LoadSchema(q) \/ LoadLabels(q) PROVE Goal
  <2>1. LoadSchema(q) => Loads(q)
    BY <1>1 DEF LoadSchema, Loads, Moves, GoTo
  <2>2. LoadLabels(q) => Names(q) \/ Finish(q, "failed")
    BY <1>1 DEF LoadLabels, Names, Moves, GoTo
  <2>. QED
    BY <1>3, <1>6, <2>1, <2>2
<1>7. ASSUME PublishItem(q) PROVE Goal
  <2>. DEFINE d == Min(Pending(q))
              draft == job[q].batch[d]
              list == ListOf(q, draft.kind)
              id == IF draft.card = NoID THEN NextID(list) ELSE draft.card
              ls == Put(job[q].lists, draft.kind, Put(list, id, Written(draft, d, list, id)))
              res == Put(job[q].results, d, id)
  <2>1. \/ Finish(q, "failed")
        \/ /\ Publishable(draft, list, Taxonomy(q))
           /\ job' = [job EXCEPT ![q].lists = ls, ![q].results = res]
           /\ UNCHANGED pc
    BY <1>7 DEF PublishItem
  <2>2. pc[q] = "items" /\ Pending(q) # {}
    BY <1>7 DEF PublishItem
  <2>3. ASSUME Publishable(draft, list, Taxonomy(q)), UNCHANGED pc,
               job' = [job EXCEPT ![q].lists = ls, ![q].results = res]
        PROVE  Publishes(q)
    <3>1. job'[q] = [job[q] EXCEPT !.lists = ls, !.results = res]
      <4>. HIDE DEF ls, res
      <4>. QED
        BY <1>1, <2>3
    <3>. QED
      BY <2>2, <2>3, <3>1 DEF Publishes, Moves
  <2>. QED
    BY <1>3, <2>1, <2>3
<1>8. ASSUME EncodeDatasets(q) PROVE Goal
  BY <1>1, <1>3, <1>8 DEF EncodeDatasets, Encodes, Moves, GoTo
<1>9. ASSUME ReadSource(q) \/ GetBaseRef(q) PROVE Goal
  <2>1. ASSUME ReadSource(q) PROVE Sources(q)
    <3>. DEFINE step == IF job[q].path = SourceFiles THEN "base" ELSE "sources"
    <3>1. pc[q] = "sources"
      BY <2>1 DEF ReadSource
    <3>2. PICK src \in [1..SourceFiles -> SUBSET Option] :
            /\ Reads(q, src)
            /\ job' = [job EXCEPT ![q] = [job[q] EXCEPT !.source = src, !.path = job[q].path + 1]]
            /\ GoTo(q, step)
      BY <2>1, SourceRead, Zenon DEF Reads
    <3>3. Moves(q, step, [job[q] EXCEPT !.source = src, !.path = job[q].path + 1])
      <4>. DEFINE i == [job[q] EXCEPT !.source = src, !.path = job[q].path + 1]
      <4>1. job' = [job EXCEPT ![q] = i] /\ pc' = [pc EXCEPT ![q] = step]
        BY <3>2 DEF GoTo
      <4>. HIDE DEF i, step
      <4>2. job'[q] = i /\ pc'[q] = step
        BY <1>1, <4>1
      <4>. QED
        BY <4>2 DEF Moves, i
    <3>. QED
      BY <3>1, <3>2, <3>3 DEF Sources
  <2>2. GetBaseRef(q) => Starts(q)
    BY <1>1 DEF GetBaseRef, Starts, Moves, GoTo
  <2>. QED
    BY <1>9, <2>1, <2>2
<1>10. ASSUME CreateRef(q) PROVE Goal
  BY <1>1, <1>3, <1>10 DEF CreateRef, Branches, Moves, GoTo
<1>11. ASSUME CreatePull(q) PROVE Goal
  BY <1>1, <1>3, <1>11 DEF CreatePull, Opens, Moves, GoTo
<1>12. ASSUME RecordSubmission(q) PROVE Goal
  BY <1>1, <1>12 DEF RecordSubmission, Records, Moves, GoTo
<1>13. ASSUME ClearDrafts(q) \/ CallFails(q) PROVE Goal
  BY <1>3, <1>13 DEF ClearDrafts, CallFails
<1>14. ASSUME Crash PROVE Goal
  <2>1. pc'[q] = (IF Active(q) THEN "failed" ELSE pc[q]) /\ job'[q] = NoJob
    BY <1>14 DEF Crash
  <2>2. ~Active(q) => job[q] = NoJob
    BY DEF TypeOK, RequestTypeOK
  <2>. QED
    BY <2>1, <2>2 DEF Ends, Rests, Moves
<1>. QED
  <2>1. ASSUME NEW r \in Requests, ListDrafts(r) \/ Proceed(r) PROVE Goal
    <3>1. CASE r # q
      BY <1>4, <2>1, <3>1
    <3>2. CASE r = q
      BY <1>5, <1>6, <1>7, <1>8, <1>9, <1>10, <1>11, <1>12, <1>13, <2>1, <3>2 DEF Proceed
    <3>. QED
      BY <3>1, <3>2
  <2>2. (\E draft \in Draft(Users) : CreateDraft(draft))
          \/ (\E d \in DOMAIN drafts : DeleteDraft(d)) \/ Maintain \/ UNCHANGED vars
        => UNCHANGED <<pc, job>>
    BY DEF CreateDraft, DeleteDraft, Maintain, vars
  <2>. QED
    BY <1>2, <1>14, <2>1, <2>2 DEF Next

\* The other variables of a request when one is assigned.
LEMMA JobExcept ==
  ASSUME TypeOK, NEW r \in Requests
  PROVE  /\ \A v : LET i == [job[r] EXCEPT !.live = v] IN
              /\ i.batch = job[r].batch /\ i.live = v /\ i.lists = job[r].lists
              /\ i.results = job[r].results /\ i.source = job[r].source
              /\ i.path = job[r].path /\ i.base = job[r].base
         /\ \A v, w : LET i == [job[r] EXCEPT !.source = v, !.path = w] IN
              /\ i.batch = job[r].batch /\ i.live = job[r].live /\ i.lists = job[r].lists
              /\ i.results = job[r].results /\ i.source = v /\ i.path = w
              /\ i.base = job[r].base
         /\ \A v : LET i == [job[r] EXCEPT !.base = v] IN
              /\ i.batch = job[r].batch /\ i.live = job[r].live /\ i.lists = job[r].lists
              /\ i.results = job[r].results /\ i.source = job[r].source
              /\ i.path = job[r].path /\ i.base = v
         /\ \A v, w : LET i == [job[r] EXCEPT !.lists = v, !.results = w] IN
              /\ i.batch = job[r].batch /\ i.live = job[r].live /\ i.lists = v
              /\ i.results = w /\ i.source = job[r].source /\ i.path = job[r].path
              /\ i.base = job[r].base
<1>. DEFINE j == job[r]
            Rec(lv, ls, rs, sr, pt, bs) ==
              [batch |-> j.batch, live |-> lv, lists |-> ls, results |-> rs,
               source |-> sr, path |-> pt, base |-> bs, number |-> j.number]
<1>1. j = Rec(j.live, j.lists, j.results, j.source, j.path, j.base)
  BY TypeFacts DEF IsJob
<1>. HIDE DEF j
<1>2. ASSUME NEW v, NEW w
      PROVE  [j EXCEPT !.lists = v, !.results = w] = Rec(j.live, v, w, j.source, j.path, j.base)
  <2>. DEFINE k == [j EXCEPT !.lists = v]
  <2>1. k = Rec(j.live, v, j.results, j.source, j.path, j.base)
    BY <1>1
  <2>. HIDE DEF k
  <2>2. [k EXCEPT !.results = w] = Rec(j.live, v, w, j.source, j.path, j.base)
    BY <2>1
  <2>. QED
    BY <2>2 DEF k
<1>3. ASSUME NEW v
      PROVE  [j EXCEPT !.live = v] = Rec(v, j.lists, j.results, j.source, j.path, j.base)
  BY <1>1
<1>4. ASSUME NEW v, NEW w
      PROVE  [j EXCEPT !.source = v, !.path = w] = Rec(j.live, j.lists, j.results, v, w, j.base)
  <2>. DEFINE k == [j EXCEPT !.source = v]
  <2>1. k = Rec(j.live, j.lists, j.results, v, j.path, j.base)
    BY <1>1
  <2>. HIDE DEF k
  <2>2. [k EXCEPT !.path = w] = Rec(j.live, j.lists, j.results, v, w, j.base)
    BY <2>1
  <2>. QED
    BY <2>2 DEF k
<1>5. ASSUME NEW v
      PROVE  [j EXCEPT !.base = v] = Rec(j.live, j.lists, j.results, j.source, j.path, v)
  BY <1>1
<1>. QED
  BY <1>2, <1>3, <1>4, <1>5 DEF j

\* Two records of one pull request, at different times.
SamePull(pr, qr) ==
  /\ pr.owner = qr.owner /\ pr.branch = qr.branch /\ pr.base = qr.base /\ pr.tree = qr.tree
  /\ pr.batch = qr.batch /\ pr.results = qr.results

\* A pull request changes in its state only, and is never opened again.
LEMMA PullKept ==
  ASSUME TypeOK, NEW p \in DOMAIN prs, NEW state \in {"merged", "closed"}, SetState(p, state)
  PROVE  /\ DOMAIN prs' = DOMAIN prs
         /\ prs'[p].state = state
         /\ \A q \in DOMAIN prs : /\ SamePull(prs'[q], prs[q])
                                  /\ prs'[q].state = "open" => prs[q].state = "open"
                                  /\ q # p => prs'[q] = prs[q]
<1>1. prs' = [prs EXCEPT ![p] = [prs[p] EXCEPT !.state = state]]
  BY DEF SetState
<1>. DEFINE pr == [prs[p] EXCEPT !.state = state]
<1>2. SamePull(pr, prs[p]) /\ pr.state = state
  <2>1. IsPull(prs[p], nextDraft - 1, Len(commits))
    BY DEF TypeOK, UpstreamTypeOK
  <2>2. pr = [owner |-> prs[p].owner, branch |-> prs[p].branch, base |-> prs[p].base,
              tree |-> prs[p].tree, batch |-> prs[p].batch, results |-> prs[p].results,
              state |-> state]
    BY <2>1 DEF IsPull
  <2>. QED
    BY <2>2 DEF SamePull
<1>3. DOMAIN prs' = DOMAIN prs /\ prs'[p] = pr /\ \A q \in DOMAIN prs : q # p => prs'[q] = prs[q]
  BY <1>1
<1>4. \A q \in DOMAIN prs : SamePull(prs[q], prs[q])
  BY DEF SamePull
<1>. HIDE DEF pr
<1>. QED
  BY <1>2, <1>3, <1>4

\* What a step does to main, to the branches and to the pull requests.
MergesPull(p) ==
  /\ p \in DOMAIN prs /\ prs[p].state = "open"
  /\ ~Conflict(commits[prs[p].base], Main, prs[p].tree)
  /\ commits' = Append(commits, MergedTree(commits[prs[p].base], Main, prs[p].tree))
  /\ SetState(p, "merged")
  /\ UNCHANGED <<branches, pc, job>>

ClosesPull(p) ==
  /\ p \in DOMAIN prs /\ prs[p].state = "open" /\ SetState(p, "closed")
  /\ UNCHANGED <<commits, branches, pc, job>>

DropsBranch(b) ==
  /\ \A r \in Requests : pc[r] = "pull" => Branch(r) # b
  /\ ~\E p \in DOMAIN prs : prs[p].branch = b /\ prs[p].state = "open"
  /\ branches' = branches \ {b}
  /\ UNCHANGED <<commits, prs, pc, job>>

PushesBranch(r) ==
  /\ pc[r] = "branch" /\ Branch(r) \notin branches
  /\ branches' = branches \cup {Branch(r)}
  /\ UNCHANGED <<commits, prs>>
  /\ \A q \in Requests \ {r} : pc'[q] = pc[q] /\ job'[q] = job[q]

OpensPull(r) ==
  /\ pc[r] = "pull" /\ pc'[r] \in {"audit", "failed"}
  /\ prs' = Append(prs, PullRequestOf(r))
  /\ UNCHANGED <<commits, branches>>
  /\ \A q \in Requests \ {r} : pc'[q] = pc[q] /\ job'[q] = job[q]

LEMMA UpstreamStep ==
  ASSUME TypeOK, [Next]_vars
  PROVE  \/ UNCHANGED upstreamVars
         \/ \E p \in DOMAIN prs : MergesPull(p) \/ ClosesPull(p)
         \/ \E b \in branches : DropsBranch(b)
         \/ \E r \in Requests : PushesBranch(r) \/ OpensPull(r)
<1>1. job = [r \in Requests |-> job[r]] /\ pc = [r \in Requests |-> pc[r]]
  BY DEF TypeOK, RequestTypeOK
<1>2. ASSUME Maintain
      PROVE  \/ \E p \in DOMAIN prs : MergesPull(p) \/ ClosesPull(p)
             \/ \E b \in branches : DropsBranch(b)
  BY <1>2 DEF Maintain, Merge, Close, DeleteBranch, MergesPull, ClosesPull, DropsBranch
<1>3. ASSUME NEW r \in Requests, CreateRef(r)
      PROVE  UNCHANGED upstreamVars \/ PushesBranch(r)
  <2>1. \A q \in Requests \ {r} : pc'[q] = pc[q] /\ job'[q] = job[q]
    BY <1>1, <1>3 DEF CreateRef, GoTo, Finish
  <2>. QED
    BY <1>3, <2>1 DEF CreateRef, PushesBranch, upstreamVars
<1>4. ASSUME NEW r \in Requests, CreatePull(r)
      PROVE  OpensPull(r)
  <2>1. \A q \in Requests \ {r} : pc'[q] = pc[q] /\ job'[q] = job[q]
    BY <1>1, <1>4 DEF CreatePull, GoTo, Finish
  <2>2. pc'[r] \in {"audit", "failed"}
    BY <1>1, <1>4 DEF CreatePull, GoTo, Finish
  <2>. QED
    BY <1>4, <2>1, <2>2 DEF CreatePull, OpensPull
<1>5. ASSUME NEW r \in Requests, ListDrafts(r) \/ Proceed(r), ~CreateRef(r), ~CreatePull(r)
      PROVE  UNCHANGED upstreamVars
  BY <1>5 DEF Proceed, ListDrafts, LoadSchema, LoadLabels, PublishItem, EncodeDatasets,
     ReadSource, GetBaseRef, RecordSubmission, ClearDrafts, CallFails
<1>6. (\E draft \in Draft(Users) : CreateDraft(draft))
        \/ (\E d \in DOMAIN drafts : DeleteDraft(d)) \/ Crash \/ UNCHANGED vars
      => UNCHANGED upstreamVars
  BY DEF CreateDraft, DeleteDraft, Crash, vars
<1>. QED
  BY <1>2, <1>3, <1>4, <1>5, <1>6 DEF Next

\* Main only grows, and the pull requests with it.
LEMMA HistoryStep ==
  ASSUME TypeOK, [Next]_vars
  PROVE  /\ Len(commits') \in Nat /\ Len(commits) \in Nat \ {0} /\ Len(commits) <= Len(commits')
         /\ DOMAIN commits = 1..Len(commits) /\ DOMAIN commits' = 1..Len(commits')
         /\ \A s \in 1..Len(commits) : commits'[s] = commits[s]
         /\ \A s \in DOMAIN commits' :
              \/ s \in DOMAIN commits
              \/ /\ s = Len(commits) + 1
                 /\ \E p \in DOMAIN prs :
                      commits'[s] = MergedTree(commits[prs[p].base], Main, prs[p].tree)
<1>1. Len(commits) \in Nat \ {0} /\ DOMAIN commits = 1..Len(commits)
  BY TypeFacts
<1>2. CASE UNCHANGED commits
  BY <1>1, <1>2
<1>3. ASSUME NEW p \in DOMAIN prs, MergesPull(p)
      PROVE  /\ Len(commits') = Len(commits) + 1 /\ DOMAIN commits' = 1..Len(commits) + 1
             /\ \A s \in 1..Len(commits) : commits'[s] = commits[s]
             /\ commits'[Len(commits) + 1] = MergedTree(commits[prs[p].base], Main, prs[p].tree)
  BY <1>3, AppendSeq DEF MergesPull, TypeOK, UpstreamTypeOK
<1>4. CASE \E p \in DOMAIN prs : MergesPull(p)
  <2>1. PICK p \in DOMAIN prs : MergesPull(p)
    BY <1>4
  <2>2. \A s \in 1..Len(commits) + 1 : s \in 1..Len(commits) \/ s = Len(commits) + 1
    BY <1>1
  <2>. QED
    BY <1>1, <1>3, <2>1, <2>2
<1>. QED
  BY <1>2, <1>4, UpstreamStep
     DEF upstreamVars, ClosesPull, DropsBranch, PushesBranch, OpensPull

LEMMA PullsStep ==
  ASSUME TypeOK, [Next]_vars, NEW p \in DOMAIN prs'
  PROVE  \/ /\ p \in DOMAIN prs /\ SamePull(prs'[p], prs[p])
            /\ prs'[p].state = "open" => prs[p].state = "open"
         \/ \E r \in Requests : /\ pc[r] = "pull" /\ p = Len(prs) + 1
                                /\ prs'[p] = PullRequestOf(r)
                                /\ UNCHANGED <<commits, branches>>
<1>1. CASE UNCHANGED prs
  BY <1>1 DEF SamePull
<1>2. ASSUME NEW q \in DOMAIN prs, MergesPull(q) \/ ClosesPull(q)
      PROVE  /\ p \in DOMAIN prs /\ SamePull(prs'[p], prs[p])
             /\ prs'[p].state = "open" => prs[p].state = "open"
  <2>1. PICK state \in {"merged", "closed"} : SetState(q, state)
    BY <1>2 DEF MergesPull, ClosesPull
  <2>2. /\ DOMAIN prs' = DOMAIN prs
        /\ \A i \in DOMAIN prs : /\ SamePull(prs'[i], prs[i])
                                 /\ prs'[i].state = "open" => prs[i].state = "open"
    BY <2>1, PullKept
  <2>. QED
    BY <2>2
<1>3. ASSUME NEW r \in Requests, OpensPull(r)
      PROVE  \/ /\ p \in DOMAIN prs /\ SamePull(prs'[p], prs[p])
                /\ (prs'[p].state = "open" => prs[p].state = "open")
             \/ /\ pc[r] = "pull" /\ p = Len(prs) + 1
                /\ prs'[p] = PullRequestOf(r)
                /\ UNCHANGED <<commits, branches>>
  <2>1. /\ Len(prs) \in Nat /\ DOMAIN prs = 1..Len(prs) /\ DOMAIN prs' = 1..Len(prs) + 1
        /\ \A i \in 1..Len(prs) : prs'[i] = prs[i]
        /\ prs'[Len(prs) + 1] = PullRequestOf(r)
    BY <1>3, AppendSeq DEF OpensPull, TypeOK, UpstreamTypeOK
  <2>2. p \in 1..Len(prs) \/ p = Len(prs) + 1
    BY <2>1
  <2>. QED
    BY <1>3, <2>1, <2>2 DEF OpensPull, SamePull
<1>. QED
  BY <1>1, <1>2, <1>3, UpstreamStep DEF upstreamVars, DropsBranch, PushesBranch

\* A pull request is there for good, and a merged one stays merged.
LEMMA PullsRemain ==
  ASSUME TypeOK, [Next]_vars, NEW p \in DOMAIN prs
  PROVE  /\ p \in DOMAIN prs' /\ SamePull(prs'[p], prs[p])
         /\ prs[p].state = "merged" => prs'[p].state = "merged"
<1>1. CASE UNCHANGED prs
  BY <1>1 DEF SamePull
<1>2. ASSUME NEW q \in DOMAIN prs, MergesPull(q) \/ ClosesPull(q)
      PROVE  /\ p \in DOMAIN prs' /\ SamePull(prs'[p], prs[p])
             /\ prs[p].state = "merged" => prs'[p].state = "merged"
  <2>1. PICK state \in {"merged", "closed"} : SetState(q, state)
    BY <1>2 DEF MergesPull, ClosesPull
  <2>2. /\ DOMAIN prs' = DOMAIN prs
        /\ SamePull(prs'[p], prs[p]) /\ (q # p => prs'[p] = prs[p])
    BY <2>1, PullKept
  <2>3. prs[q].state = "open"
    BY <1>2 DEF MergesPull, ClosesPull
  <2>. QED
    BY <2>2, <2>3
<1>3. ASSUME NEW r \in Requests, OpensPull(r)
      PROVE  p \in DOMAIN prs' /\ prs'[p] = prs[p]
  <2>1. /\ Len(prs) \in Nat /\ DOMAIN prs = 1..Len(prs) /\ DOMAIN prs' = 1..Len(prs) + 1
        /\ \A i \in 1..Len(prs) : prs'[i] = prs[i]
    BY <1>3, AppendSeq DEF OpensPull, TypeOK, UpstreamTypeOK
  <2>. QED
    BY <2>1
<1>4. SamePull(prs[p], prs[p])
  BY DEF SamePull
<1>. QED
  BY <1>1, <1>2, <1>3, <1>4, UpstreamStep DEF upstreamVars, DropsBranch, PushesBranch

-----------------------------------------------------------------------------
(* Classifications.                                                        *)

\* No value under two labels.
OneLabel(options) == \A o, q \in options : o.value = q.value => o = q

\* The steps of a request that has yet to process its first draft, and of one
\* that has read the classifications and has yet to open its pull request.
Loading == {"taxonomy", "labels"}
Loaded == {"items", "sources", "base", "branch", "pull"}

\* The versions of main the request can have read: all so far, or those up to
\* the commit its branch starts from.
Seen(h, step, j) == IF step \in {"branch", "pull"} THEN j.base ELSE Len(h)

\* What it read of the classifications is what main said at moments in the order
\* of the reads, of which the n-th version of main is the last.
ReadsInOrder(h, n, j) ==
  \E s \in 1..n : \E read \in [1..SourceFiles -> s..n] :
    /\ j.live = Values(h[s].sources[Schema])
    /\ \A f, g \in 1..SourceFiles : f <= g => read[f] <= read[g]
    /\ \A f \in 1..SourceFiles : f < j.path => j.source[f] = h[read[f]].sources[f]

ReadLabels(h, step, j) ==
  /\ OneLabel(Defined(j.batch))
  /\ step \in {"base", "branch", "pull"} /\ Changes(j.batch, j.live) # {}
       => j.path = SourceFiles + 1
  /\ ReadsInOrder(h, Seen(h, step, j), j)

\* The drafts processed so far, all of them when the items are done.
Processed(step, j) ==
  /\ \A d \in DOMAIN j.results :
       /\ j.batch[d].fruit \in j.live \cup Values(Defined(j.batch))
       /\ j.batch[d].image \/ j.batch[d].card # NoID
  /\ step # "items" => DOMAIN j.results = DOMAIN j.batch

RequestLabels(h, step, j) ==
  /\ step = "taxonomy" => j.path = 1
  /\ step \in Loading => DOMAIN j.results = {}
  /\ step = "labels" => ReadsInOrder(h, Len(h), j)
  /\ step \in Loaded => ReadLabels(h, step, j) /\ Processed(step, j)

LabelInv == \A r \in Requests : RequestLabels(commits, pc[r], job[r])

\* What was read stays read as main grows.
LEMMA ReadsGrow ==
  ASSUME NEW h, NEW g, NEW n \in Nat, NEW m \in Nat, n <= m,
         \A s \in 1..n : g[s] = h[s],
         NEW j, ReadsInOrder(h, n, j)
  PROVE  ReadsInOrder(g, m, j)
<1>1. PICK s \in 1..n :
        /\ j.live = Values(h[s].sources[Schema])
        /\ \E read \in [1..SourceFiles -> s..n] :
             /\ \A f, i \in 1..SourceFiles : f <= i => read[f] <= read[i]
             /\ \A f \in 1..SourceFiles : f < j.path => j.source[f] = h[read[f]].sources[f]
  BY DEF ReadsInOrder
<1>2. PICK read \in [1..SourceFiles -> s..n] :
        /\ \A f, i \in 1..SourceFiles : f <= i => read[f] <= read[i]
        /\ \A f \in 1..SourceFiles : f < j.path => j.source[f] = h[read[f]].sources[f]
  BY <1>1
<1>3. s \in 1..m /\ g[s] = h[s]
  OBVIOUS
<1>4. \A t \in s..n : t \in s..m /\ g[t] = h[t]
  OBVIOUS
<1>5. /\ read \in [1..SourceFiles -> s..m]
      /\ \A f \in 1..SourceFiles : g[read[f]] = h[read[f]]
  BY <1>4
<1>6. \A f \in 1..SourceFiles : f < j.path => j.source[f] = g[read[f]].sources[f]
  BY <1>1, <1>2, <1>5
<1>7. \E rd \in [1..SourceFiles -> s..m] :
        /\ \A f, i \in 1..SourceFiles : f <= i => rd[f] <= rd[i]
        /\ \A f \in 1..SourceFiles : f < j.path => j.source[f] = g[rd[f]].sources[f]
  BY <1>2, <1>5, <1>6
<1>. QED
  BY <1>1, <1>3, <1>7 DEF ReadsInOrder

LEMMA RequestLabelsGrow ==
  ASSUME NEW h, NEW g, Len(h) \in Nat, Len(g) \in Nat, Len(h) <= Len(g),
         \A s \in 1..Len(h) : g[s] = h[s],
         NEW step, NEW j, j.base \in 1..Len(h), RequestLabels(h, step, j)
  PROVE  RequestLabels(g, step, j)
<1>1. /\ Seen(h, step, j) \in Nat /\ Seen(g, step, j) \in Nat
      /\ Seen(h, step, j) <= Seen(g, step, j) /\ Seen(h, step, j) <= Len(h)
  BY DEF Seen
<1>2. \A s \in 1..Seen(h, step, j) : g[s] = h[s]
  BY <1>1
<1>3. ReadsInOrder(h, Seen(h, step, j), j) => ReadsInOrder(g, Seen(g, step, j), j)
  BY <1>1, <1>2, ReadsGrow
<1>4. ReadsInOrder(h, Len(h), j) => ReadsInOrder(g, Len(g), j)
  BY ReadsGrow
<1>. QED
  BY <1>3, <1>4 DEF RequestLabels, ReadLabels

\* The file read now is of the last version of main.
LEMMA SourcesRead ==
  ASSUME NEW h, NEW n \in Nat, NEW i, NEW j, ReadsInOrder(h, n, j), j.path \in 1..SourceFiles,
         i.live = j.live, i.path = j.path + 1, i.source[j.path] = h[n].sources[j.path],
         \A f \in 1..SourceFiles \ {j.path} : i.source[f] = j.source[f]
  PROVE  ReadsInOrder(h, n, i)
<1>1. PICK s \in 1..n :
        /\ j.live = Values(h[s].sources[Schema])
        /\ \E read \in [1..SourceFiles -> s..n] :
             /\ \A f, g \in 1..SourceFiles : f <= g => read[f] <= read[g]
             /\ \A f \in 1..SourceFiles : f < j.path => j.source[f] = h[read[f]].sources[f]
  BY DEF ReadsInOrder
<1>2. PICK read \in [1..SourceFiles -> s..n] :
        /\ \A f, g \in 1..SourceFiles : f <= g => read[f] <= read[g]
        /\ \A f \in 1..SourceFiles : f < j.path => j.source[f] = h[read[f]].sources[f]
  BY <1>1
<1>. DEFINE now == [f \in 1..SourceFiles |-> IF f < j.path THEN read[f] ELSE n]
<1>3. now \in [1..SourceFiles -> s..n]
  <2>1. n \in s..n
    OBVIOUS
  <2>. QED
    BY <2>1
<1>4. ASSUME NEW f \in 1..SourceFiles, NEW g \in 1..SourceFiles, f <= g
      PROVE  now[f] <= now[g]
  <2>1. read[f] \in s..n /\ read[g] \in s..n /\ read[f] <= read[g]
    BY <1>1, <1>2, <1>4
  <2>2. g < j.path => f < j.path
    BY <1>4, CardDataAssumption
  <2>3. now[f] = (IF f < j.path THEN read[f] ELSE n) /\ now[g] = (IF g < j.path THEN read[g] ELSE n)
    OBVIOUS
  <2>. HIDE DEF now
  <2>. QED
    BY <2>1, <2>2, <2>3
<1>5. ASSUME NEW f \in 1..SourceFiles, f < i.path
      PROVE  i.source[f] = h[now[f]].sources[f]
  <2>1. f < j.path \/ f = j.path
    BY <1>5, CardDataAssumption
  <2>2. CASE f < j.path
    BY <1>1, <1>2, <2>2
  <2>3. CASE f = j.path
    BY <2>3
  <2>. QED
    BY <2>1, <2>2, <2>3
<1>. HIDE DEF now
<1>6. \E rd \in [1..SourceFiles -> s..n] :
        /\ \A f, g \in 1..SourceFiles : f <= g => rd[f] <= rd[g]
        /\ \A f \in 1..SourceFiles : f < i.path => i.source[f] = h[rd[f]].sources[f]
  BY <1>3, <1>4, <1>5
<1>7. s \in 1..n /\ i.live = Values(h[s].sources[Schema])
  BY <1>1
<1>. QED
  BY <1>6, <1>7 DEF ReadsInOrder

LEMMA LabelStep ==
  ASSUME TypeOK, LabelInv, [Next]_vars
  PROVE  LabelInv'
<1>. SUFFICES ASSUME NEW r \in Requests
              PROVE  RequestLabels(commits', pc'[r], job'[r])
  BY DEF LabelInv
<1>. DEFINE j == job[r]
            n == Len(commits)
<1>1. /\ IsJob(j, nextDraft - 1, n, Len(prs))
      /\ n \in Nat \ {0} /\ Main = commits[n]
      /\ j.base \in 1..n /\ DOMAIN j.results \subseteq DOMAIN j.batch
      /\ j.path \in 1..SourceFiles + 1
      /\ RequestLabels(commits, pc[r], j)
  BY TypeFacts DEF Main, IsJob, IsResults, LabelInv
<1>2. ASSUME NEW step, NEW i, Moves(r, step, i), i.base \in 1..n, RequestLabels(commits, step, i)
      PROVE  RequestLabels(commits', pc'[r], job'[r])
  <2>1. RequestLabels(commits', step, i)
    BY <1>2, HistoryStep, RequestLabelsGrow
  <2>. QED
    BY <1>2, <2>1 DEF Moves
<1>3. CASE Begins(r)
  <2>1. PICK b : Moves(r, "taxonomy", [NoJob EXCEPT !.batch = b])
    BY <1>3 DEF Begins
  <2>. DEFINE i == [NoJob EXCEPT !.batch = b]
  <2>2. DOMAIN i.results = {} /\ i.path = 1 /\ i.base = 1
    BY DEF NoJob, Empty
  <2>. HIDE DEF i
  <2>3. RequestLabels(commits, "taxonomy", i)
    BY <2>2 DEF RequestLabels, Loaded
  <2>4. Moves(r, "taxonomy", i)
    BY <2>1 DEF i
  <2>. QED
    BY <1>1, <1>2, <2>2, <2>3, <2>4
<1>4. CASE Loads(r)
  <2>. DEFINE i == [j EXCEPT !.live = Values(Main.sources[Schema])]
  <2>1. /\ i.live = Values(Main.sources[Schema]) /\ i.results = j.results
        /\ i.base = j.base /\ i.path = j.path
    BY JobExcept
  <2>2. DOMAIN j.results = {} /\ j.path = 1
    BY <1>1, <1>4 DEF Loads, RequestLabels, Loading
  <2>3. Moves(r, "labels", i)
    BY <1>4 DEF Loads
  <2>. HIDE DEF i
  <2>4. ReadsInOrder(commits, n, i)
    <3>. DEFINE read == [f \in 1..SourceFiles |-> n]
    <3>1. n \in 1..n /\ n \in n..n
      BY <1>1
    <3>2. /\ read \in [1..SourceFiles -> n..n]
          /\ \A f, g \in 1..SourceFiles : f <= g => read[f] <= read[g]
      BY <1>1, <3>1
    <3>3. \A f \in 1..SourceFiles : ~(f < i.path)
      BY <2>1, <2>2
    <3>. HIDE DEF read
    <3>. QED
      BY <1>1, <2>1, <3>1, <3>2, <3>3 DEF ReadsInOrder
  <2>5. RequestLabels(commits, "labels", i)
    BY <2>1, <2>2, <2>4 DEF RequestLabels, Loading, Loaded
  <2>. QED
    BY <1>1, <1>2, <2>1, <2>3, <2>5
<1>5. CASE Names(r)
  <2>1. ReadsInOrder(commits, n, j) /\ DOMAIN j.results = {} /\ Moves(r, "items", j)
    BY <1>1, <1>5 DEF Names, RequestLabels, Loading
  <2>2. OneLabel(Defined(j.batch))
    <3>1. ASSUME NEW o \in Defined(j.batch), NEW q \in Defined(j.batch), o.value = q.value
          PROVE  o = q
      <4>1. o.label = q.label
        BY <1>5, <3>1 DEF Names, Clash
      <4>2. o \in Option /\ q \in Option
        BY <1>1, DefinedType DEF IsJob
      <4>. QED
        BY <3>1, <4>1, <4>2 DEF Option
    <3>. QED
      BY <3>1 DEF OneLabel
  <2>3. RequestLabels(commits, "items", j)
    BY <2>1, <2>2 DEF RequestLabels, ReadLabels, Processed, Seen, Loading
  <2>. QED
    BY <1>1, <1>2, <2>1, <2>3
<1>6. CASE Publishes(r)
  <2>. DEFINE d == Min(Pending(r))
  <2>1. PICK ls, list, id :
          /\ Publishable(j.batch[d], list, Taxonomy(r))
          /\ Moves(r, "items", [j EXCEPT !.lists = ls, !.results = Put(j.results, d, id)])
    BY <1>6 DEF Publishes
  <2>. DEFINE i == [j EXCEPT !.lists = ls, !.results = Put(j.results, d, id)]
  <2>2. /\ i.batch = j.batch /\ i.live = j.live /\ i.results = Put(j.results, d, id)
        /\ i.source = j.source /\ i.path = j.path /\ i.base = j.base
    BY JobExcept
  <2>3. ReadLabels(commits, "items", j) /\ Processed("items", j)
    BY <1>1, <1>6 DEF Publishes, RequestLabels, Loaded
  <2>4. Moves(r, "items", i)
    BY <2>1
  <2>. HIDE DEF i, d
  <2>5. ReadLabels(commits, "items", i)
    BY <2>2, <2>3 DEF ReadLabels, Seen, ReadsInOrder
  <2>6. Processed("items", i)
    BY <2>1, <2>2, <2>3 DEF Processed, Put, Publishable, Taxonomy
  <2>7. RequestLabels(commits, "items", i)
    BY <2>5, <2>6 DEF RequestLabels, Loading
  <2>. QED
    BY <1>1, <1>2, <2>2, <2>4, <2>7
<1>7. CASE Encodes(r)
  <2>. DEFINE step == IF Changes(j.batch, j.live) = {} THEN "base" ELSE "sources"
  <2>1. ReadLabels(commits, "items", j) /\ Processed("items", j) /\ Moves(r, step, j)
    BY <1>1, <1>7 DEF Encodes, RequestLabels, Loaded
  <2>2. ReadLabels(commits, step, j)
    BY <2>1 DEF ReadLabels, Seen
  <2>3. Processed(step, j)
    BY <1>1, <1>7, <2>1 DEF Encodes, Pending, Processed
  <2>4. RequestLabels(commits, step, j)
    BY <2>2, <2>3 DEF RequestLabels, Loading
  <2>. HIDE DEF step
  <2>. QED
    BY <1>1, <1>2, <2>1, <2>4
<1>8. CASE Sources(r)
  <2>. DEFINE step == IF j.path = SourceFiles THEN "base" ELSE "sources"
  <2>1. PICK src : /\ Reads(r, src)
                   /\ Moves(r, step, [j EXCEPT !.source = src, !.path = j.path + 1])
    BY <1>8 DEF Sources
  <2>. DEFINE i == [j EXCEPT !.source = src, !.path = j.path + 1]
  <2>2. /\ i.batch = j.batch /\ i.live = j.live /\ i.results = j.results
        /\ i.base = j.base /\ i.source = src /\ i.path = j.path + 1
    BY JobExcept
  <2>3. ReadLabels(commits, "sources", j) /\ Processed("sources", j)
    BY <1>1, <1>8 DEF Sources, RequestLabels, Loaded
  <2>4. Moves(r, step, i)
    BY <2>1
  <2>. HIDE DEF i
  <2>5. ReadsInOrder(commits, n, i)
    <3>1. ReadsInOrder(commits, n, j)
      BY <2>3 DEF ReadLabels, Seen
    <3>. QED
      BY <1>1, <2>1, <2>2, <3>1, SourcesRead DEF Reads
  <2>6. ReadLabels(commits, step, i)
    <3>1. step = "base" => i.path = SourceFiles + 1
      BY <2>2
    <3>2. step \in {"base", "sources"} /\ Seen(commits, step, i) = n
      BY DEF Seen
    <3>. HIDE DEF step
    <3>. QED
      BY <2>2, <2>3, <2>5, <3>1, <3>2 DEF ReadLabels
  <2>7. Processed(step, i)
    BY <2>2, <2>3 DEF Processed
  <2>8. RequestLabels(commits, step, i)
    BY <2>6, <2>7 DEF RequestLabels, Loading
  <2>. HIDE DEF step
  <2>. QED
    BY <1>1, <1>2, <2>2, <2>4, <2>8
<1>9. CASE Starts(r)
  <2>. DEFINE i == [j EXCEPT !.base = n]
  <2>1. /\ i.batch = j.batch /\ i.live = j.live /\ i.results = j.results
        /\ i.source = j.source /\ i.path = j.path /\ i.base = n
    BY JobExcept
  <2>2. ReadLabels(commits, "base", j) /\ Processed("base", j)
    BY <1>1, <1>9 DEF Starts, RequestLabels, Loaded
  <2>3. Moves(r, "branch", i)
    BY <1>9 DEF Starts
  <2>. HIDE DEF i
  <2>4. ReadLabels(commits, "branch", i) /\ Processed("branch", i)
    <3>1. ReadsInOrder(commits, n, i)
      <4>1. ReadsInOrder(commits, n, j)
        BY <2>2 DEF ReadLabels, Seen
      <4>. QED
        BY <2>1, <4>1 DEF ReadsInOrder
    <3>2. Seen(commits, "branch", i) = n
      BY <2>1 DEF Seen
    <3>. QED
      BY <2>1, <2>2, <3>1, <3>2 DEF ReadLabels, Processed
  <2>5. RequestLabels(commits, "branch", i)
    BY <2>4 DEF RequestLabels, Loading
  <2>. QED
    BY <1>1, <1>2, <2>1, <2>3, <2>5
<1>10. CASE Branches(r)
  <2>1. ReadLabels(commits, "branch", j) /\ Processed("branch", j)
    BY <1>1, <1>10 DEF Branches, RequestLabels, Loaded
  <2>2. ReadLabels(commits, "pull", j) /\ Processed("pull", j)
    BY <2>1 DEF ReadLabels, Seen, Processed
  <2>3. RequestLabels(commits, "pull", j)
    BY <2>2 DEF RequestLabels, Loading
  <2>. QED
    BY <1>1, <1>2, <1>10, <2>3 DEF Branches
<1>11. CASE Opens(r) \/ Records(r) \/ Ends(r)
  BY <1>11 DEF Opens, Records, Ends, Moves, Loaded, Loading, RequestLabels
<1>12. CASE Rests(r)
  BY <1>1, <1>2, <1>12 DEF Rests
<1>. QED
  BY <1>3, <1>4, <1>5, <1>6, <1>7, <1>8, <1>9, <1>10, <1>11, <1>12, RequestStep

LEMMA LabelInit == Init => LabelInv
BY DEF Init, LabelInv, RequestLabels, Loading, Loaded

\* What PullsDefineWhatTheyUse says of a pull request pr when main was h: its
\* source files, and all of it.
SourcesExtended(h, s, pr, added) ==
  \E read \in [1..SourceFiles -> s..pr.base] :
    /\ \A f, g \in 1..SourceFiles : f <= g => read[f] <= read[g]
    /\ \A f \in 1..SourceFiles :
         LET source == h[read[f]].sources[f] IN
         /\ source \subseteq pr.tree.sources[f]
         /\ pr.tree.sources[f] \subseteq source \cup {Entry(f, o) : o \in added}
         /\ Values(added) \subseteq Values(pr.tree.sources[f])

DefinesFrom(h, s, pr) ==
  LET live == Values(h[s].sources[Schema])
      added == Changes(pr.batch, live)
  IN /\ \A d \in DOMAIN pr.batch : pr.batch[d].fruit \in live \cup Values(Defined(pr.batch))
     /\ IF added = {}
        THEN pr.tree.sources = h[pr.base].sources
        ELSE SourcesExtended(h, s, pr, added)

DefinesWhatItUses(h, pr) == \E s \in 1..pr.base : DefinesFrom(h, s, pr)

LEMMA DefinesIs ==
  PullsDefineWhatTheyUse <=> \A p \in DOMAIN prs : DefinesWhatItUses(commits, prs[p])
BY DEF PullsDefineWhatTheyUse, DefinesWhatItUses, DefinesFrom, SourcesExtended

\* A patched file has what it had, what was added and nothing else.
LEMMA PatchedIs ==
  ASSUME NEW f, NEW source, NEW changes, changes \subseteq Option
  PROVE  /\ source \subseteq Patched(f, source, changes)
         /\ Patched(f, source, changes) \subseteq source \cup {Entry(f, o) : o \in changes}
         /\ Values(Patched(f, source, changes)) = Values(source) \cup Values(changes)
<1>. DEFINE new == {o \in changes : o.value \notin Values(source)}
            entries == {Entry(f, o) : o \in new}
<1>1. Patched(f, source, changes) = source \cup entries
  BY DEF Patched
<1>2. Values(entries) = Values(new)
  <2>1. \A o \in new : Entry(f, o).value = o.value
    BY EntryType
  <2>. HIDE DEF new
  <2>. QED
    BY <2>1 DEF Values
<1>3. Values(source) \cup Values(new) = Values(source) \cup Values(changes)
  BY DEF Values
<1>4. Values(source \cup entries) = Values(source) \cup Values(entries)
  <2>. HIDE DEF entries
  <2>. QED
    BY DEF Values
<1>. QED
  BY <1>1, <1>2, <1>3, <1>4

LEMMA NewPullDefines ==
  ASSUME TypeOK, LabelInv, NEW r \in Requests, pc[r] = "pull"
  PROVE  DefinesWhatItUses(commits, PullRequestOf(r))
<1>. DEFINE j == job[r]
            pr == PullRequestOf(r)
            changes == Changes(j.batch, j.live)
<1>1. /\ pr.base = j.base /\ pr.batch = j.batch
      /\ pr.tree.sources = IF changes = {} THEN commits[j.base].sources
                           ELSE [f \in 1..SourceFiles |-> Patched(f, j.source[f], changes)]
  BY DEF PullRequestOf, TreeOf
<1>2. ReadLabels(commits, "pull", j) /\ Processed("pull", j)
  BY DEF LabelInv, RequestLabels, Loaded
<1>3. PICK s \in 1..j.base :
        /\ j.live = Values(commits[s].sources[Schema])
        /\ \E read \in [1..SourceFiles -> s..j.base] :
             /\ \A f, g \in 1..SourceFiles : f <= g => read[f] <= read[g]
             /\ \A f \in 1..SourceFiles : f < j.path => j.source[f] = commits[read[f]].sources[f]
  BY <1>2 DEF ReadLabels, Seen, ReadsInOrder
<1>4. \A d \in DOMAIN j.batch : j.batch[d].fruit \in j.live \cup Values(Defined(j.batch))
  BY <1>2 DEF Processed
<1>5. changes \subseteq Option
  <2>1. IsBatch(j.batch, nextDraft - 1)
    BY TypeFacts DEF IsJob
  <2>. QED
    BY <2>1, DefinedType DEF Changes
<1>6. ASSUME changes # {} PROVE SourcesExtended(commits, s, pr, changes)
  <2>1. j.path = SourceFiles + 1
    BY <1>2, <1>6 DEF ReadLabels
  <2>2. \A f \in 1..SourceFiles : f < j.path
    BY <2>1, CardDataAssumption
  <2>3. PICK read \in [1..SourceFiles -> s..j.base] :
          /\ \A f, g \in 1..SourceFiles : f <= g => read[f] <= read[g]
          /\ \A f \in 1..SourceFiles : f < j.path => j.source[f] = commits[read[f]].sources[f]
    BY <1>3
  <2>4. \A f \in 1..SourceFiles :
          /\ j.source[f] = commits[read[f]].sources[f]
          /\ pr.tree.sources[f] = Patched(f, j.source[f], changes)
    BY <1>1, <1>6, <2>3, <2>2
  <2>. HIDE DEF pr, changes, j
  <2>5. ASSUME NEW f \in 1..SourceFiles
        PROVE  LET source == commits[read[f]].sources[f] IN
               /\ source \subseteq pr.tree.sources[f]
               /\ pr.tree.sources[f] \subseteq source \cup {Entry(f, o) : o \in changes}
               /\ Values(changes) \subseteq Values(pr.tree.sources[f])
    BY <1>5, <2>4, PatchedIs
  <2>. QED
    BY <1>1, <2>3, <2>5 DEF SourcesExtended
<1>7. changes = Changes(pr.batch, Values(commits[s].sources[Schema])) /\ s \in 1..pr.base
  BY <1>1, <1>3
<1>. HIDE DEF pr, changes
<1>8. IF changes = {}
      THEN pr.tree.sources = commits[pr.base].sources
      ELSE SourcesExtended(commits, s, pr, changes)
  BY <1>1, <1>6
<1>9. \A d \in DOMAIN pr.batch :
        pr.batch[d].fruit \in Values(commits[s].sources[Schema]) \cup Values(Defined(pr.batch))
  BY <1>1, <1>3, <1>4
<1>10. DefinesFrom(commits, s, pr)
  BY <1>7, <1>8, <1>9, Zenon DEF DefinesFrom
<1>. QED
  BY <1>7, <1>10 DEF pr, DefinesWhatItUses

\* What holds of a pull request and of the versions of main up to its base holds
\* of it for good.
LEMMA OldPullDefines ==
  ASSUME NEW h, NEW g, NEW pr, NEW qr, pr.base \in Nat \ {0}, SamePull(qr, pr),
         \A s \in 1..pr.base : g[s] = h[s], DefinesWhatItUses(h, pr)
  PROVE  DefinesWhatItUses(g, qr)
<1>1. qr.base = pr.base /\ qr.batch = pr.batch /\ qr.tree = pr.tree
  BY DEF SamePull
<1>2. g[pr.base] = h[pr.base] /\ pr.base \in 1..pr.base
  OBVIOUS
<1>3. PICK s \in 1..pr.base : DefinesFrom(h, s, pr)
  BY DEF DefinesWhatItUses
<1>4. g[s] = h[s] /\ \A t \in s..pr.base : g[t] = h[t]
  OBVIOUS
<1>5. ASSUME NEW added, SourcesExtended(h, s, pr, added)
      PROVE  SourcesExtended(g, s, qr, added)
  <2>1. PICK read \in [1..SourceFiles -> s..pr.base] :
          /\ \A f, i \in 1..SourceFiles : f <= i => read[f] <= read[i]
          /\ \A f \in 1..SourceFiles :
               LET source == h[read[f]].sources[f] IN
               /\ source \subseteq pr.tree.sources[f]
               /\ pr.tree.sources[f] \subseteq source \cup {Entry(f, o) : o \in added}
               /\ Values(added) \subseteq Values(pr.tree.sources[f])
    BY <1>5 DEF SourcesExtended
  <2>2. \A f \in 1..SourceFiles : g[read[f]] = h[read[f]]
    BY <1>4
  <2>3. \A f \in 1..SourceFiles :
               LET source == g[read[f]].sources[f] IN
               /\ source \subseteq qr.tree.sources[f]
               /\ qr.tree.sources[f] \subseteq source \cup {Entry(f, o) : o \in added}
               /\ Values(added) \subseteq Values(qr.tree.sources[f])
    BY <1>1, <2>1, <2>2
  <2>. QED
    BY <1>1, <2>1, <2>3 DEF SourcesExtended
<1>6. DefinesFrom(g, s, qr)
  BY <1>1, <1>2, <1>3, <1>4, <1>5 DEF DefinesFrom
<1>. QED
  BY <1>1, <1>6 DEF DefinesWhatItUses

\* The pull requests of the next state: those there were, and a new one.
LEMMA PullsKept ==
  ASSUME TypeOK, [Next]_vars, NEW p \in DOMAIN prs, SamePull(prs'[p], prs[p])
  PROVE  /\ prs[p].base \in Nat \ {0} /\ prs[p].base \in DOMAIN commits
         /\ \A s \in 1..prs[p].base : s \in DOMAIN commits /\ commits'[s] = commits[s]
<1>1. prs[p].base \in 1..Len(commits)
  BY DEF TypeOK, UpstreamTypeOK, IsPull
<1>2. /\ Len(commits) \in Nat /\ DOMAIN commits = 1..Len(commits)
      /\ \A s \in 1..Len(commits) : commits'[s] = commits[s]
  BY HistoryStep
<1>. QED
  BY <1>1, <1>2

LEMMA LabelsCorrect == Spec => [](TypeOK /\ LabelInv)
BY InitType, TypeStep, LabelInit, LabelStep, PTL DEF Spec

\* Whatever main's history and whoever else adds classifications, a pull request
\* brings the classifications its cards need and the schema of some version of
\* main lacked, in every source file, on top of all that some version of main had
\* in that file: a version at least as new as that of any file read before it, and
\* no later than the base, though not the same for all files.
THEOREM ClassificationsTravel == Spec => []PullsDefineWhatTheyUse
<1>1. Init => PullsDefineWhatTheyUse
  BY DEF Init, UpstreamInit, PullsDefineWhatTheyUse
<1>2. PullsDefineWhatTheyUse' <=> \A p \in DOMAIN prs' : DefinesWhatItUses(commits', prs'[p])
  BY DEF PullsDefineWhatTheyUse, DefinesWhatItUses, DefinesFrom, SourcesExtended
<1>3. ASSUME TypeOK, LabelInv, PullsDefineWhatTheyUse, [Next]_vars
      PROVE  PullsDefineWhatTheyUse'
  <2>1. SUFFICES ASSUME NEW p \in DOMAIN prs'
                 PROVE  DefinesWhatItUses(commits', prs'[p])
    BY <1>2
  <2>2. ASSUME p \in DOMAIN prs, SamePull(prs'[p], prs[p])
        PROVE  DefinesWhatItUses(commits', prs'[p])
    <3>1. DefinesWhatItUses(commits, prs[p])
      BY <1>3, <2>2, DefinesIs
    <3>. QED
      BY <1>3, <2>2, <3>1, PullsKept, OldPullDefines
  <2>3. ASSUME NEW r \in Requests, pc[r] = "pull", prs'[p] = PullRequestOf(r),
               UNCHANGED commits
        PROVE  DefinesWhatItUses(commits', prs'[p])
    BY <1>3, <2>3, NewPullDefines
  <2>. QED
    BY <1>3, <2>2, <2>3, PullsStep
<1>. QED
  BY <1>1, <1>3, LabelsCorrect, PTL DEF Spec

LEMMA PatchedOneLabel ==
  ASSUME NEW f, NEW batch, NEW live, NEW source, Defined(batch) \subseteq Option,
         OneLabel(Defined(batch)), OneLabel(source)
  PROVE  OneLabel(Patched(f, source, Changes(batch, live)))
<1>. DEFINE new == {o \in Changes(batch, live) : o.value \notin Values(source)}
            entries == {Entry(f, o) : o \in new}
<1>1. new \subseteq Defined(batch)
  BY DEF Changes
<1>2. ASSUME NEW o \in entries, NEW q \in entries, o.value = q.value PROVE o = q
  <2>1. PICK a \in new, b \in new : o = Entry(f, a) /\ q = Entry(f, b)
    OBVIOUS
  <2>2. a.value = o.value /\ b.value = q.value
    BY <1>1, <2>1, EntryType
  <2>. QED
    BY <1>1, <1>2, <2>1, <2>2 DEF OneLabel
<1>3. ASSUME NEW o \in entries, NEW q \in source PROVE o.value # q.value
  <2>1. PICK a \in new : o = Entry(f, a)
    OBVIOUS
  <2>2. o.value = a.value
    BY <1>1, <2>1, EntryType
  <2>. QED
    BY <2>2 DEF Values
<1>4. Patched(f, source, Changes(batch, live)) = source \cup entries
  BY DEF Patched
<1>. HIDE DEF entries
<1>. QED
  BY <1>2, <1>3, <1>4 DEF OneLabel

OneLabelIn(tree) == \A f \in 1..SourceFiles : OneLabel(tree.sources[f])

LabelledTrees ==
  /\ \A s \in DOMAIN commits : OneLabelIn(commits[s])
  /\ \A p \in DOMAIN prs : OneLabelIn(prs[p].tree)

\* main and the pull requests never show one classification under two labels,
\* however many people add it at the same time.
THEOREM LabelsAreUnique == Spec => []OneLabelPerValue
<1>1. Init => LabelledTrees
  BY FirstTreeAssumption DEF Init, UpstreamInit, LabelledTrees, OneLabelIn, OneLabel
<1>2. ASSUME TypeOK, LabelInv, LabelledTrees, [Next]_vars PROVE LabelledTrees'
  <2>1. ASSUME NEW s \in DOMAIN commits' PROVE OneLabelIn(commits'[s])
    <3>1. CASE s \in DOMAIN commits
      BY <1>2, <3>1, HistoryStep DEF LabelledTrees
    <3>2. ASSUME NEW p \in DOMAIN prs,
                 commits'[s] = MergedTree(commits[prs[p].base], Main, prs[p].tree)
          PROVE  OneLabelIn(commits'[s])
      <4>1. OneLabelIn(Main) /\ OneLabelIn(prs[p].tree)
        BY <1>2, TypeFacts DEF LabelledTrees, Main
      <4>2. \A f \in 1..SourceFiles :
              commits'[s].sources[f] \in {Main.sources[f], prs[p].tree.sources[f]}
        BY <3>2 DEF MergedTree, MergedSource
      <4>. QED
        BY <4>1, <4>2 DEF OneLabelIn
    <3>. QED
      BY <1>2, <3>1, <3>2, HistoryStep
  <2>2. ASSUME NEW p \in DOMAIN prs' PROVE OneLabelIn(prs'[p].tree)
    <3>1. CASE p \in DOMAIN prs /\ SamePull(prs'[p], prs[p])
      BY <1>2, <3>1 DEF LabelledTrees, SamePull
    <3>2. ASSUME NEW r \in Requests, pc[r] = "pull", prs'[p] = PullRequestOf(r)
          PROVE  OneLabelIn(prs'[p].tree)
      <4>. DEFINE j == job[r]
                  changes == Changes(j.batch, j.live)
      <4>1. prs'[p].tree.sources =
              IF changes = {} THEN commits[j.base].sources
              ELSE [f \in 1..SourceFiles |-> Patched(f, j.source[f], changes)]
        <5>1. prs'[p].tree = TreeOf(j)
          BY <3>2 DEF PullRequestOf
        <5>. QED
          BY <5>1 DEF TreeOf
      <4>2. /\ IsJob(j, nextDraft - 1, Len(commits), Len(prs))
            /\ Len(commits) \in Nat /\ DOMAIN commits = 1..Len(commits)
        BY <1>2, TypeFacts
      <4>3. j.base \in DOMAIN commits /\ Defined(j.batch) \subseteq Option
        BY <4>2, DefinedType DEF IsJob
      <4>4. ReadLabels(commits, "pull", j)
        BY <1>2, <3>2 DEF LabelInv, RequestLabels, Loaded
      <4>5. OneLabelIn(commits[j.base])
        BY <1>2, <4>3 DEF LabelledTrees
      <4>6. ASSUME changes # {}, NEW f \in 1..SourceFiles
            PROVE  OneLabel(Patched(f, j.source[f], changes))
        <5>1. f < j.path
          BY <4>4, <4>6, CardDataAssumption DEF ReadLabels
        <5>2. PICK t \in DOMAIN commits : j.source[f] = commits[t].sources[f]
          <6>1. PICK s \in 1..j.base : \E read \in [1..SourceFiles -> s..j.base] :
                  j.source[f] = commits[read[f]].sources[f]
            BY <4>4, <4>6, <5>1 DEF ReadLabels, Seen, ReadsInOrder
          <6>2. PICK read \in [1..SourceFiles -> s..j.base] :
                  j.source[f] = commits[read[f]].sources[f]
            BY <6>1
          <6>3. read[f] \in s..j.base
            BY <4>6
          <6>4. read[f] \in DOMAIN commits
            BY <4>2, <4>3, <6>3
          <6>. QED
            BY <6>2, <6>4
        <5>3. OneLabel(j.source[f])
          BY <1>2, <4>6, <5>2 DEF LabelledTrees, OneLabelIn
        <5>. QED
          BY <4>3, <4>4, <5>3, PatchedOneLabel DEF ReadLabels
      <4>. HIDE DEF changes
      <4>. QED
        BY <4>1, <4>5, <4>6 DEF OneLabelIn
    <3>. QED
      BY <1>2, <3>1, <3>2, PullsStep
  <2>. QED
    BY <2>1, <2>2 DEF LabelledTrees
<1>3. LabelledTrees => OneLabelPerValue
  BY DEF LabelledTrees, OneLabelPerValue, OneLabelIn, OneLabel
<1>. QED
  BY <1>1, <1>2, <1>3, LabelsCorrect, PTL DEF Spec

-----------------------------------------------------------------------------
(* Branches.                                                               *)

\* Open pull requests, and requests about to open one, have branches of their
\* own; that of a single card is named after it.
BranchInv ==
  /\ \A p \in DOMAIN prs :
       /\ \A d \in DOMAIN prs[p].batch : DOMAIN prs[p].batch = {d} =>
            prs[p].branch = <<"card", prs[p].batch[d].kind, prs[p].results[d]>>
       /\ prs[p].state = "open" => prs[p].branch \in branches
  /\ \A p, q \in DOMAIN prs :
       prs[p].state = "open" /\ prs[q].state = "open" /\ prs[p].branch = prs[q].branch => p = q
  /\ \A r \in Requests : pc[r] = "pull" =>
       /\ Branch(r) \in branches
       /\ \A p \in DOMAIN prs : prs[p].state = "open" => prs[p].branch # Branch(r)
  /\ \A r, q \in Requests :
       pc[r] = "pull" /\ pc[q] = "pull" /\ Branch(r) = Branch(q) => r = q

LEMMA CardBranch ==
  ASSUME TypeOK, NEW r \in Requests, NEW d \in DOMAIN job[r].batch, DOMAIN job[r].batch = {d}
  PROVE  Branch(r) = <<"card", job[r].batch[d].kind, job[r].results[d]>>
<1>1. {d} \subseteq Nat
  <2>1. IsBatch(job[r].batch, nextDraft - 1)
    BY TypeFacts DEF IsJob
  <2>. QED
    BY <2>1, TypeFacts DEF IsBatch
<1>2. Min({d}) = d
  <2>1. Min({d}) \in {d}
    BY <1>1, MinIn
  <2>. QED
    BY <2>1
<1>3. Cardinality({d}) = 1
  BY FS_Singleton
<1>. QED
  BY <1>2, <1>3 DEF Branch

\* A request that is about to open its pull request was there already, or has
\* just pushed its branch.
LEMMA AtPull ==
  ASSUME TypeOK, [Next]_vars, NEW r \in Requests, pc'[r] = "pull"
  PROVE  /\ job'[r] = job[r] /\ Branch(r)' = Branch(r)
         /\ pc[r] = "pull" \/ (Branch(r) \notin branches /\ Branch(r) \in branches')
<1>1. Branches(r) \/ Rests(r)
  BY RequestStep DEF Begins, Loads, Names, Publishes, Encodes, Sources, Starts, Opens, Records,
     Ends, Moves
<1>2. job'[r] = job[r] /\ (pc[r] = "pull" \/ (Branch(r) \notin branches /\ Branch(r) \in branches'))
  BY <1>1 DEF Branches, Rests, Moves
<1>. QED
  BY <1>2 DEF Branch

LEMMA BranchStep ==
  ASSUME TypeOK, BranchInv, [Next]_vars
  PROVE  BranchInv'
<1>1. \A r \in Requests : pc'[r] = "pull" =>
        /\ job'[r] = job[r] /\ Branch(r)' = Branch(r)
        /\ pc[r] = "pull" \/ (Branch(r) \notin branches /\ Branch(r) \in branches')
  BY AtPull
<1>2. CASE UNCHANGED upstreamVars
  <2>1. \A r \in Requests : pc'[r] = "pull" => pc[r] = "pull" /\ Branch(r)' = Branch(r)
    BY <1>1, <1>2 DEF upstreamVars
  <2>. QED
    BY <1>2, <2>1 DEF BranchInv, upstreamVars
<1>3. ASSUME NEW p \in DOMAIN prs, MergesPull(p) \/ ClosesPull(p) PROVE BranchInv'
  <2>1. /\ DOMAIN prs' = DOMAIN prs
        /\ \A q \in DOMAIN prs : /\ SamePull(prs'[q], prs[q])
                                 /\ prs'[q].state = "open" => prs[q].state = "open"
    <3>1. PICK state \in {"merged", "closed"} : SetState(p, state)
      BY <1>3 DEF MergesPull, ClosesPull
    <3>. QED
      BY <3>1, PullKept
  <2>2. UNCHANGED <<branches, pc, job>>
    BY <1>3 DEF MergesPull, ClosesPull
  <2>3. \A r \in Requests : Branch(r)' = Branch(r)
    BY <2>2 DEF Branch
  <2>. QED
    BY <2>1, <2>2, <2>3 DEF BranchInv, SamePull
<1>4. ASSUME NEW b \in branches, DropsBranch(b) PROVE BranchInv'
  <2>1. \A r \in Requests : Branch(r)' = Branch(r)
    BY <1>4 DEF DropsBranch, Branch
  <2>. QED
    BY <1>4, <2>1 DEF BranchInv, DropsBranch
<1>5. ASSUME NEW r \in Requests, PushesBranch(r) PROVE BranchInv'
  <2>1. \A q \in Requests \ {r} : pc'[q] = "pull" => pc[q] = "pull" /\ Branch(q)' = Branch(q)
    BY <1>1, <1>5 DEF PushesBranch
  <2>2. pc'[r] = "pull" => Branch(r)' = Branch(r)
    BY <1>1
  <2>3. /\ \A p \in DOMAIN prs : prs[p].state = "open" => prs[p].branch # Branch(r)
        /\ \A q \in Requests \ {r} : pc'[q] = "pull" => Branch(q) # Branch(r)
    BY <1>5, <2>1 DEF BranchInv, PushesBranch
  <2>4. UNCHANGED prs /\ branches' = branches \cup {Branch(r)}
    BY <1>5 DEF PushesBranch
  <2>. QED
    BY <2>1, <2>2, <2>3, <2>4 DEF BranchInv
<1>6. ASSUME NEW r \in Requests, OpensPull(r) PROVE BranchInv'
  <2>. DEFINE n == Len(prs) + 1
  <2>1. /\ DOMAIN prs' = DOMAIN prs \cup {n} /\ n \notin DOMAIN prs
        /\ \A p \in DOMAIN prs : prs'[p] = prs[p]
        /\ prs'[n] = PullRequestOf(r)
    <3>1. /\ Len(prs) \in Nat /\ DOMAIN prs = 1..Len(prs) /\ DOMAIN prs' = 1..Len(prs) + 1
          /\ \A i \in 1..Len(prs) : prs'[i] = prs[i]
          /\ prs'[Len(prs) + 1] = PullRequestOf(r)
      BY <1>6, AppendSeq DEF OpensPull, TypeOK, UpstreamTypeOK
    <3>2. 1..Len(prs) + 1 = (1..Len(prs)) \cup {Len(prs) + 1} /\ n \notin 1..Len(prs)
      BY <3>1
    <3>. QED
      BY <3>1, <3>2
  <2>2. /\ prs'[n].branch = Branch(r) /\ prs'[n].batch = job[r].batch
        /\ prs'[n].results = job[r].results /\ prs'[n].state = "open"
    BY <2>1 DEF PullRequestOf
  <2>3. \A d \in DOMAIN job[r].batch : DOMAIN job[r].batch = {d} =>
          Branch(r) = <<"card", job[r].batch[d].kind, job[r].results[d]>>
    BY CardBranch
  <2>4. /\ Branch(r) \in branches /\ branches' = branches /\ pc[r] = "pull" /\ pc'[r] # "pull"
        /\ \A p \in DOMAIN prs : prs[p].state = "open" => prs[p].branch # Branch(r)
    BY <1>6 DEF OpensPull, BranchInv
  <2>5. \A q \in Requests : pc'[q] = "pull" =>
          pc[q] = "pull" /\ Branch(q)' = Branch(q) /\ Branch(q) # Branch(r)
    BY <1>1, <2>4 DEF BranchInv
  <2>. HIDE DEF n
  <2>6. \A p \in DOMAIN prs' :
          /\ \A d \in DOMAIN prs'[p].batch : DOMAIN prs'[p].batch = {d} =>
               prs'[p].branch = <<"card", prs'[p].batch[d].kind, prs'[p].results[d]>>
          /\ prs'[p].state = "open" => prs'[p].branch \in branches'
    BY <2>1, <2>2, <2>3, <2>4 DEF BranchInv
  <2>7. \A p, q \in DOMAIN prs' :
          prs'[p].state = "open" /\ prs'[q].state = "open" /\ prs'[p].branch = prs'[q].branch => p = q
    BY <2>1, <2>2, <2>4 DEF BranchInv
  <2>8. \A q \in Requests : pc'[q] = "pull" =>
          /\ Branch(q)' \in branches'
          /\ \A p \in DOMAIN prs' : prs'[p].state = "open" => prs'[p].branch # Branch(q)'
    BY <2>1, <2>2, <2>4, <2>5 DEF BranchInv
  <2>9. \A q, s \in Requests :
          pc'[q] = "pull" /\ pc'[s] = "pull" /\ Branch(q)' = Branch(s)' => q = s
    BY <2>5 DEF BranchInv
  <2>. QED
    BY <2>6, <2>7, <2>8, <2>9 DEF BranchInv
<1>. QED
  BY <1>2, <1>3, <1>4, <1>5, <1>6, UpstreamStep

\* A card has at most one open pull request of its own: its branch stands in the
\* way of a second one from before the first is opened until it is over.
THEOREM CardsAreProposedOnce == Spec => []OneOpenPullPerCard
<1>1. Init => BranchInv
  BY DEF Init, UpstreamInit, BranchInv
<1>2. TypeOK /\ BranchInv /\ [Next]_vars => BranchInv'
  BY BranchStep
<1>3. BranchInv => OneOpenPullPerCard
  BY DEF BranchInv, OneOpenPullPerCard
<1>. QED
  BY <1>1, <1>2, <1>3, TypeCorrect, PTL DEF Spec

-----------------------------------------------------------------------------
(* What publishing drafts one after the other makes of a dataset: exactly    *)
(* what the closed form of Expected says.                                  *)

LEMMA MaxIs ==
  ASSUME NEW S, S \subseteq Int, NEW x \in S, \A y \in S : y <= x
  PROVE  Max(S) = x
<1>1. \E z \in S : \A y \in S : z >= y
  OBVIOUS
<1>2. Max(S) \in S /\ \A y \in S : Max(S) >= y
  BY <1>1 DEF Max
<1>3. Max(S) >= x /\ Max(S) <= x /\ x \in Int /\ Max(S) \in Int
  BY <1>2
<1>. QED
  BY <1>3

IsDrafts(b) ==
  /\ b \in [DOMAIN b -> Draft(Users)]
  /\ DOMAIN b \subseteq Nat /\ IsFiniteSet(DOMAIN b)

\* The names of Expected's local definitions.
Writers(list, b, k, i) == {d \in ItemsOf(b, k) : AssignedID(list, b, d) = i}
Imaged(list, b, k, i) == {d \in Writers(list, b, k, i) : b[d].image}
ExpectedIDs(list, b, k) == DOMAIN list \cup {AssignedID(list, b, d) : d \in ItemsOf(b, k)}
CardAt(list, b, k, i) ==
  IF Writers(list, b, k, i) = {} THEN list[i]
  ELSE [by |-> Max(Writers(list, b, k, i)), fruit |-> b[Max(Writers(list, b, k, i))].fruit,
        image |-> IF Imaged(list, b, k, i) = {} THEN list[i].image
                  ELSE Max(Imaged(list, b, k, i))]

LEMMA ExpectedIs ==
  ASSUME NEW list, NEW b, NEW k
  PROVE  Expected(list, b, k) = [i \in ExpectedIDs(list, b, k) |-> CardAt(list, b, k, i)]
BY DEF Expected, ExpectedIDs, CardAt, Imaged, Writers

\* The drafts that add a card, and those of them before d.
NewItems(b, k) == {d \in ItemsOf(b, k) : b[d].card = NoID}
NewBefore(b, k, d) == {e \in NewItems(b, k) : e < d}

LEMMA AssignedIs ==
  ASSUME NEW list, NEW b, NEW k, NEW d \in ItemsOf(b, k)
  PROVE  AssignedID(list, b, d) = IF b[d].card # NoID THEN b[d].card
                                  ELSE NextID(list) + Cardinality(NewBefore(b, k, d))
<1>1. b[d].kind = k
  BY DEF ItemsOf
<1>2. NewBefore(b, k, d) = {e \in ItemsOf(b, k) : e < d /\ b[e].card = NoID}
  BY DEF NewBefore, NewItems
<1>. QED
  BY <1>1, <1>2 DEF AssignedID

LEMMA NewItemsFinite ==
  ASSUME NEW b, IsDrafts(b), NEW k
  PROVE  /\ ItemsOf(b, k) \subseteq Nat /\ IsFiniteSet(ItemsOf(b, k))
         /\ IsFiniteSet(NewItems(b, k)) /\ Cardinality(NewItems(b, k)) \in Nat
         /\ \A d : /\ IsFiniteSet(NewBefore(b, k, d)) /\ Cardinality(NewBefore(b, k, d)) \in Nat
                   /\ d \in NewItems(b, k)
                        => Cardinality(NewBefore(b, k, d)) < Cardinality(NewItems(b, k))
<1>1. ItemsOf(b, k) \in SUBSET DOMAIN b /\ DOMAIN b \subseteq Nat /\ IsFiniteSet(DOMAIN b)
  BY DEF IsDrafts, ItemsOf
<1>2. ItemsOf(b, k) \subseteq Nat /\ IsFiniteSet(ItemsOf(b, k))
  BY <1>1, FS_Subset
<1>3. NewItems(b, k) \in SUBSET ItemsOf(b, k)
  BY DEF NewItems
<1>4. IsFiniteSet(NewItems(b, k)) /\ Cardinality(NewItems(b, k)) \in Nat
  BY <1>2, <1>3, FS_Subset, FS_CardinalityType
<1>5. ASSUME NEW d
      PROVE  /\ IsFiniteSet(NewBefore(b, k, d)) /\ Cardinality(NewBefore(b, k, d)) \in Nat
             /\ d \in NewItems(b, k)
                  => Cardinality(NewBefore(b, k, d)) < Cardinality(NewItems(b, k))
  <2>1. NewBefore(b, k, d) \in SUBSET NewItems(b, k)
    BY DEF NewBefore
  <2>2. /\ IsFiniteSet(NewBefore(b, k, d)) /\ Cardinality(NewBefore(b, k, d)) \in Nat
        /\ Cardinality(NewBefore(b, k, d)) <= Cardinality(NewItems(b, k))
        /\ Cardinality(NewItems(b, k)) = Cardinality(NewBefore(b, k, d))
             => NewItems(b, k) = NewBefore(b, k, d)
    BY <1>4, <2>1, FS_Subset, FS_CardinalityType
  <2>3. d \in NewItems(b, k) => d \notin NewBefore(b, k, d)
    BY <1>2, <1>3 DEF NewBefore
  <2>. QED
    BY <1>4, <2>2, <2>3
<1>. QED
  BY <1>2, <1>4, <1>5

\* After a batch the next ID has moved by the number of cards it adds.
LEMMA NextIDExpected ==
  ASSUME NEW list, IsDataset(list), NEW b, IsDrafts(b), NEW k, EditsFound(list, b, k)
  PROVE  NextID(Expected(list, b, k)) = NextID(list) + Cardinality(NewItems(b, k))
<1>. DEFINE n == NextID(list)
            N == NewItems(b, k)
            C == Cardinality(N)
            D == ExpectedIDs(list, b, k)
<1>1. n \in Nat /\ (\A i \in DOMAIN list : i < n) /\ DOMAIN list \subseteq Nat
  BY NextIDIsFresh DEF IsDataset
<1>2. DOMAIN Expected(list, b, k) = D
  BY ExpectedIs
<1>3. C \in Nat /\ IsFiniteSet(N) /\ N \subseteq Nat
  BY NewItemsFinite DEF NewItems
<1>. HIDE DEF n, C
<1>4. ASSUME NEW d \in N
      PROVE  /\ AssignedID(list, b, d) \in Nat /\ AssignedID(list, b, d) < n + C
             /\ AssignedID(list, b, d) = n + Cardinality(NewBefore(b, k, d))
  <2>1. d \in ItemsOf(b, k) /\ b[d].card = NoID
    BY DEF NewItems
  <2>2. AssignedID(list, b, d) = n + Cardinality(NewBefore(b, k, d))
    BY <2>1, AssignedIs DEF n
  <2>3. Cardinality(NewBefore(b, k, d)) \in Nat /\ Cardinality(NewBefore(b, k, d)) < C
    BY NewItemsFinite DEF C
  <2>. QED
    BY <1>1, <1>3, <2>2, <2>3
<1>5. ASSUME NEW d \in ItemsOf(b, k)
      PROVE  AssignedID(list, b, d) \in Nat /\ AssignedID(list, b, d) < n + C
  <2>1. CASE b[d].card = NoID
    BY <1>4, <2>1 DEF NewItems
  <2>2. CASE b[d].card # NoID
    <3>1. AssignedID(list, b, d) = b[d].card
      BY <2>2, AssignedIs
    <3>2. \/ b[d].card \in DOMAIN list
          \/ \E e \in N : AssignedID(list, b, e) = b[d].card
      BY <2>2 DEF EditsFound, NewItems
    <3>. QED
      BY <1>1, <1>3, <1>4, <3>1, <3>2
  <2>. QED
    BY <2>1, <2>2
<1>6. D \subseteq Nat /\ \A i \in D : i < n + C
  BY <1>1, <1>3, <1>5 DEF ExpectedIDs
<1>7. n + C - 1 \in D \cup {-1}
  <2>1. CASE N = {}
    <3>1. C = 0
      BY <2>1, FS_EmptySet DEF C
    <3>. DEFINE S == DOMAIN list \cup {-1}
    <3>2. Max(S) = n - 1 /\ Max(S) \in S
      <4>1. IsFiniteSet(S) /\ S \subseteq Int /\ S # {}
        BY <1>1, FS_AddElement DEF IsDataset
      <4>2. Max(S) \in S
        BY <4>1, MaxIn
      <4>3. n = Max(S) + 1
        BY DEF n, NextID
      <4>. QED
        BY <4>1, <4>2, <4>3
    <3>3. S \subseteq D \cup {-1}
      BY DEF ExpectedIDs
    <3>. QED
      BY <1>1, <3>1, <3>2, <3>3
  <2>2. CASE N # {}
    <3>. DEFINE m == Max(N)
    <3>1. m \in N /\ \A y \in N : y <= m
      <4>1. N \subseteq Int
        BY <1>3
      <4>. QED
        BY <1>3, <2>2, <4>1, MaxIn
    <3>. HIDE DEF m
    <3>2. NewBefore(b, k, m) = N \ {m}
      BY <1>3, <3>1 DEF NewBefore
    <3>3. Cardinality(N \ {m}) = C - 1
      BY <1>3, <3>1, FS_RemoveElement DEF C
    <3>4. AssignedID(list, b, m) = n + (C - 1)
      BY <1>4, <3>1, <3>2, <3>3
    <3>5. m \in ItemsOf(b, k)
      BY <3>1 DEF NewItems
    <3>6. AssignedID(list, b, m) \in D
      BY <3>5 DEF ExpectedIDs
    <3>. QED
      BY <1>1, <1>3, <3>4, <3>6
  <2>. QED
    BY <2>1, <2>2
<1>8. Max(D \cup {-1}) = n + C - 1
  <2>1. D \cup {-1} \subseteq Int /\ \A y \in D \cup {-1} : y <= n + C - 1
    BY <1>1, <1>3, <1>6
  <2>. HIDE DEF D
  <2>. QED
    BY <1>7, <2>1, MaxIs
<1>. QED
  BY <1>1, <1>2, <1>3, <1>8 DEF NextID, n, C

\* What PullsBuiltFromMain says of the dataset out of kind k that a batch b makes
\* of list, and of the card numbers res it gives.
Published(list, b, k, out, res) ==
  /\ EditsFound(list, b, k)
  /\ out = Expected(list, b, k)
  /\ \A d \in ItemsOf(b, k) : res[d] = AssignedID(list, b, d)

LEMMA NothingPublished ==
  ASSUME NEW list, IsDataset(list), NEW b, NEW k, ItemsOf(b, k) = {}, NEW res
  PROVE  Published(list, b, k, list, res)
<1>1. ExpectedIDs(list, b, k) = DOMAIN list /\ \A i : CardAt(list, b, k, i) = list[i]
  BY DEF ExpectedIDs, CardAt, Writers
<1>2. list = [i \in DOMAIN list |-> list[i]]
  BY DEF IsDataset
<1>3. Expected(list, b, k) = list
  BY <1>1, <1>2, ExpectedIs
<1>. QED
  BY <1>3 DEF Published, EditsFound

\* One more draft leaves the drafts before it, and the other datasets, alone.
LEMMA LaterDraft ==
  ASSUME NEW list, NEW b, IsDrafts(b), NEW k, NEW d \in Nat, \A e \in DOMAIN b : e < d,
         NEW draft
  PROVE  LET c == Put(b, d, draft) IN
         /\ ItemsOf(c, k) = ItemsOf(b, k) \cup (IF draft.kind = k THEN {d} ELSE {})
         /\ d \notin ItemsOf(b, k) /\ c[d] = draft
         /\ \A e \in ItemsOf(b, k) : c[e] = b[e] /\ AssignedID(list, c, e) = AssignedID(list, b, e)
<1>. DEFINE c == Put(b, d, draft)
<1>1. d \notin DOMAIN b
  OBVIOUS
<1>2. /\ DOMAIN c = DOMAIN b \cup {d} /\ c[d] = draft
      /\ \A e \in DOMAIN b : c[e] = b[e]
  BY <1>1 DEF Put
<1>. HIDE DEF c
<1>3. ItemsOf(c, k) = ItemsOf(b, k) \cup (IF draft.kind = k THEN {d} ELSE {})
  BY <1>1, <1>2 DEF ItemsOf
<1>4. d \notin ItemsOf(b, k) /\ \A e \in ItemsOf(b, k) : c[e] = b[e]
  BY <1>1, <1>2 DEF ItemsOf
<1>5. ASSUME NEW e \in ItemsOf(b, k)
      PROVE  AssignedID(list, c, e) = AssignedID(list, b, e)
  <2>1. e < d /\ e \in Nat
    BY DEF ItemsOf, IsDrafts
  <2>2. \A x \in ItemsOf(c, k) : x < e => x \in ItemsOf(b, k)
    BY <1>3, <2>1
  <2>3. NewBefore(c, k, e) = NewBefore(b, k, e)
    BY <1>3, <1>4, <2>2 DEF NewBefore, NewItems
  <2>4. e \in ItemsOf(c, k) /\ c[e] = b[e]
    BY <1>3, <1>4
  <2>. QED
    BY <2>3, <2>4, AssignedIs
<1>. QED
  BY <1>2, <1>3, <1>4, <1>5 DEF c

LEMMA OtherKindPublished ==
  ASSUME NEW list, NEW b, IsDrafts(b), NEW k, NEW d \in Nat, \A e \in DOMAIN b : e < d,
         NEW draft, draft.kind # k, NEW out, NEW res, NEW id, ItemsOf(b, k) \subseteq DOMAIN res,
         Published(list, b, k, out, res)
  PROVE  Published(list, Put(b, d, draft), k, out, Put(res, d, id))
<1>. DEFINE c == Put(b, d, draft)
<1>1. /\ ItemsOf(c, k) = ItemsOf(b, k) /\ d \notin ItemsOf(b, k)
      /\ \A e \in ItemsOf(b, k) : c[e] = b[e] /\ AssignedID(list, c, e) = AssignedID(list, b, e)
  <2>1. ItemsOf(c, k) = ItemsOf(b, k) \cup (IF draft.kind = k THEN {d} ELSE {})
    BY LaterDraft
  <2>2. ItemsOf(c, k) = ItemsOf(b, k)
    BY <2>1
  <2>3. /\ d \notin ItemsOf(b, k)
        /\ \A e \in ItemsOf(b, k) : c[e] = b[e] /\ AssignedID(list, c, e) = AssignedID(list, b, e)
    BY LaterDraft
  <2>. QED
    BY <2>2, <2>3
<1>. HIDE DEF c
<1>2. EditsFound(list, c, k)
  BY <1>1 DEF Published, EditsFound
<1>3. ExpectedIDs(list, c, k) = ExpectedIDs(list, b, k)
  BY <1>1 DEF ExpectedIDs
<1>4. ASSUME NEW i PROVE CardAt(list, c, k, i) = CardAt(list, b, k, i)
  <2>1. Writers(list, c, k, i) = Writers(list, b, k, i)
    BY <1>1 DEF Writers
  <2>2. Writers(list, b, k, i) \subseteq ItemsOf(b, k)
    BY DEF Writers
  <2>3. Imaged(list, c, k, i) = Imaged(list, b, k, i)
    BY <1>1, <2>1, <2>2 DEF Imaged
  <2>4. CASE Writers(list, b, k, i) = {}
    BY <2>1, <2>4 DEF CardAt
  <2>5. CASE Writers(list, b, k, i) # {}
    <3>1. Max(Writers(list, b, k, i)) \in ItemsOf(b, k)
      <4>1. IsFiniteSet(Writers(list, b, k, i)) /\ Writers(list, b, k, i) \subseteq Int
        <5>1. ItemsOf(b, k) \subseteq Nat /\ IsFiniteSet(ItemsOf(b, k))
          BY NewItemsFinite
        <5>. QED
          BY <2>2, <5>1, FS_Subset
      <4>. QED
        BY <2>2, <2>5, <4>1, MaxIn
    <3>. QED
      BY <1>1, <2>1, <2>3, <3>1 DEF CardAt
  <2>. QED
    BY <2>4, <2>5
<1>5. Expected(list, c, k) = Expected(list, b, k)
  BY <1>3, <1>4, ExpectedIs
<1>6. \A e \in ItemsOf(b, k) : Put(res, d, id)[e] = res[e]
  BY <1>1 DEF Put
<1>. QED
  BY <1>1, <1>2, <1>5, <1>6 DEF Published, c

\* Publishing one more draft as PublishItem does.
LEMMA ItemPublished ==
  ASSUME NEW list, IsDataset(list), NEW b, IsDrafts(b), NEW k,
         NEW d \in Nat, \A e \in DOMAIN b : e < d,
         NEW draft, draft.kind = k, draft.card \in Nat \cup {NoID},
         NEW cur, NEW res, ItemsOf(b, k) \subseteq DOMAIN res,
         Published(list, b, k, cur, res),
         draft.card = NoID \/ draft.card \in DOMAIN cur,
         draft.image \/ draft.card # NoID,
         NEW id, id = IF draft.card = NoID THEN NextID(cur) ELSE draft.card
  PROVE  Published(list, Put(b, d, draft), k, Put(cur, id, Written(draft, d, cur, id)),
                   Put(res, d, id))
<1>. DEFINE c == Put(b, d, draft)
            W == Written(draft, d, cur, id)
<1>1. /\ ItemsOf(c, k) = ItemsOf(b, k) \cup {d} /\ d \notin ItemsOf(b, k) /\ c[d] = draft
      /\ \A e \in ItemsOf(b, k) : c[e] = b[e] /\ AssignedID(list, c, e) = AssignedID(list, b, e)
  BY LaterDraft
<1>. HIDE DEF c
<1>2. /\ ItemsOf(b, k) \subseteq Nat /\ IsFiniteSet(ItemsOf(b, k))
      /\ \A e \in ItemsOf(b, k) : e < d
  BY NewItemsFinite DEF ItemsOf
<1>3. cur = Expected(list, b, k) /\ DOMAIN cur = ExpectedIDs(list, b, k)
      /\ \A i \in DOMAIN cur : cur[i] = CardAt(list, b, k, i)
  BY ExpectedIs DEF Published
<1>4. AssignedID(list, c, d) = id
  <2>1. CASE draft.card # NoID
    BY <1>1, <2>1, AssignedIs
  <2>2. CASE draft.card = NoID
    <3>1. NewBefore(c, k, d) = NewItems(b, k)
      BY <1>1, <1>2 DEF NewBefore, NewItems
    <3>2. AssignedID(list, c, d) = NextID(list) + Cardinality(NewItems(b, k))
      BY <1>1, <2>2, <3>1, AssignedIs
    <3>3. id = NextID(list) + Cardinality(NewItems(b, k))
      BY <1>3, <2>2, NextIDExpected DEF Published
    <3>. QED
      BY <3>2, <3>3
  <2>. QED
    BY <2>1, <2>2
<1>5. EditsFound(list, c, k)
  <2>1. ASSUME NEW e \in ItemsOf(b, k)
        PROVE  \/ c[e].card \in DOMAIN list \cup {NoID}
               \/ \E x \in ItemsOf(c, k) : x < e /\ c[x].card = NoID
                                           /\ AssignedID(list, c, x) = c[e].card
    BY <1>1 DEF Published, EditsFound
  <2>2. \/ c[d].card \in DOMAIN list \cup {NoID}
        \/ \E x \in ItemsOf(c, k) : x < d /\ c[x].card = NoID
                                    /\ AssignedID(list, c, x) = c[d].card
    <3>1. CASE draft.card = NoID \/ draft.card \in DOMAIN list
      BY <1>1, <3>1
    <3>2. ASSUME NEW e \in ItemsOf(b, k), AssignedID(list, b, e) = draft.card,
                 draft.card \notin DOMAIN list
          PROVE  \E x \in ItemsOf(c, k) : x < d /\ c[x].card = NoID
                                          /\ AssignedID(list, c, x) = c[d].card
      <4>1. CASE b[e].card = NoID
        BY <1>1, <1>2, <3>2, <4>1
      <4>2. CASE b[e].card # NoID
        <5>1. b[e].card = draft.card
          <6>1. AssignedID(list, b, e) = b[e].card
            BY <4>2, AssignedIs
          <6>. QED
            BY <3>2, <6>1
        <5>2. PICK x \in ItemsOf(b, k) : x < e /\ b[x].card = NoID
                                         /\ AssignedID(list, b, x) = b[e].card
          BY <3>2, <4>2, <5>1 DEF Published, EditsFound
        <5>. QED
          BY <1>1, <1>2, <5>1, <5>2
      <4>. QED
        BY <4>1, <4>2
    <3>3. draft.card = NoID \/ draft.card \in ExpectedIDs(list, b, k)
      BY <1>3
    <3>. QED
      BY <3>1, <3>2, <3>3 DEF ExpectedIDs
  <2>. QED
    BY <1>1, <2>1, <2>2 DEF EditsFound
<1>6. ExpectedIDs(list, c, k) = DOMAIN cur \cup {id}
  BY <1>1, <1>3, <1>4 DEF ExpectedIDs
<1>7. ASSUME NEW i \in DOMAIN cur, i # id
      PROVE  CardAt(list, c, k, i) = cur[i]
  <2>1. Writers(list, c, k, i) = Writers(list, b, k, i)
    BY <1>1, <1>4, <1>7 DEF Writers
  <2>2. Writers(list, b, k, i) \in SUBSET ItemsOf(b, k)
    BY DEF Writers
  <2>3. Imaged(list, c, k, i) = Imaged(list, b, k, i)
    BY <1>1, <2>1, <2>2 DEF Imaged
  <2>4. Writers(list, b, k, i) # {} => Max(Writers(list, b, k, i)) \in ItemsOf(b, k)
    <3>1. IsFiniteSet(Writers(list, b, k, i)) /\ Writers(list, b, k, i) \subseteq Int
      BY <1>2, <2>2, FS_Subset
    <3>. QED
      BY <2>2, <3>1, MaxIn
  <2>5. CardAt(list, c, k, i) = CardAt(list, b, k, i)
    BY <1>1, <2>1, <2>3, <2>4 DEF CardAt
  <2>. QED
    BY <1>3, <2>5
<1>8. CardAt(list, c, k, id) = W
  <2>1. Writers(list, c, k, id) = Writers(list, b, k, id) \cup {d}
    BY <1>1, <1>4 DEF Writers
  <2>2. Writers(list, b, k, id) \in SUBSET ItemsOf(b, k)
    BY DEF Writers
  <2>3. Max(Writers(list, c, k, id)) = d /\ Writers(list, c, k, id) # {}
    <3>1. /\ Writers(list, c, k, id) \subseteq Int /\ d \in Writers(list, c, k, id)
          /\ \A y \in Writers(list, c, k, id) : y <= d
      BY <1>2, <2>1, <2>2
    <3>. QED
      BY <3>1, MaxIs
  <2>4. Imaged(list, c, k, id) = Imaged(list, b, k, id) \cup (IF draft.image THEN {d} ELSE {})
    BY <1>1, <2>1, <2>2 DEF Imaged
  <2>5. Imaged(list, b, k, id) \subseteq ItemsOf(b, k)
    BY <2>2 DEF Imaged
  <2>6. CASE draft.image
    <3>1. Max(Imaged(list, c, k, id)) = d /\ Imaged(list, c, k, id) # {}
      <4>1. /\ Imaged(list, c, k, id) \subseteq Int /\ d \in Imaged(list, c, k, id)
            /\ \A y \in Imaged(list, c, k, id) : y <= d
        BY <1>2, <2>4, <2>5, <2>6
      <4>. QED
        BY <4>1, MaxIs
    <3>2. CardAt(list, c, k, id) = [by |-> d, fruit |-> draft.fruit, image |-> d]
      BY <1>1, <2>3, <3>1 DEF CardAt
    <3>. QED
      BY <2>6, <3>2 DEF Written
  <2>7. CASE ~draft.image
    <3>1. Imaged(list, c, k, id) = Imaged(list, b, k, id)
      BY <2>4, <2>7
    <3>2. id \in DOMAIN cur /\ cur[id] = CardAt(list, b, k, id)
      BY <1>3, <2>7
    <3>3. cur[id].image = IF Imaged(list, b, k, id) = {} THEN list[id].image
                          ELSE Max(Imaged(list, b, k, id))
      <4>1. Writers(list, b, k, id) = {} => Imaged(list, b, k, id) = {}
        BY DEF Imaged
      <4>2. CASE Writers(list, b, k, id) = {}
        BY <3>2, <4>1, <4>2 DEF CardAt
      <4>3. CASE Writers(list, b, k, id) # {}
        BY <3>2, <4>3 DEF CardAt
      <4>. QED
        BY <4>2, <4>3
    <3>4. CardAt(list, c, k, id) = [by |-> d, fruit |-> draft.fruit, image |-> cur[id].image]
      BY <1>1, <2>3, <3>1, <3>3 DEF CardAt
    <3>. QED
      BY <2>7, <3>4 DEF Written
  <2>. QED
    BY <2>6, <2>7
<1>9. Expected(list, c, k) = Put(cur, id, W)
  <2>1. Put(cur, id, W) = [i \in DOMAIN cur \cup {id} |-> IF i = id THEN W ELSE cur[i]]
    BY DEF Put
  <2>2. \A i \in DOMAIN cur \cup {id} : CardAt(list, c, k, i) = IF i = id THEN W ELSE cur[i]
    BY <1>7, <1>8
  <2>. HIDE DEF W
  <2>. QED
    BY <1>6, <2>1, <2>2, ExpectedIs
<1>10. \A e \in ItemsOf(c, k) : Put(res, d, id)[e] = AssignedID(list, c, e)
  BY <1>1, <1>4 DEF Published, Put
<1>. QED
  BY <1>5, <1>9, <1>10 DEF Published, c

-----------------------------------------------------------------------------
(* Datasets.                                                               *)

\* The drafts a request has processed.
Done(j) == Restrict(j.batch, DOMAIN j.results)

\* They are the first of its batch, and its datasets are what they make of
\* versions of main it can have read.
ReadLists(h, step, j) ==
  /\ \A d \in DOMAIN j.results, e \in DOMAIN j.batch \ DOMAIN j.results : d < e
  /\ \A k \in Kinds :
       IF ItemsOf(Done(j), k) = {}
       THEN k \notin DOMAIN j.lists
       ELSE /\ k \in DOMAIN j.lists
            /\ \E s \in 1..Seen(h, step, j) :
                 Published(h[s].data[k], Done(j), k, j.lists[k], j.results)

DatasetInv ==
  \A r \in Requests :
    /\ pc[r] \in Loading => DOMAIN job[r].results = {} /\ DOMAIN job[r].lists = {}
    /\ pc[r] \in Loaded => ReadLists(commits, pc[r], job[r])

LEMMA DatasetInit == Init => DatasetInv
BY DEF Init, DatasetInv, Loading, Loaded

LEMMA ReadListsGrow ==
  ASSUME NEW h, NEW g, Len(h) \in Nat, Len(g) \in Nat, Len(h) <= Len(g),
         \A s \in 1..Len(h) : g[s] = h[s],
         NEW step, NEW j, j.base \in 1..Len(h), ReadLists(h, step, j)
  PROVE  ReadLists(g, step, j)
<1>1. \A s \in 1..Seen(h, step, j) : s \in 1..Seen(g, step, j) /\ g[s] = h[s]
  BY DEF Seen
<1>2. ASSUME NEW k \in Kinds, ItemsOf(Done(j), k) # {}
      PROVE  \E s \in 1..Seen(g, step, j) :
                 Published(g[s].data[k], Done(j), k, j.lists[k], j.results)
  <2>1. PICK s \in 1..Seen(h, step, j) :
               Published(h[s].data[k], Done(j), k, j.lists[k], j.results)
    BY <1>2 DEF ReadLists
  <2>. QED
    BY <1>1, <2>1
<1>. QED
  BY <1>2 DEF ReadLists

LEMMA ReadListsSame ==
  ASSUME NEW h, NEW step, NEW goal, NEW j, NEW i, ReadLists(h, step, j),
         i.batch = j.batch, i.results = j.results, i.lists = j.lists,
         Seen(h, step, j) = Seen(h, goal, i)
  PROVE  ReadLists(h, goal, i)
<1>1. Done(i) = Done(j)
  BY DEF Done
<1>. QED
  BY <1>1 DEF ReadLists

\* One round of the item loop.
LEMMA ItemRead ==
  ASSUME TypeOK, NEW r \in Requests, ReadLists(commits, "items", job[r]), Publishes(r)
  PROVE  ReadLists(commits, "items", job'[r])
<1>. DEFINE j == job[r]
            i == job'[r]
            n == Len(commits)
            b == Done(j)
            d == Min(Pending(r))
            draft == j.batch[d]
            cur == ListOf(r, draft.kind)
            id == IF draft.card = NoID THEN NextID(cur) ELSE draft.card
            out == Put(cur, id, Written(draft, d, cur, id))
<1>1. /\ i.batch = j.batch /\ i.lists = Put(j.lists, draft.kind, out)
      /\ i.results = Put(j.results, d, id)
  BY JobExcept DEF Publishes, Moves
<1>2. /\ draft.card = NoID \/ draft.card \in DOMAIN cur
      /\ draft.image \/ draft.card # NoID
  BY DEF Publishes, Publishable
<1>3. /\ IsBatch(j.batch, nextDraft - 1) /\ IsResults(j.results, j.batch)
      /\ DOMAIN j.results \subseteq DOMAIN j.batch
      /\ nextDraft - 1 \in Nat
  BY TypeFacts DEF IsJob, IsResults
<1>4. /\ d \in DOMAIN j.batch /\ d \notin DOMAIN j.results /\ d \in Nat
      /\ \A e \in DOMAIN j.batch \ DOMAIN j.results : d <= e
      /\ DOMAIN j.batch \subseteq Nat
  <2>1. Pending(r) \subseteq Nat /\ Pending(r) = DOMAIN j.batch \ DOMAIN j.results
    BY <1>3 DEF Pending, IsBatch
  <2>2. d \in Pending(r) /\ \A e \in Pending(r) : d <= e
    BY <2>1, MinIn DEF Publishes
  <2>3. DOMAIN j.batch \subseteq Nat
    BY <1>3 DEF IsBatch
  <2>. HIDE DEF d
  <2>. QED
    BY <2>1, <2>2, <2>3
<1>5. draft \in Draft(Users) /\ draft.kind \in Kinds /\ draft.card \in Nat \cup {NoID}
  <2>1. draft \in Draft(Users)
    BY <1>3, <1>4 DEF IsBatch
  <2>. QED
    BY <2>1, DraftFields
<1>6. /\ DOMAIN b = DOMAIN j.results /\ IsDrafts(b)
      /\ \A e \in DOMAIN b : e < d
  <2>1. DOMAIN b = DOMAIN j.results /\ \A e \in DOMAIN b : b[e] = j.batch[e]
    BY DEF Done, Restrict
  <2>2. b \in [DOMAIN b -> Draft(Users)] /\ DOMAIN b \subseteq Nat
    BY <1>3, <2>1 DEF IsBatch, Done, Restrict
  <2>3. IsFiniteSet(DOMAIN b)
    <3>1. IsFiniteSet(1..nextDraft - 1)
      BY <1>3, FS_Interval
    <3>2. DOMAIN b \in SUBSET (1..nextDraft - 1)
      BY <1>3, <2>1 DEF IsBatch
    <3>. QED
      BY <3>1, <3>2, FS_Subset
  <2>4. \A e \in DOMAIN b : e < d
    BY <1>4, <2>1 DEF ReadLists
  <2>. QED
    BY <2>1, <2>2, <2>3, <2>4 DEF IsDrafts
<1>7. Done(i) = Put(b, d, draft)
  BY <1>1 DEF Done, Restrict, Put
<1>8. \A k \in Kinds : ItemsOf(b, k) \subseteq DOMAIN j.results
  BY <1>6 DEF ItemsOf
<1>9. PICK s \in 1..n : IsDataset(commits[s].data[draft.kind])
                        /\ Published(commits[s].data[draft.kind], b, draft.kind, cur, j.results)
  <2>0. n \in 1..n /\ \A s \in 1..n : \A k \in Kinds : IsDataset(commits[s].data[k])
    <3>1. n \in Nat \ {0} /\ DOMAIN commits = 1..n
      BY TypeFacts
    <3>2. \A s \in 1..n : IsTree(commits[s])
      BY <3>1 DEF TypeOK, UpstreamTypeOK
    <3>3. \A tree : IsTree(tree) => \A k \in Kinds : IsDataset(tree.data[k])
      BY DEF IsTree
    <3>. QED
      BY <3>1, <3>2, <3>3
  <2>1. CASE ItemsOf(b, draft.kind) = {}
    <3>1. cur = commits[n].data[draft.kind]
      BY <1>5, <2>1 DEF ReadLists, ListOf, Main
    <3>. QED
      BY <1>5, <2>0, <2>1, <3>1, NothingPublished
  <2>2. CASE ItemsOf(b, draft.kind) # {}
    <3>1. cur = j.lists[draft.kind]
      BY <1>5, <2>2 DEF ReadLists, ListOf
    <3>2. \E s \in 1..n :
            Published(commits[s].data[draft.kind], b, draft.kind, cur, j.results)
      BY <1>5, <2>2, <3>1 DEF ReadLists, Seen
    <3>. QED
      BY <1>5, <2>0, <3>2
  <2>. QED
    BY <2>1, <2>2
<1>. HIDE DEF b, d, draft, cur
<1>10. Published(commits[s].data[draft.kind], Done(i), draft.kind, out, i.results)
  BY <1>1, <1>2, <1>4, <1>5, <1>6, <1>7, <1>8, <1>9, ItemPublished
<1>11. ASSUME NEW k \in Kinds, k # draft.kind, ItemsOf(b, k) # {}
       PROVE  \E t \in 1..n : Published(commits[t].data[k], Done(i), k, j.lists[k], i.results)
  <2>1. PICK t \in 1..n : Published(commits[t].data[k], b, k, j.lists[k], j.results)
    BY <1>11 DEF ReadLists, Seen, b
  <2>. QED
    BY <1>1, <1>4, <1>6, <1>7, <1>8, <1>11, <2>1, OtherKindPublished
<1>12. \A k \in Kinds : ItemsOf(Done(i), k) = ItemsOf(b, k) \cup (IF draft.kind = k THEN {d} ELSE {})
  <2>1. d \notin DOMAIN b
    BY <1>4, <1>6
  <2>. QED
    BY <1>7, <2>1 DEF ItemsOf, Put
<1>13. \A x \in DOMAIN i.results, e \in DOMAIN i.batch \ DOMAIN i.results : x < e
  <2>1. DOMAIN i.results = DOMAIN j.results \cup {d} /\ i.batch = j.batch
    BY <1>1 DEF Put
  <2>. QED
    BY <1>4, <2>1 DEF ReadLists
<1>14. ASSUME NEW k \in Kinds
       PROVE  IF ItemsOf(Done(i), k) = {}
              THEN k \notin DOMAIN i.lists
              ELSE /\ k \in DOMAIN i.lists
                   /\ \E t \in 1..n : Published(commits[t].data[k], Done(i), k, i.lists[k], i.results)
  <2>1. DOMAIN i.lists = DOMAIN j.lists \cup {draft.kind}
        /\ i.lists[draft.kind] = out
        /\ \A l \in DOMAIN j.lists : l # draft.kind => i.lists[l] = j.lists[l]
    BY <1>1 DEF Put
  <2>2. CASE k = draft.kind
    BY <1>10, <1>12, <2>1, <2>2
  <2>3. CASE k # draft.kind
    <3>1. ItemsOf(Done(i), k) = ItemsOf(b, k)
      BY <1>12, <2>3
    <3>2. IF ItemsOf(b, k) = {} THEN k \notin DOMAIN j.lists ELSE k \in DOMAIN j.lists
      BY DEF ReadLists, b
    <3>. QED
      BY <1>11, <2>1, <2>3, <3>1, <3>2
  <2>. QED
    BY <2>2, <2>3
<1>. QED
  BY <1>13, <1>14 DEF ReadLists, Seen

LEMMA DatasetStep ==
  ASSUME TypeOK, DatasetInv, [Next]_vars
  PROVE  DatasetInv'
<1>. SUFFICES ASSUME NEW r \in Requests
              PROVE  /\ pc'[r] \in Loading => DOMAIN job'[r].results = {} /\ DOMAIN job'[r].lists = {}
                     /\ pc'[r] \in Loaded => ReadLists(commits', pc'[r], job'[r])
  BY DEF DatasetInv
<1>. DEFINE j == job[r]
            n == Len(commits)
<1>1. n \in Nat \ {0} /\ j.base \in 1..n /\ DOMAIN j.results \subseteq DOMAIN j.batch
  BY TypeFacts DEF IsJob, IsResults
<1>2. ASSUME NEW step, NEW i, Moves(r, step, i), i.base \in 1..n,
             ReadLists(commits, step, i), step \notin Loading
      PROVE  /\ pc'[r] \in Loading => DOMAIN job'[r].results = {} /\ DOMAIN job'[r].lists = {}
             /\ pc'[r] \in Loaded => ReadLists(commits', pc'[r], job'[r])
  <2>1. ReadLists(commits', step, i)
    BY <1>2, HistoryStep, ReadListsGrow
  <2>. QED
    BY <1>2, <2>1 DEF Moves
<1>3. CASE Begins(r)
  <2>1. PICK b : Moves(r, "taxonomy", [NoJob EXCEPT !.batch = b])
    BY <1>3 DEF Begins
  <2>2. /\ DOMAIN [NoJob EXCEPT !.batch = b].results = {}
        /\ DOMAIN [NoJob EXCEPT !.batch = b].lists = {}
    BY DEF NoJob, Empty
  <2>. QED
    BY <2>1, <2>2 DEF Moves, Loading, Loaded
<1>4. CASE Loads(r)
  <2>. DEFINE i == [j EXCEPT !.live = Values(Main.sources[Schema])]
  <2>1. i.lists = j.lists /\ i.results = j.results
    BY JobExcept
  <2>2. DOMAIN j.results = {} /\ DOMAIN j.lists = {}
    BY <1>4 DEF Loads, DatasetInv, Loading
  <2>3. Moves(r, "labels", i)
    BY <1>4 DEF Loads
  <2>. HIDE DEF i
  <2>. QED
    BY <2>1, <2>2, <2>3 DEF Moves, Loaded
<1>5. CASE Names(r)
  <2>1. DOMAIN j.results = {} /\ DOMAIN j.lists = {} /\ Moves(r, "items", j)
    BY <1>5 DEF Names, DatasetInv, Loading
  <2>2. DOMAIN Done(j) = {} /\ \A k : ItemsOf(Done(j), k) = {}
    BY <2>1 DEF Done, Restrict, ItemsOf
  <2>3. ReadLists(commits, "items", j)
    BY <2>1, <2>2 DEF ReadLists
  <2>. QED
    BY <1>1, <1>2, <2>1, <2>3 DEF Loading
<1>6. CASE Publishes(r)
  <2>1. ReadLists(commits, "items", j) /\ pc'[r] = "items"
    BY <1>6 DEF Publishes, DatasetInv, Loaded, Moves
  <2>2. ReadLists(commits, "items", job'[r])
    BY <1>6, <2>1, ItemRead
  <2>3. job'[r].base = j.base
    BY <1>6, JobExcept DEF Publishes, Moves
  <2>. QED
    BY <1>1, <1>2, <2>1, <2>2, <2>3 DEF Moves, Loading
<1>7. CASE Encodes(r)
  <2>. DEFINE step == IF Changes(j.batch, j.live) = {} THEN "base" ELSE "sources"
  <2>1. ReadLists(commits, "items", j) /\ Moves(r, step, j)
    BY <1>7 DEF Encodes, DatasetInv, Loaded
  <2>2. Seen(commits, "items", j) = Seen(commits, step, j)
    BY DEF Seen
  <2>3. ReadLists(commits, step, j)
    BY <2>1, <2>2, ReadListsSame
  <2>4. step \notin Loading
    BY DEF Loading
  <2>. HIDE DEF step
  <2>. QED
    BY <1>1, <1>2, <2>1, <2>3, <2>4
<1>8. CASE Sources(r)
  <2>. DEFINE step == IF j.path = SourceFiles THEN "base" ELSE "sources"
  <2>1. PICK src : Moves(r, step, [j EXCEPT !.source = src, !.path = j.path + 1])
    BY <1>8 DEF Sources
  <2>. DEFINE i == [j EXCEPT !.source = src, !.path = j.path + 1]
  <2>2. /\ i.batch = j.batch /\ i.results = j.results /\ i.lists = j.lists /\ i.base = j.base
    BY JobExcept
  <2>3. ReadLists(commits, "sources", j) /\ Seen(commits, "sources", j) = Seen(commits, step, i)
    BY <1>8 DEF Sources, DatasetInv, Loaded, Seen
  <2>4. step \notin Loading
    BY DEF Loading
  <2>5. Moves(r, step, i)
    BY <2>1
  <2>. HIDE DEF i, step
  <2>6. ReadLists(commits, step, i)
    BY <2>2, <2>3, ReadListsSame
  <2>. QED
    BY <1>1, <1>2, <2>2, <2>4, <2>5, <2>6
<1>9. CASE Starts(r)
  <2>. DEFINE i == [j EXCEPT !.base = n]
  <2>1. /\ i.batch = j.batch /\ i.results = j.results /\ i.lists = j.lists /\ i.base = n
    BY JobExcept
  <2>2. ReadLists(commits, "base", j)
    BY <1>9 DEF Starts, DatasetInv, Loaded
  <2>3. Moves(r, "branch", i)
    BY <1>9 DEF Starts
  <2>. HIDE DEF i
  <2>4. ReadLists(commits, "branch", i)
    <3>1. Seen(commits, "base", j) = Seen(commits, "branch", i)
      BY <2>1 DEF Seen
    <3>. QED
      BY <2>1, <2>2, <3>1, ReadListsSame
  <2>. QED
    BY <1>1, <1>2, <2>1, <2>3, <2>4 DEF Loading
<1>10. CASE Branches(r)
  <2>1. ReadLists(commits, "branch", j) /\ Seen(commits, "branch", j) = Seen(commits, "pull", j)
    BY <1>10 DEF Branches, DatasetInv, Loaded, Seen
  <2>2. ReadLists(commits, "pull", j)
    BY <2>1, ReadListsSame
  <2>. QED
    BY <1>1, <1>2, <1>10, <2>2 DEF Branches, Loading
<1>11. CASE Opens(r) \/ Records(r) \/ Ends(r)
  BY <1>11 DEF Opens, Records, Ends, Moves, Loading, Loaded
<1>12. CASE Rests(r)
  <2>1. CASE pc[r] \in Loaded
    BY <1>1, <1>2, <1>12, <2>1 DEF Rests, DatasetInv, Loading, Loaded
  <2>2. CASE pc[r] \notin Loaded
    BY <1>12, <2>2 DEF Rests, Moves, DatasetInv
  <2>. QED
    BY <2>1, <2>2
<1>. QED
  BY <1>3, <1>4, <1>5, <1>6, <1>7, <1>8, <1>9, <1>10, <1>11, <1>12, RequestStep

\* What PullsBuiltFromMain says of a pull request pr when main was h.
BuiltFrom(h, pr) ==
  \A k \in Kinds :
    IF ItemsOf(pr.batch, k) = {}
    THEN pr.tree.data[k] = h[pr.base].data[k]
    ELSE \E s \in 1..pr.base :
           Published(h[s].data[k], pr.batch, k, pr.tree.data[k], pr.results)

LEMMA BuiltFromIs == PullsBuiltFromMain <=> \A p \in DOMAIN prs : BuiltFrom(commits, prs[p])
BY DEF PullsBuiltFromMain, BuiltFrom, Published

LEMMA NewPullBuilt ==
  ASSUME TypeOK, LabelInv, DatasetInv, NEW r \in Requests, pc[r] = "pull"
  PROVE  BuiltFrom(commits, PullRequestOf(r))
<1>. DEFINE j == job[r]
            pr == PullRequestOf(r)
<1>1. /\ pr.base = j.base /\ pr.batch = j.batch /\ pr.results = j.results
      /\ \A k \in Kinds : pr.tree.data[k] = IF k \in DOMAIN j.lists THEN j.lists[k]
                                            ELSE commits[j.base].data[k]
  BY DEF PullRequestOf, TreeOf
<1>2. Done(j) = j.batch
  <2>1. DOMAIN j.results = DOMAIN j.batch
    BY DEF LabelInv, RequestLabels, Loaded, Processed
  <2>2. IsBatch(j.batch, nextDraft - 1)
    BY TypeFacts DEF IsJob
  <2>. QED
    BY <2>1, <2>2 DEF Done, Restrict, IsBatch
<1>3. ReadLists(commits, "pull", j)
  BY DEF DatasetInv, Loaded
<1>4. \A k \in Kinds :
        IF ItemsOf(j.batch, k) = {}
        THEN k \notin DOMAIN j.lists
        ELSE /\ k \in DOMAIN j.lists
             /\ \E s \in 1..j.base :
                  Published(commits[s].data[k], j.batch, k, j.lists[k], j.results)
  BY <1>2, <1>3 DEF ReadLists, Seen
<1>. HIDE DEF pr
<1>5. BuiltFrom(commits, pr)
  BY <1>1, <1>4 DEF BuiltFrom
<1>. QED
  BY <1>5 DEF pr

LEMMA OldPullBuilt ==
  ASSUME NEW h, NEW g, NEW pr, NEW qr, pr.base \in Nat \ {0}, SamePull(qr, pr),
         \A s \in 1..pr.base : g[s] = h[s], BuiltFrom(h, pr)
  PROVE  BuiltFrom(g, qr)
<1>1. /\ qr.base = pr.base /\ qr.batch = pr.batch /\ qr.tree = pr.tree
      /\ qr.results = pr.results
  BY DEF SamePull
<1>2. g[pr.base] = h[pr.base]
  OBVIOUS
<1>. QED
  BY <1>1, <1>2 DEF BuiltFrom

BuiltInv == LabelInv /\ DatasetInv /\ PullsBuiltFromMain

LEMMA BuiltStep ==
  ASSUME TypeOK, BuiltInv, [Next]_vars
  PROVE  BuiltInv'
<1>1. LabelInv' /\ DatasetInv'
  BY LabelStep, DatasetStep DEF BuiltInv
<1>2. ASSUME NEW p \in DOMAIN prs' PROVE BuiltFrom(commits', prs'[p])
  <2>1. ASSUME p \in DOMAIN prs, SamePull(prs'[p], prs[p])
        PROVE  BuiltFrom(commits', prs'[p])
    <3>1. BuiltFrom(commits, prs[p])
      BY <2>1, BuiltFromIs DEF BuiltInv
    <3>. QED
      BY <2>1, <3>1, PullsKept, OldPullBuilt
  <2>2. ASSUME NEW r \in Requests, pc[r] = "pull", prs'[p] = PullRequestOf(r),
               UNCHANGED commits
        PROVE  BuiltFrom(commits', prs'[p])
    BY <2>2, NewPullBuilt DEF BuiltInv
  <2>. QED
    BY <2>1, <2>2, PullsStep
<1>3. PullsBuiltFromMain'
  BY <1>2 DEF PullsBuiltFromMain, BuiltFrom, Published
<1>. QED
  BY <1>1, <1>3 DEF BuiltInv

LEMMA BuiltCorrect == Spec => [](TypeOK /\ BuiltInv)
<1>1. Init => BuiltInv
  <2>1. Init => PullsBuiltFromMain
    BY DEF Init, UpstreamInit, PullsBuiltFromMain
  <2>. QED
    BY <2>1, LabelInit, DatasetInit DEF BuiltInv
<1>. QED
  BY <1>1, InitType, TypeStep, BuiltStep, PTL DEF Spec

\* Each dataset file of a pull request is a version of main no later than its
\* base with exactly the cards of the batch added or edited, whatever happens to
\* main between the reads and whatever the batch mixes: the n-th new card of a
\* kind has the next ID plus n - 1, the last edit of a card wins, and an edit
\* without an image keeps the image.
THEOREM DatasetsAreAsExpected == Spec => []PullsBuiltFromMain
<1>1. BuiltInv => PullsBuiltFromMain
  BY DEF BuiltInv
<1>. QED
  BY <1>1, BuiltCorrect, PTL

-----------------------------------------------------------------------------
(* Audit rows.                                                             *)

\* Number n is that of a pull request of this person with these cards.
IsAbout(ps, n, who, cards) ==
  /\ n \in DOMAIN ps
  /\ ps[n].owner = who /\ ps[n].results = cards
  /\ DOMAIN cards = DOMAIN ps[n].batch

RowInv ==
  /\ \A row \in submissions : IsAbout(prs, row.number, row.owner, row.cards)
  /\ \A r \in Requests : pc[r] = "audit" => IsAbout(prs, job[r].number, Requester[r], job[r].results)

LEMMA IsAboutKept ==
  ASSUME TypeOK, [Next]_vars, NEW n, NEW who, NEW cards, IsAbout(prs, n, who, cards)
  PROVE  IsAbout(prs', n, who, cards)
BY PullsRemain DEF IsAbout, SamePull

LEMMA RowStep ==
  ASSUME TypeOK, LabelInv, RowInv, [Next]_vars
  PROVE  RowInv'
<1>1. ASSUME NEW row \in submissions' PROVE IsAbout(prs', row.number, row.owner, row.cards)
  <2>1. CASE row \in submissions
    BY <2>1, IsAboutKept DEF RowInv
  <2>2. ASSUME NEW r \in Requests, RecordSubmission(r), row \notin submissions
        PROVE  IsAbout(prs, row.number, row.owner, row.cards)
    <3>1. /\ pc[r] = "audit"
          /\ row = [number |-> job[r].number, owner |-> Requester[r], cards |-> job[r].results]
      BY <1>1, <2>2 DEF RecordSubmission
    <3>. QED
      BY <3>1 DEF RowInv
  <2>3. \/ UNCHANGED submissions
        \/ \E r \in Requests : RecordSubmission(r)
    BY DEF Next, vars, CreateDraft, DeleteDraft, ListDrafts, Proceed, LoadSchema, LoadLabels,
       PublishItem, EncodeDatasets, ReadSource, GetBaseRef, CreateRef, CreatePull, ClearDrafts,
       CallFails, Crash, Maintain
  <2>. QED
    BY <1>1, <2>1, <2>2, <2>3, IsAboutKept
<1>2. ASSUME NEW r \in Requests, pc'[r] = "audit"
      PROVE  IsAbout(prs', job'[r].number, Requester[r], job'[r].results)
  <2>1. CASE Rests(r)
    <3>1. IsAbout(prs, job[r].number, Requester[r], job[r].results)
      BY <1>2, <2>1 DEF RowInv, Rests, Moves
    <3>2. job'[r] = job[r]
      BY <2>1 DEF Rests, Moves
    <3>. QED
      BY <3>1, <3>2, IsAboutKept
  <2>2. CASE Opens(r)
    <3>. DEFINE n == Len(prs) + 1
                j == job[r]
    <3>1. n \in DOMAIN prs' /\ prs'[n] = PullRequestOf(r)
      <4>1. /\ Len(prs) \in Nat /\ DOMAIN prs' = 1..Len(prs) + 1
            /\ prs'[Len(prs) + 1] = PullRequestOf(r)
        BY <2>2, AppendSeq DEF Opens, TypeOK, UpstreamTypeOK
      <4>. QED
        BY <4>1
    <3>2. job'[r].number = n /\ job'[r].results = j.results
      <4>1. j = [batch |-> j.batch, live |-> j.live, lists |-> j.lists, results |-> j.results,
                 source |-> j.source, path |-> j.path, base |-> j.base, number |-> j.number]
        BY TypeFacts DEF IsJob
      <4>2. job'[r] = [j EXCEPT !.number = n]
        BY <2>2 DEF Opens, Moves
      <4>. HIDE DEF j, n
      <4>. QED
        BY <4>1, <4>2
    <3>3. DOMAIN j.results = DOMAIN j.batch
      BY <2>2 DEF Opens, LabelInv, RequestLabels, Loaded, Processed
    <3>4. /\ prs'[n].owner = Requester[r] /\ prs'[n].results = j.results
          /\ prs'[n].batch = j.batch
      BY <3>1 DEF PullRequestOf
    <3>. HIDE DEF n, j
    <3>. QED
      BY <3>1, <3>2, <3>3, <3>4 DEF IsAbout
  <2>3. Opens(r) \/ Rests(r)
    BY <1>2, RequestStep DEF Begins, Loads, Names, Publishes, Encodes, Sources, Starts, Branches,
       Records, Ends, Moves
  <2>. QED
    BY <2>1, <2>2, <2>3
<1>. QED
  BY <1>1, <1>2 DEF RowInv

\* An audit row names the pull request its own request opened, the submitter of
\* it and the number of every card in it, however many pull requests were opened
\* between that call and the row, and whatever happened to it since.
THEOREM RowsAreOfTheirPulls == Spec => []RowsMatchPulls
<1>1. Init => RowInv
  BY DEF Init, RowInv
<1>2. RowInv => RowsMatchPulls
  BY DEF RowInv, IsAbout, RowsMatchPulls
<1>. QED
  BY <1>1, <1>2, RowStep, LabelsCorrect, PTL DEF Spec

=============================================================================
