# Verification of pplale-cms

pplale-cms lets members of a Discord community propose cards for the game
PPLALE-web. A member queues drafts; submitting publishes a batch of them as one
pull request against the PPLALE-web repository, which people review and merge.
PPLALE-web's `main` is the only source of truth for card data; the CMS keeps the
queue, the allow list, the sessions and an audit trail.

This directory holds TLA+ modules of that program, the configurations that
model-check them with TLC, and proofs checked by TLAPS. Paths below are relative
to `src/`.

## 1. The system

| Component | Where | State it keeps | Operations |
|---|---|---|---|
| Draft queue | `internal/httpapi/handlers.go`, `internal/store` | `drafts` table | queue, list, show, remove, submit, clear |
| Batch publisher | `internal/publish` | none; local variables of one call | `PublishBatch` |
| Card rules | `internal/cards` | none | `NextID`, `ValidateWithTaxonomy`, `ValidateDataset…`, `LoadTaxonomy`, `PatchTaxonomySources`, JSON |
| GitHub client | `internal/ghapp` (`client.go`, `api.go`) | none | `FileContent`, `CreatePullRequest` |
| Installation token | `internal/ghapp/token.go` | cached token and expiry, under a mutex | `Token` |
| PPLALE-web (external) | used by `client.go` and `webhook.go` | commits of `main`, branches, pull requests | merge, close, delete a branch |
| Allow list | `internal/store`, `handlers.go:700-757` | `users` table | log-in check, upsert, delete, list |
| Sessions | `internal/auth/session.go` | `sessions` table, cookies | issue, check, revoke |
| Discord login | `internal/auth/discord.go`, `state.go` | signed cookie | start, callback |
| Audit trail | `handlers.go:644-657`, `webhook.go` | `submissions` table | record, update from a webhook |
| Rate limiter | `internal/httpapi/middleware.go:83-124` | attempts of the last hour, under a mutex | `Allow` |
| Start-up | `cmd/server/main.go` | none | bootstrap administrator, serve, stop |
| Image conversion, configuration, web front end, charts | | none that others depend on | |

**How they interact.** A card begins as a form: the handler reads the
classifications from `main`, validates the card as if it were published now, and
stores a row of the `drafts` table. A request to `POST /api/drafts/submit` is
served by one goroutine. It passes the session and role check (two store calls)
and the rate limiter, reads the caller's drafts, and calls `PublishBatch`. That
reads the classifications and then each dataset it needs from `main`, allocates
IDs, validates, reads the classification sources when new classifications are to
be added, and calls `CreatePullRequest`: read the base ref, create blobs, a tree
and a commit, then the branch, then the pull request. Each of these dozen calls
asks for the installation token first, which all requests share. Back in the
handler the audit row is written and the drafts are deleted. Nothing is locked
across these calls and no transaction spans two of them. Meanwhile other requests
do the same, drafts come and go, reviewers merge and close pull requests, and the
server may be stopped. GitHub reports closed pull requests through a webhook.

**What is hard here**, and which properties answer it (the full list, line by
line, is in `PROJECT.json` under `hazards`):

* *Reads that are stale when used.* Datasets, each of the classification sources
  and the base ref are read by calls of their own. `PullsBuiltFromMain`, `PullsDefineWhatTheyUse`,
  `MergesTouchTheirCards`, `ClassifiedUnlessReverted` and
  `SourcesAgreeUnlessReverted` say what nevertheless holds; `IDsFreshInBase` and
  `MainClassified` say what does not.
* *Pull requests that wait.* Days may pass, and others be merged, between the
  read of a dataset and the merge of what was made of it: `MergesLoseNothing`,
  `MergesAreSerial`, `MainIsProposed`.
* *Items that share a read.* The cards of a batch are numbered and edited on one
  copy of the dataset: `PullsBuiltFromMain`, `MergesLoseNothing`.
* *The same rules at two times.* A card is validated when it is queued and when
  it is published, each time against files read one after the other, under
  different IDs and images. `RefusalsExplained`, `RejectionsNeeded` and
  `TornReadHarmless` say that the two agree, `ArrivesAsValidated` and
  `OthersKept` that nothing is lost on the way.
* *Requests that overlap.* Two submissions of the same person, two people who
  add the same card number or the same classification, a draft removed while it
  is submitted: `NoDraftLost`, `OneSubmitter`, `OneOpenPullPerCard`,
  `OneLabelPerValue`, `SinglePull`.
* *Calls that fail half-way, answers that are lost, a server that stops.* A
  branch without a pull request, a pull request without a row, a delivered draft
  still queued: `NoDraftLost`, `DeliveryImplemented`, `RowsMatchPulls`.
* *Time.* A token that is valid when it is handed out and used later, calls that
  queue behind its renewal, a window that slides: `CallsCarryLiveTokens`,
  `RenewedOnce`, `RequestsEnd`, `Paced`, `RefusedAtLimit`, `AccessImplemented`.
* *Decisions that overlap with log-ins and starts.* An entry is read, and later
  written back; two administrators remove each other: `ListFollowsDecisions`,
  `SessionsOfListedPeople`, `OnlyAdministratorsManage`, `AdministratorsRemain`.
* *Events that come late, twice, out of order or not at all*: `RowsTellHistory`,
  `TrailFollowsReview`.

## 2. The modules

| Module | What it is |
|---|---|
| `CardData` | Cards, datasets, classifications, drafts, and what publishing does with them, as operators |
| `Upstream` | PPLALE-web: `main`, branches, pull requests, three-way merge (external) |
| `Submit` | The draft queue, `handleSubmitDrafts`, `PublishBatch` and the GitHub client, composed with `Upstream` |
| `QueueDelivery` | What the draft queue promises, abstractly; `Submit` implements it |
| `CardRules` | The rules of `internal/cards` for one card, a dataset and the classifications, field by field |
| `DraftForm` | One card from the form to the dataset file: `handleCreateDraft` and `PublishBatch`, while `main` changes |
| `Clock`, `RateLimiter`, `TokenSource` | The clock; `Allow`; the token, its lock, and the calls that use it |
| `CallPath` | Requests that pass the limiter and make calls: the two composed |
| `GitHubAccess` | What limiter and token source promise together, abstractly; `CallPath` implements it |
| `AllowList` | The users and sessions tables, log-in, log-out, administration, start-up |
| `AuditTrail` | The status of the audit rows: the webhook handler, GitHub's events, and the pull requests they are about |
| `MCSubmit`, `MCDraftForm`, `MCCallPath`, `MCAllowList`, `MCAuditTrail` | Instances for TLC |
| `CommonFacts` | Lemmas about minima, maxima and appending that several proofs cite |
| `SubmitProofs`, `PullProofs`, `MainProofs`, `DraftFormProofs`, `CallPathProofs`, `AllowListProofs`, `AuditTrailProofs` | Theorems |

`Submit` EXTENDS `Upstream` EXTENDS `CardData`; `Submit` has an instance of
`QueueDelivery` under the refinement mapping `queued <- DOMAIN drafts`,
`delivered <- Delivered`. `CallPath` EXTENDS `RateLimiter` and `TokenSource`,
which share the clock, and has an instance of `GitHubAccess` under `attempts <-
admitted`, `asking <- pc`, `token <- cached`, `calls <- UnderWay`. The other
modules stand alone, where the code gives them no shared state:

* `DraftForm` follows one card with every field and rule through what `Submit`
  sees as one draft, with the two files of `LoadTaxonomy` as two reads; `Submit`
  follows many drafts through everything that can come between them.
* `AllowList`: its tables and those of `Submit` never meet, apart from the role
  check in front of a submission.
* `AuditTrail` keeps of a submission only its last steps, from the pull request
  to the row, and of a pull request only its states, so that the order of events
  can be followed in full.
* `CallPath` keeps of a request only the calls it makes and when.

### CardData and Upstream

A dataset file is a JSON array of cards with distinct IDs such as `y_7`; here it
is a function from the number to a card. What a card says is abstracted to the
draft that wrote it last, but its classification and its image are kept, because
they have to agree with other files. Fruits and sweet types go through the same
code, so one kind of classification stands for both. A commit of `main` is a
record of datasets, source files and images. Each source file has its own entries
for the classifications: the schema says which values are valid, the locale has
their labels, the types and the lists of the pages repeat the values, which the
model writes as the label `KeyLabel`. `commits` is the history of `main`, and a
commit is named by its position. `Merge` is git's three-way merge: for a dataset,
cards changed on one side only are taken, a card changed differently on both
sides conflicts, and so do two different additions at the end of the array; a
source file conflicts when both sides changed it differently, one file
independently of the others.

### Submit

`pc[r]` is how far submit request `r` is and `job[r]` holds its local variables.
The actions, in the order of the code:

| Action | Code |
|---|---|
| `CreateDraft`, `DeleteDraft` | `handleCreateDraft`, `handleDeleteDraft` |
| `ListDrafts` | the queue is read and filtered by the named IDs (`handlers.go:587-624`) |
| `LoadSchema`, `LoadLabels` | the two reads of `LoadTaxonomy`, then the batch's own classifications are added or clash (`taxonomy.go:158-206`, `publish.go:117-146`) |
| `PublishItem` | one round of the item loop: read or share the dataset, find or allocate the ID, image, validation, edit (`publish.go:155-223`) |
| `EncodeDatasets` | validation of the whole datasets; choose whether sources are to be patched |
| `ReadSource` | the next classification source is read, from `main` as it is by then (`publish.go:250-256`) |
| `GetBaseRef`, `CreateRef`, `CreatePull` | `CreatePullRequest` (`client.go:97-187`) |
| `RecordSubmission`, `ClearDrafts` | audit row, clean-up; either may fail and is only logged |
| `CallFails` | a remote call fails without effect |
| `Crash` | every request under way is gone; the tables stay |
| `Maintain` | merge, close, delete a branch |

`CreateRef` and `CreatePull` may take effect and still end the request: the
answer was lost. A draft ID is its number in a sequence; `removed` is an
auxiliary variable, the drafts a person took off the queue.

What is abstracted:

* Blobs, trees and commits that nothing refers to are visible to nobody, so
  creating them belongs to `CreateRef`.
* The code reads three or six classification sources, in this order: types,
  schema, locale, lists of the pages. `SourceFiles`, `Schema` and `Locale` say how
  many there are and which is which; the proofs hold for every choice. The form's
  two reads (`handleCreateDraft`) are one commit in `CreateDraft`: they are two
  steps in `DraftForm`, where `TornReadHarmless` says that the form's decision does
  not depend on the labels.
* A draft removed in `DeleteDraft` was looked up one call earlier; the look-up
  decides only who may remove it.
* The rules of a single card (text, numbers, role, version, image path) are in
  `CardRules`; `Submit` keeps the two that depend on other files.
* Reviewers do not delete a branch between the two calls that push it and open
  its pull request, do not reopen a pull request, and do not merge one with
  conflicts by hand.
* The allow-list check and the rate limiter can only refuse a submission before
  it begins, and beginning is optional.

### CardRules and DraftForm

`CardRules` is a translation of `validate.go` and `taxonomy.go` field by field: a
name is given or blank, `least` is the least of cost, HP and attack, an optional
field is a set of at most one value, an ID is a prefix and a number, an image its
directory, its format and a name. `Broken` is the disjunction of the reasons for
which `ValidateWithTaxonomy` refuses a card, `BrokenDataset` that of the dataset,
`WithDefaults` what `ApplyDatasetDefaults` fills in, `Decodable` that an unknown
field stops the program.

`DraftForm` keeps the form (`payload`), the row (`row`), the history of `main` as
far as the card reads it, which commit each of the five files was read from (`at`),
and what was written.

| Action | Code |
|---|---|
| `FormReadsSchema`, `FormReadsNames` | the two reads of `LoadTaxonomy`, then the rest of `handleCreateDraft` with `buildTaxonomyChanges`, `buildDraftCard`, `placeholderIDForValidation` (`handlers.go:226-447`) |
| `PublishReadsSchema`, `PublishReadsNames` | the same two reads in `PublishBatch`, and whether the batch's options clash |
| `PublishReadsList` | the dataset is read, decoded, edited at the card's place, validated and encoded |
| `Fails` | a call fails or the server stops: no draft, or one that is still queued |
| `MainChanges` | people define or take away a classification, add, remove or repeat a card, put a PNG or a field the program does not know into a card (external) |

A refused draft stays in the queue and may be tried again, which
`PublishReadsSchema` does from `"refused"`. Batches, IDs taken by other drafts of
the batch, branches and pull requests are left to `Submit`.

### RateLimiter, TokenSource and CallPath

`hits[u]` is the limiter's list for a person and `admitted[u]` the auxiliary list
of all attempts let in. `Admit` and `Refuse` are the two ways through `Allow`,
which holds its lock from end to end. (The comment on `rateLimiter` calls it a
fixed window counter; the code, and the model, forget each attempt a window after
it was made.)

`cached` is the token's expiry, `mutex` who holds the lock while GitHub mints a
token, `step[r]` how far the call of a request is.

| Action | Code |
|---|---|
| `BeginCall` | `Client.call` asks for a token; the request queues for the lock |
| `UseCached`, `Renew` | with the lock, the look at the cache (`token.go:38-45`) |
| `Minted`, `MintFails` | the answer of GitHub, or none; the lock is given back either way (`token.go:47-65`) |
| `CallEnds` | the call proper, answered, failed or given up at its deadline (`api.go:79`) |
| `Submit`, `Read`, `AfterCall` | a submission passes `Allow` and makes `Calls` calls, other requests make one; the first failure ends either |
| `Tick` | the clock goes on, but past no deadline of a call |
| `Restart` | limiter, token and requests are lost |

`GitHubAccess` has none of the lock, the pruned list and the wait for a new token:
`Send` picks the token in use or, when that is about to expire, one minted within
the last `CallTimeout`, and its guard says that the token outlives the call.
`BeginCall`, `Renew` and a failed wait are stutters of it or `GiveUp`; `UseCached`
and `Minted` are `Send`.

GitHub's clock differs from the server's by `Skew`, and a token's expiry is a
time of GitHub's clock. `TokenAssumption` asks for `CallTimeout + Skew <=
RefreshMargin`: with 30 seconds and two minutes, clocks that agree to within 90
seconds. Minting may take up to `CallTimeout` as well.

### AllowList

`users` and `sessions` are the tables, `cookies` the browsers' cookies, `pc` and
`job` the requests, `boot` and `snapshot` a starting instance. A session is named
by the log-in that issued it. Log-in is `BeginLogin`, `ReadEntry`, `SyncName`,
`IssueSession` (`allowLogin`, `Sessions.Issue`); every other request passes
`FindSession` and `CheckRole` (`authenticated`, `requireRole`) and goes on with
`Logout`, or `ReadTarget` and `UpsertUser`, or `DeleteUser` and `RevokeAllFor`.
Every write may lose its answer; `StoreFails` is a call without effect. `Expire`
lets a session's time run out at any moment. `BootRead`, `BootCreate`,
`BootRename` and `BootFails` are a new instance that looks after the bootstrap
administrator while the old one still serves (the chart has one replica and the
default rolling update). Five auxiliary variables say what was decided and when:
`decided` and `overlapped` (decisions, and whether a stale entry was about),
`unrevoked` and `late` (removals), `since` (roles held during a request).

Request parsing, the form of a Discord ID, CSRF tokens and the login state are
left out: they refuse a request before any of these steps.

### AuditTrail

`history[p]` holds the states pull request `p` went through, `deliveries` the
events in flight (an event is the place in the history it tells of, since its
body is a snapshot of that moment), `recording` the pull requests whose submit
request has yet to write its row, `submissions` the rows.

| Action | Code |
|---|---|
| `OpenPull` | the last call of `CreatePullRequest` (`client.go:174-187`) |
| `RecordSubmission` | the audit row, or a failure or a stop instead (`handlers.go:644-657`) |
| `Handle` | `handleGitHubWebhook`: `statusFor`, `UpdateSubmissionStatusByPR`, and the same answer whether or not it worked |
| `OpenByHand`, `Review` | people on GitHub open, close, reopen and merge (external) |
| `Lose`, `Redeliver` | an event fails to arrive (GitHub does not retry); somebody asks for it again (external) |

Events of other kinds and bodies that cannot be read are refused or ignored
before any state is touched. Two auxiliary variables define what a row could
know: `heard[p]`, how many events of `p` were handled in order, and `faulty`, the
pull requests one of whose events was handled out of turn or reached no row.

## 3. What the runs check

| Run | Module and configuration | Instance | Checks |
|---|---|---|---|
| `submit_pair` | `MCSubmit`, `SubmitPair.cfg` | 2 people with 1 request each, 2 drafts, 2 datasets with a card each, 2 card numbers to edit, symmetric | `TypeOK`, `NoDraftLost`, `OneSubmitter`, `PullsBuiltFromMain`, `RowsMatchPulls`, `MainHasImages`, `MainIsProposed`, `OneOpenPullPerCard`, `MergesTouchTheirCards`, `MergesLoseNothing`, `MergesAreSerial` |
| `submit_classify` | `MCSubmit`, `SubmitClassify.cfg` | 2 people, 2 classifications of which 1 is new, 2 labels, 3 source files | `OneLabelPerValue`, `PullsDefineWhatTheyUse` |
| `submit_revert` | `MCSubmit`, `SubmitRevert.cfg` | 2 people, 2 datasets, 3 classifications of which 2 are new, 3 source files, symmetric | `ClassifiedUnlessReverted`, `SourcesAgreeUnlessReverted` |
| `submit_queue` | `MCSubmit`, `SubmitQueue.cfg` | 1 person with 2 requests, 2 drafts | `DeliveryImplemented` |
| `submit_stale_base` | `MCSubmit`, `SubmitStaleBase.cfg` | violation | `IDsFreshInBase` |
| `submit_stale_sources` | `MCSubmit`, `SubmitStaleSources.cfg` | violation | `MainClassified` |
| `submit_twice` | `MCSubmit`, `SubmitTwice.cfg` | violation | `SinglePull` |
| `draft_form` | `MCDraftForm`, `DraftForm.cfg` | every form within two deviations of a proper one, for each of the 4 datasets; `main` changes twice | `TypeOK`, `ArrivesAsValidated`, `OthersKept`, `RefusalsExplained`, `RejectionsNeeded`, `TornReadHarmless` |
| `call_path` | `MCCallPath`, `CallPath.cfg` | 1 person in 2 browsers, limit 2 per 2 ticks, tokens of 3 ticks, clock up to 4, fairness | `TypeOK`, `Paced`, `RefusedAtLimit`, `CallsCarryLiveTokens`, `RenewedOnce`, `AccessImplemented`, `RequestsEnd` |
| `allow_list` | `MCAllowList`, `AllowList.cfg` | 2 administrators, 3 requests of any kind, symmetric | `TypeOK`, `ListFollowsDecisions`, `SessionsOfListedPeople`, `OnlyAdministratorsManage`, `AdministratorsRemain` |
| `allow_list_removal` | `MCAllowList`, `AllowListRemoval.cfg` | violation | `RemovalSticks` |
| `audit_trail` | `MCAuditTrail`, `AuditTrail.cfg` | 2 pull requests, up to 4 states each, symmetric | `TypeOK`, `OneRowPerPull`, `RowsTellHistory`, `TrailFollowsReview` |

**The properties in words.**

* `NoDraftLost`: a draft leaves the queue only because a person removed it or
  because a pull request carries it, whatever fails or stops.
* `DeliveryImplemented`: seen from the person who filled it, every step of the
  program is one of the queue's: accept, remove, deliver, clear what was
  delivered.
* `OneSubmitter`: a pull request holds drafts of the person it is attributed to.
* `PullsBuiltFromMain`: each dataset file of a pull request is a version of main
  no newer than its base with exactly the batch applied, stated in closed form:
  the `n`-th new card of a kind gets the next ID plus `n - 1`, the last edit of
  a card wins, and an edit without an image keeps the image.
* `MergesTouchTheirCards`: merging a pull request changes no card of `main` but
  those it names. The one exception is the race of `submit_stale_base`, a
  dataset read before the commit the branch starts from. That an edit overwrites
  a younger edit of the same card follows from writing a whole card, and
  reviewers see it; this property says that it stops there.
* `MergesLoseNothing`: a merge takes back or replaces no card that no draft of the
  batch edits. A number given to two new cards is a conflict, or the same card.
* `MergesAreSerial`: merging a pull request that was built in order from its base
  gives the dataset that publishing its batch on `main` at that moment would
  give, or leaves `main` as it is. `InOrder` names the conditions: the dataset was
  read from the base, the base had none of these drafts, and `main` has lost no
  card since (the merge of a pull request built out of order can take some back).
  Two requests of two people do not reach the second outcome, which is that of
  drafts an earlier pull request brought already (`submit_twice`), nor a `main`
  that lost a card: the run shows the first outcome and the proof covers them.
* `MainIsProposed`: every card on `main` is one of the first tree or the draft that
  a merged pull request announced under that number, and so is its image.
* `RowsMatchPulls`: an audit row names the pull request its request opened, the
  submitter, and the number of every card, whatever else is opened meanwhile.
* `MainHasImages`: over all merges, every card of main has its image.
* `OneOpenPullPerCard`: the branch named after the card keeps a second pull
  request for the same card number from being opened while one is open.
* `OneLabelPerValue`: `main` and every pull request show each classification under
  one label, although schema, labels and sources may be of different commits.
* `PullsDefineWhatTheyUse`: a pull request brings to every source file the
  classifications its cards need and the schema of some version of `main` lacked.
  Each file has all that some version of `main` has in it; the files need not be
  of one version, but a later one is of a version at least as new, and none is
  newer than the base.
* `ClassifiedUnlessReverted`: the race of `submit_stale_sources` is the only way in
  which `main` gets a card whose classification it does not define.
* `SourcesAgreeUnlessReverted`: nor do the types, the schema, the labels and the
  lists of the pages on `main` come to disagree in any other way, although a merge
  between two of the reads puts files of different versions into one pull request.
  In `submit_revert` two datasets let two pull requests with new classifications
  both merge cleanly, and two new values let one of them take the other's back.
* `ArrivesAsValidated`: what is written is what the person put into the form,
  with the optional fields of the dataset, and a new card's ID is in use nowhere
  in the file.
* `OthersKept`: the other cards of the file are written back as they were read.
* `RefusalsExplained`: a draft that was accepted is refused later only for what
  happened to `main`.
* `RejectionsNeeded`: the form rejects no card that could have been published,
  apart from classifications and images that the publisher does not look at.
* `TornReadHarmless`: the form decides as if schema and names had been read from
  one commit, for the names are shown and not checked.
* `Paced`: attempt `n + Limit` of a person comes a whole window after attempt
  `n`. `RefusedAtLimit`: and a refusal means that `Limit` attempts fell into the
  last window.
* `CallsCarryLiveTokens`: from the moment it is sent to its deadline, no call
  carries a token that has expired on GitHub's clock.
* `RenewedOnce`: those who waited while a token was renewed use that token.
* `AccessImplemented`: with its lock, its pruned list and the time that minting
  takes, the program does nothing that `GitHubAccess` could not do at once.
* `RequestsEnd`: a request that was let in ends; nobody waits for the lock
  forever.
* `ListFollowsDecisions`: the role and giver of an entry, or its absence, are
  the last decision on that person, unless somebody held a stale copy of the
  entry while it was decided. A start that finds no bootstrap administrator
  decides too when it creates one, even over an entry written since it looked.
* `SessionsOfListedPeople`: sessions of people off the list are only those that
  could not be dropped, and those of log-ins that read the list before the
  removal.
* `OnlyAdministratorsManage`: a change of the list is made for somebody who was
  an administrator at a moment after the session check.
* `AdministratorsRemain`: the last administrator is lost only by giving up the
  role themselves, by the write of somebody who lost the role after it was
  checked, or by an entry written back out of date. The third way takes four
  requests, more than the run has; the proof covers it.
* `OneRowPerPull`: a pull request opened by the CMS has at most one row, and one
  opened by hand none.
* `RowsTellHistory`: whatever happens to the events, a row says merged or closed
  only of a pull request that was, at some time.
* `TrailFollowsReview`: when the events of a pull request came in order, none
  missing and none before the row, the row says how the last of them left it; a
  reopened pull request keeps its last outcome.

**Bounds, and why they suffice.**

* *Submit.* Each request is made once and `MaxDrafts` bounds the drafts.
  Interference takes two requests: one that reads and one that acts before the
  reader writes. Two drafts give every batch of a pair: together or apart, in one
  dataset or two, a card and its edit, one of them new. Longer batches are a
  matter of the item loop alone, and `DatasetsAreAsExpected` (section 4) holds for
  all. The runs about classifications have three source files, one before the
  schema and one after it, which is the locale, so that a merge can fall between
  any two reads and on either side of both special files; the others have two.
  `submit_pair` and `submit_revert` are symmetric in their two people together
  with their requests and in their two datasets: the first tree gives the
  datasets equal cards, `Min` and `NextID` look only at numbers, and the
  properties name no person or dataset.
* *DraftForm.* Two deviations are a mistake and another one that hides it or
  hides behind it; the values include an ID with the wrong prefix, one that is
  not a number, a name that becomes no key and two names that become the same
  key. `MaxChanges = 2` lets `main` change between any two of the five reads and
  twice between two of them, for example a classification taken away and defined
  again under another name.
* *CallPath.* The clock runs past the end of a window and past the renewal of a
  token; `RefreshMargin = CallTimeout + Skew` is the tightest the assumption
  allows, so that a tick less breaks `CallsCarryLiveTokens`; with two calls, a
  submission may need a second token.
* *AllowList.* A log-in, a removal and one more request exercise every overlap;
  two administrators can remove or demote each other; an entry left by an older
  version makes `BootRename` possible. Requests are alike, hence the symmetry.
* *AuditTrail.* Four states are the shortest history in which a pull request is
  closed, reopened and merged, so that every pair of events that matter can be
  exchanged; the second pull request is there for updates that reach the wrong
  row. `AuditTrail.cfg` keeps deadlock checking on.

Every behaviour of `Submit`, `DraftForm` and `AllowList` is finite because
requests are, and the clock of `CallPath` is bounded, so their configurations
switch deadlock checking off: when all requests are over and nobody does anything
more, the model stops, as the system may.

**Fairness.** Only `call_path` assumes any, for `RequestsEnd`: strong fairness of
`Call(r)`, the calls of a request. Each call on GitHub has 30 seconds
(`api.go:35`) and a failing call is itself a step. The one other wait is for the
lock of the token: whoever holds it gives it back by the same deadline, and
`sync.Mutex` hands itself to a goroutine that has waited for a millisecond, so
nobody who waits is passed over forever. Calls on Postgres have no deadline, and
nothing here relies on their being answered. Nothing is assumed of people or of
the clock: no draft need be created, submitted or merged.

**Mutants.** Each property of a passing run is paired with a change of the code
that it notices, written next to the original as an operator with a "(Mutant: …)"
comment and named in `PROJECT.json`: the queue not filtered by submitter, the whole
queue cleared instead of the batch, every item reading the dataset anew, the tree
made without its base, a token used to its end, a lock kept after a failure, an
attempt forgotten a moment too early, a version not taken over from the row,
unknown fields left out, sessions dropped for the wrong person, and so on.

### Where the code and its documentation disagree

1. `submit_stale_base`: the dataset is read before the base ref. A merge in
   between gives a pull request whose base already uses "its" ID
   (`publish.go:105-107`, `publish.go:162`, `client.go:111-114`).
2. `submit_stale_sources`: the classification sources are read before the base ref
   too, one by one. The merge of another new classification in between is reverted
   by a pull request that merges cleanly, and main keeps a card whose classification it no
   longer defines (`taxonomy_patch.go:9-11`, `publish.go:251`).
3. `submit_twice`: two overlapping submissions, or a retry after a lost answer,
   publish the same drafts in two pull requests (`handlers.go:570-571`, `:587`,
   `:663`).
4. `allow_list_removal`: a log-in that updates the display name writes back an
   entry that was removed meanwhile (`handlers.go:750`, `:90`, `:107`).

## 4. What is proved

For every value of the constants - any number of people, requests, drafts,
datasets, classifications, forms, changes of `main`, calls and ticks:

| Theorem | Module | States |
|---|---|---|
| `NextIDIsFresh` | `SubmitProofs` | the allocated ID is a natural number above every ID of the dataset |
| `TypeCorrect` | `SubmitProofs` | `Spec => []TypeOK` (Submit) |
| `NothingLost` | `SubmitProofs` | `Spec => []NoDraftLost` |
| `SubmittersSeparate` | `SubmitProofs` | `Spec => []OneSubmitter` |
| `ImplementsDelivery` | `SubmitProofs` | `Spec => DeliveryImplemented` |
| `ClassificationsTravel` | `PullProofs` | `Spec => []PullsDefineWhatTheyUse` |
| `LabelsAreUnique` | `PullProofs` | `Spec => []OneLabelPerValue` |
| `CardsAreProposedOnce` | `PullProofs` | `Spec => []OneOpenPullPerCard` |
| `DatasetsAreAsExpected` | `PullProofs` | `Spec => []PullsBuiltFromMain` |
| `RowsAreOfTheirPulls` | `PullProofs` | `Spec => []RowsMatchPulls` |
| `MergesAreLocal` | `MainProofs` | `Spec => MergesTouchTheirCards` |
| `MergesKeepCards` | `MainProofs` | `Spec => MergesLoseNothing` |
| `MergesAreAsIfSerial` | `MainProofs` | `Spec => MergesAreSerial` |
| `ImagesTravel` | `MainProofs` | `Spec => []MainHasImages` |
| `CardsComeFromPulls` | `MainProofs` | `Spec => []MainIsProposed` |
| `CardsStayClassified` | `MainProofs` | `Spec => []ClassifiedUnlessReverted` |
| `SourcesStayTogether` | `MainProofs` | `Spec => []SourcesAgreeUnlessReverted` |
| `FormTypeCorrect` | `DraftFormProofs` | `Spec => []TypeOK` (DraftForm) |
| `FormsArrive` | `DraftFormProofs` | `Spec => []ArrivesAsValidated` |
| `OthersAreKept` | `DraftFormProofs` | `Spec => []OthersKept` |
| `RefusalsAreExplained` | `DraftFormProofs` | `Spec => []RefusalsExplained` |
| `RejectionsAreNeeded` | `DraftFormProofs` | `Spec => []RejectionsNeeded` |
| `TornReadsHarmless` | `DraftFormProofs` | `Spec => []TornReadHarmless` |
| `TypeCorrect` | `CallPathProofs` | `Spec => []TypeOK` (CallPath) |
| `AlwaysPaced` | `CallPathProofs` | `Spec => []Paced` |
| `RefusalsEarned` | `CallPathProofs` | `Spec => RefusedAtLimit` |
| `TokensLive` | `CallPathProofs` | `Spec => []CallsCarryLiveTokens` |
| `RenewedOnceEach` | `CallPathProofs` | `Spec => []RenewedOnce` |
| `ImplementsAccess` | `CallPathProofs` | `Spec => AccessImplemented` |
| `ListTypeCorrect` | `AllowListProofs` | `Spec => []TypeOK` (AllowList) |
| `ListFollows` | `AllowListProofs` | `Spec => []ListFollowsDecisions` |
| `SessionsAreListed` | `AllowListProofs` | `Spec => []SessionsOfListedPeople` |
| `AdministratorsManage` | `AllowListProofs` | `Spec => []OnlyAdministratorsManage` |
| `SomebodyAdministers` | `AllowListProofs` | `Spec => AdministratorsRemain` |
| `TrailTypeCorrect` | `AuditTrailProofs` | `Spec => []TypeOK` (AuditTrail) |
| `OneRow` | `AuditTrailProofs` | `Spec => []OneRowPerPull` |
| `RowsAreTrue` | `AuditTrailProofs` | `Spec => []RowsTellHistory` |
| `TrailIsFollowed` | `AuditTrailProofs` | `Spec => []TrailFollowsReview` |

**Assumptions.** They are those the modules state, and TLC evaluates them in
every run:

* `CardDataAssumption`: finitely many datasets, natural card numbers; the schema and
  the locale are among the source files.
* `FirstTreeAssumption`: main starts as a well-typed commit whose cards have
  their classification and their image, whose source files define the same values,
  each once (a list of keys, or a map from key to label).
* `SubmitAssumption`, `AuditAssumption`; `AllowListAssumption` (the tables start
  well-typed, and sessions of an earlier life belong to listed people).
* `CardRulesAssumption` and `DraftFormAssumption`: forms and the first `main` are
  well-typed, and an optional field of a form has at most one value.
* `LimiterAssumption`, `TokenAssumption`, `CallPathAssumption`: positive limit and
  window, and `CallTimeout + Skew <= RefreshMargin`, without which
  `CallsCarryLiveTokens` fails.

**Submit, types and delivery.** `TypeOK` is inductive as it stands: it says also
that a request points to a commit and a pull request that exist, that results
belong to drafts of the batch, and that a request which has not begun or is over
has no local variables. There is one lemma per action, and lemmas that publishing
an item and patching classifications keep data well-typed. `NoDraftLost` is not
inductive: clearing the queue is harmless only because a request that reached the
clean-up opened a pull request for its batch. `DeliveryInv` adds that (past
`CreatePull` the batch is contained in `Delivered`), that a batch contains only
drafts of its requester, and that `nextDraft <= MaxDrafts + 1`. From it follow the
three theorems; for the refinement, each action is shown to be `Accept`, `Remove`,
`Deliver`, `Clear` or a stutter of `QueueDelivery`.

**Submit, pull requests.** `PullProofs` first says once what a step does to one
request (`RequestStep`) and to GitHub (`UpstreamStep`, `HistoryStep`, `PullsStep`:
main only grows, and a pull request keeps all but its state). A pull request is
made from the local variables of its request, so each invariant says of the
variables what the property says of the pull request:

* `LabelInv`: what a request read of the classifications, schema and each source
  file, is what main said at moments in the order of the reads, and no later than
  its base commit once it has one.
* `BranchInv`: open pull requests, and requests between pushing the branch and
  opening one, have branches of their own, and a single card's is named after it.
* `DatasetInv`: the drafts processed so far are the first of the batch, and each
  dataset is what they make of one version of main in closed form (`Published`).
  The step is `ItemPublished`: adding one later draft to the batch adds one card
  to `Expected`. It rests on `NextIDExpected`: the next ID of the result is the
  next ID of the list plus the number of new cards, whatever gaps there are and
  even when a later item edits a card that an earlier one added.
* `RowInv`: a request between opening its pull request and writing its row holds
  the number of that pull request, although others may be opened meanwhile.

**Submit, what becomes of main.** `MainProofs` builds on these. A new commit of
`main` is the merge of one pull request (`NewCommit`), so each theorem is about
the three-way merge of a base, `main` and a tree that the closed form describes.

* `MergesTouchTheirCards` follows from the closed form for two versions of main
  that give the same file: they have the same next ID, so that the cards named by
  the pull request are the cards it changed.
* `MergesLoseNothing`: what a batch changes it edits or adds (`ExpectedTouches`),
  what it adds has an ID its base does not (`ExpectedAdds`), and when `main` has
  that ID too, both sides appended, and git either finds them equal or stops
  (`BothAdded`).
* `MergesAreSerial`: if the batch adds a card and `main` got one meanwhile, both
  sides appended and `main` stays as it is. Otherwise the batch gives the numbers
  on `main` that it gave on its base (`SameNumbers`), and each card of the merge
  is the one that publishing it now would write (`MergedCard`): an edit without
  an image keeps the image of the base, which `main` either still has or changed
  in the same way.
* `ImageInv`: the images of main only grow, a pull request has those of its base
  and its own, and adds no card without one. `ExpectedHasImages` shows that an
  edit without an image finds one, on main or from a draft before it.
* `MainIsProposed`: a card of a pull request is one that its base or an older
  commit had, or an item of its batch (`PullCards`), and a card of a merge is one
  of either side (`MergedCards`); with main itself as the induction hypothesis,
  what was once announced stays announced (`ProposedKept`).
* `ClassifiedUnlessReverted` and `SourcesAgreeUnlessReverted`: `ClassInv` says that
  entries of the source files of `main` are never taken away, that the files define
  the same values, and that every card has its classification. It is inductive
  only under `NothingReverted`, that every merged pull request has in each file at
  least what its base had, so what is proved inductive is the implication.
  `PullClassified` finds the classification of each card in the tree of the pull
  request or on the base, and `PullAgrees` that the files of the tree define the
  same values, both using `PullsDefineWhatTheyUse`; `MergedSources` says that a
  merge without conflicts then has, in each file, what either side has.

**DraftForm.** `FormInv` says what was read from where (`ReadInv`) and what
followed: a row is `RowOf` an acceptable form, a rejected form was not acceptable
(`AcceptInv`), a refusal is a failed check on the files that were read
(`RefusedInv`), and what was written is the list that was read with the card at
its place (`WrittenInv`). The rest is lemmas on the operators: a card accepted
under a stand-in ID and image is broken at publishing only for its
classifications or the image it keeps.

**CallPath.** The inductive invariant has a part for each component:
`LimiterInv` (attempts are in order of time, and all younger than the window are
kept), `TokenInv` (a token outlives a call that begins with it; the cache is the
last renewal; whoever mints found it about to expire), the lock, and where each
request is. Each part is disturbed only by the steps of its component, by the
clock and by `Restart`.

`ImplementsAccess` maps each step of `CallPath` to one of `GitHubAccess` or a
stutter, using that invariant. That the limiter has pruned its list does not show:
the attempts it still has within the window are all there were (`KeptFacts`,
`SubmitIsAnswered`). That
a token took time to mint does not show either: when the answer comes, the cache
still holds the token that was about to expire when the lock was taken, for
nobody else can have renewed it, and the new one was minted no longer than
`CallTimeout` ago (`CallIsAtomic`).

**AllowList.** `ListInv` adds to `ListFollowsDecisions` that an entry somebody
read and is about to write back carries the last decision, unless the person is
in `overlapped`. `SessionInv` adds that a log-in past the list check is of
somebody listed or is in `late`. `SinceInv` adds that a role about to be checked
is among those noted. `AdministratorsRemain` follows from `ListInv` and
`OthersInv`: a request that is about to remove somebody does not remove its own
person.

**AuditTrail.** `TypeOK` is inductive: an event in flight tells of a state that
is in the history, and histories only grow (`StepGrows`). `RowsTellHistory` is
inductive given that. `OneRowPerPull` needs `RowInv`: a request that has yet to
write its row has written none. `TrailFollowsReview` needs `TrailInv`: while a
pull request has no row and nothing went wrong, all its events so far were about
opening, so that the row, born `pr_open`, starts out right.

**Only model-checked.** `RequestsEnd`: liveness under fairness is out of the
prover's reach.

## 5. Plan

Done: the modules of section 2, and a proof of every invariant, action property
and refinement that a run checks.

What could still be added, in this order:

1. An abstract specification of what the audit trail or the allow list promises,
   and a step-by-step refinement of it, as there is for the queue and for access to
   GitHub.
2. A submission with a third draft and a crash between the clean-up of two
   overlapping requests, as a larger instance of `submit_queue`.
3. `AllowList` composed with `Submit`: the role check in front of a submission by
   somebody who is being removed. It can only refuse a submission before it
   begins, which `Submit` leaves open, so nothing checked here depends on it.

**Not modelled**, and why:

* *Login state and the exchange with Discord* (`state.go`, `discord.go`): the state
  travels in a signed cookie and the server keeps nothing; both decide only whether
  a log-in gets as far as `BeginLogin`, which `AllowList` leaves open.
* *Signatures, JWTs and HMACs* (`jwt.go`, the webhook's check): cryptography; they
  decide whether a handler runs.
* *JSON bytes* (`json.go`): indentation, order of keys and escaping are a matter
  of strings, covered by round-trip tests; that every field is read and written,
  and an unknown one stops the program, is in `CardRules`.
* *Image conversion* (`imageconv.go`): pixels; the models know whether an image
  was given and could be converted.
* *Handlers that only read* (me, datasets, cards, lists, images) and the routes:
  they change no state. *Configuration* is read once, before anything runs.
* *Titles, bodies and slugs* of pull requests: wording.
* *The front end* has no rule the server relies on; *charts and images* matter
  through one fact, a new instance that starts while the old one serves.
