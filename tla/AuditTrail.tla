----------------------------- MODULE AuditTrail -----------------------------
(***************************************************************************)
(* The status of the audit rows.  A submission writes a row for the pull   *)
(* request it opened; GitHub then tells the webhook of every change of     *)
(* every pull request, and the handler of internal/httpapi/webhook.go sets *)
(* the status of its rows.  A delivery may be lost, late, out of order or  *)
(* repeated, and it may come before the row.                               *)
(***************************************************************************)
EXTENDS Naturals, Sequences

CONSTANTS
  Pulls,          \* the numbers of pull requests of PPLALE-web
  MaxChanges      \* a bound on the states of one pull request, for TLC

ASSUME AuditAssumption == MaxChanges \in Nat

VARIABLES
  history,        \* the states each pull request went through, <<>> before it
  opener,         \* who opened it
  deliveries,     \* events in flight: <<p, i>> tells of history[p][i]
  recording,      \* pull requests whose submission has yet to write its row
  submissions,    \* the audit rows, in the order of their IDs
  heard,          \* auxiliary: how many events of p were handled in order
  faulty          \* auxiliary: pull requests with an event missed or out of order

vars == <<history, opener, deliveries, recording, submissions, heard, faulty>>
auxVars == <<heard, faulty>>

PullState == {"open", "closed", "merged"}
SubmissionStatus == {"pr_open", "merged", "closed"}
NoStatus == "ignored"

Init ==
  /\ history = [p \in Pulls |-> <<>>]
  /\ opener = [p \in Pulls |-> "nobody"]
  /\ deliveries = {}
  /\ recording = {}
  /\ submissions = <<>>
  /\ heard = [p \in Pulls |-> 0]
  /\ faulty = {}

State(p) == history[p][Len(history[p])]
Opened(p) == history[p] # <<>>
RowsOf(p) == {i \in DOMAIN submissions : submissions[i].number = p}

-----------------------------------------------------------------------------
(* GitHub: each change of a pull request sends an event.                   *)

Change(p, state) ==
  /\ Len(history[p]) < MaxChanges
  /\ history' = [history EXCEPT ![p] = Append(@, state)]
  /\ deliveries' = deliveries \cup {<<p, Len(history[p]) + 1>>}

OpenByHand(p) ==
  /\ ~Opened(p)
  /\ Change(p, "open")
  /\ opener' = [opener EXCEPT ![p] = "person"]
  /\ UNCHANGED <<recording, submissions, auxVars>>

\* A merged pull request stays merged; a closed one can be reopened.
Review(p) ==
  /\ Opened(p)
  /\ \/ State(p) = "open" /\ \E state \in {"closed", "merged"} : Change(p, state)
     \/ State(p) = "closed" /\ Change(p, "open")
  /\ UNCHANGED <<opener, recording, submissions, auxVars>>

Lose(e) ==
  /\ deliveries' = deliveries \ {e}
  /\ UNCHANGED <<history, opener, recording, submissions, auxVars>>

\* An administrator of the repository may ask for an event again.
Redeliver(p) ==
  /\ \E i \in 1..Len(history[p]) : deliveries' = deliveries \cup {<<p, i>>}
  /\ UNCHANGED <<history, opener, recording, submissions, auxVars>>

-----------------------------------------------------------------------------
(* A submission: its pull request, then its row.                           *)

OpenPull(p) ==
  /\ ~Opened(p)
  /\ Change(p, "open")
  /\ opener' = [opener EXCEPT ![p] = "cms"]
  /\ recording' = recording \cup {p}
  /\ UNCHANGED <<submissions, auxVars>>

\* (Mutant: the request is made again after its answer was lost.)
RecordAgain(p) ==
  /\ p \in recording
  /\ submissions' = Append(submissions, [number |-> p, status |-> "pr_open"])
  /\ UNCHANGED <<history, opener, deliveries, recording, auxVars>>

\* A failed write is logged, and a server that stops writes nothing.
RecordSubmission(p) ==
  /\ p \in recording
  /\ recording' = recording \ {p}
  /\ \/ submissions' = Append(submissions, [number |-> p, status |-> "pr_open"])
     \/ UNCHANGED submissions
  /\ UNCHANGED <<history, opener, deliveries, auxVars>>

-----------------------------------------------------------------------------
(* The webhook.                                                            *)

EventOf(e) ==
  LET state == history[e[1]][e[2]] IN
  [number |-> e[1],
   action |-> IF state # "open" THEN "closed" ELSE IF e[2] = 1 THEN "opened" ELSE "reopened",
   merged |-> state = "merged"]

\* (Mutant: the action is taken for the status.)
StatusForAction(event) == event.action

statusFor(event) ==
  IF event.action # "closed" THEN NoStatus
  ELSE IF event.merged THEN "merged" ELSE "closed"

\* (Mutant: only the rows of open pull requests are set.)
UpdateOpenRows(p, status) ==
  submissions' = [i \in DOMAIN submissions |->
    IF i \in RowsOf(p) /\ submissions[i].status = "pr_open"
    THEN [submissions[i] EXCEPT !.status = status] ELSE submissions[i]]

\* (Mutant: every row is set.)
UpdateAllRows(p, status) ==
  submissions' = [i \in DOMAIN submissions |-> [submissions[i] EXCEPT !.status = status]]

\* Sets every row of the pull request; none is an error, logged and no more.
UpdateSubmissionStatusByPR(p, status) ==
  submissions' = [i \in DOMAIN submissions |->
    IF i \in RowsOf(p) THEN [submissions[i] EXCEPT !.status = status] ELSE submissions[i]]

\* What the auxiliary variables keep of the event handled: whether it was the
\* next one, and whether its status reached a row.
Note(e, missed) ==
  LET p == e[1]
      next == e[2] = heard[p] + 1
  IN /\ heard' = [heard EXCEPT ![p] = IF next THEN e[2] ELSE @]
     /\ faulty' = IF next /\ ~missed THEN faulty ELSE faulty \cup {p}

\* The store may fail; GitHub gets the same answer and does not try again.
Handle(e) ==
  LET event == EventOf(e)
      status == statusFor(event)
  IN
  /\ \/ /\ status = NoStatus
        /\ UNCHANGED submissions
        /\ Note(e, FALSE)
     \/ /\ status # NoStatus
        /\ UpdateSubmissionStatusByPR(event.number, status)
        /\ Note(e, RowsOf(event.number) = {})
     \/ /\ status # NoStatus
        /\ UNCHANGED submissions
        /\ Note(e, TRUE)
  /\ deliveries' = deliveries \ {e}
  /\ UNCHANGED <<history, opener, recording>>

-----------------------------------------------------------------------------
Next ==
  \/ \E p \in Pulls : \/ OpenByHand(p) \/ Review(p) \/ Redeliver(p)
                      \/ OpenPull(p) \/ RecordSubmission(p)
  \/ \E e \in deliveries : Lose(e) \/ Handle(e)

Spec == Init /\ [][Next]_vars

-----------------------------------------------------------------------------
(* Properties.                                                             *)

Opener == {"nobody", "cms", "person"}
Row == [number : Pulls, status : SubmissionStatus]

\* Every variable has its type, an event tells of a state there was, and a row
\* is written only for a pull request that is there (webhook.go, store.go).
TypeOK ==
  /\ history \in [Pulls -> Seq(PullState)]
  /\ opener \in [Pulls -> Opener]
  /\ \A p \in Pulls : opener[p] = "nobody" <=> ~Opened(p)
  /\ deliveries \subseteq Pulls \X (Nat \ {0})
  /\ \A e \in deliveries : e[2] <= Len(history[e[1]])
  /\ recording \subseteq {p \in Pulls : opener[p] = "cms"}
  /\ submissions \in Seq(Row)
  /\ heard \in [Pulls -> Nat]
  /\ \A p \in Pulls : heard[p] <= Len(history[p])
  /\ faulty \subseteq Pulls

\* A pull request that a person opened has no row, and one that the CMS opened
\* has at most one, however its submission ended (handlers.go:644-657).
OneRowPerPull ==
  \A i, j \in DOMAIN submissions :
    /\ opener[submissions[i].number] = "cms"
    /\ submissions[i].number = submissions[j].number => i = j

\* Whatever is lost, late or repeated, a row says merged or closed only of a
\* pull request that was, at some time (webhook.go:47-55, 88).
RowsTellHistory ==
  \A i \in DOMAIN submissions : LET row == submissions[i] IN
    row.status # "pr_open" =>
      \E n \in DOMAIN history[row.number] : history[row.number][n] = row.status

\* The last closing or merging among the first n states.
LastOutcome(p, n, status) ==
  \/ status = "pr_open" /\ \A k \in 1..n : history[p][k] = "open"
  \/ /\ status # "pr_open"
     /\ \E m \in 1..n : /\ history[p][m] = status
                        /\ \A k \in (m + 1)..n : history[p][k] = "open"

\* A row whose events came in order, none missing, and not before it, says how
\* the last of them left the pull request; reopening it does not change the row
\* (webhook.go:48-50, store.go:52).
TrailFollowsReview ==
  \A i \in DOMAIN submissions : LET row == submissions[i] IN
    row.number \notin faulty => LastOutcome(row.number, heard[row.number], row.status)

=============================================================================
