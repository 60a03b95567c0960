-------------------------- MODULE AuditTrailProofs --------------------------
(***************************************************************************)
(* The invariants of AuditTrail, for any pull requests and any number of   *)
(* changes of them.                                                        *)
(***************************************************************************)
EXTENDS AuditTrail, CommonFacts

\* A sequence whose members are changed in place is a sequence of that length.
LEMMA MapFacts ==
  ASSUME NEW S, NEW s \in Seq(S), NEW t \in [DOMAIN s -> S]
  PROVE  t \in Seq(S)
<1>1. Len(s) \in Nat /\ DOMAIN s = 1..Len(s)
  BY LenProperties
<1>. QED
  BY <1>1, SeqDef

-----------------------------------------------------------------------------
(* What each group of actions does, for the proofs that follow.            *)

\* A change of a pull request adds a state to its history and an event.
LEMMA ChangeFacts ==
  ASSUME TypeOK, NEW p \in Pulls, NEW state \in PullState, Change(p, state)
  PROVE  /\ history' \in [Pulls -> Seq(PullState)]
         /\ Len(history[p]) \in Nat
         /\ Len(history'[p]) = Len(history[p]) + 1
         /\ history'[p] # <<>>
         /\ \A q \in Pulls : q # p => history'[q] = history[q]
         /\ \A k \in 1..Len(history[p]) : history'[p][k] = history[p][k]
         /\ history'[p][Len(history[p]) + 1] = state
         /\ deliveries' = deliveries \cup {<<p, Len(history[p]) + 1>>}
<1>1. history \in [Pulls -> Seq(PullState)] /\ history[p] \in Seq(PullState)
  BY DEF TypeOK
<1>2. history' = [history EXCEPT ![p] = Append(history[p], state)]
  BY DEF Change
<1>3. history'[p] = Append(history[p], state)
  BY <1>1, <1>2
<1>. QED
  BY <1>1, <1>2, <1>3, AppendFacts DEF Change

\* What happened stays in the history, and the opener is known for good.
Grows ==
  \A p \in Pulls :
    /\ Len(history[p]) \in Nat /\ Len(history'[p]) \in Nat
    /\ Len(history[p]) <= Len(history'[p])
    /\ \A k \in 1..Len(history[p]) : history'[p][k] = history[p][k]
    /\ opener[p] # "nobody" => opener'[p] = opener[p]

LEMMA SameHistory ==
  ASSUME TypeOK, UNCHANGED <<history, opener>>
  PROVE  Grows
<1>1. \A p \in Pulls : Len(history[p]) \in Nat
  BY LenProperties DEF TypeOK
<1>. QED
  BY <1>1 DEF Grows

LEMMA ChangeGrows ==
  ASSUME TypeOK, NEW p \in Pulls, NEW state \in PullState, Change(p, state),
         \/ UNCHANGED opener
         \/ ~Opened(p) /\ \E o \in Opener : opener' = [opener EXCEPT ![p] = o]
  PROVE  Grows
<1>1. \A q \in Pulls : Len(history[q]) \in Nat /\ Len(history'[q]) \in Nat
  BY ChangeFacts, LenProperties DEF TypeOK
<1>2. \A q \in Pulls : opener[q] # "nobody" => opener'[q] = opener[q]
  BY DEF TypeOK
<1>3. \A q \in Pulls : /\ Len(history[q]) <= Len(history'[q])
                       /\ \A k \in 1..Len(history[q]) : history'[q][k] = history[q][k]
  <2>1. /\ Len(history'[p]) = Len(history[p]) + 1
        /\ \A k \in 1..Len(history[p]) : history'[p][k] = history[p][k]
        /\ \A q \in Pulls : q # p => history'[q] = history[q]
    BY ChangeFacts
  <2>. QED
    BY <1>1, <2>1
<1>. QED
  BY <1>1, <1>2, <1>3 DEF Grows

LEMMA ReviewChange ==
  ASSUME NEW p \in Pulls, Review(p)
  PROVE  /\ \E state \in PullState : Change(p, state)
         /\ Opened(p)
         /\ UNCHANGED <<opener, recording, submissions, heard, faulty>>
BY DEF Review, PullState, auxVars

LEMMA StepGrows ==
  ASSUME TypeOK, Next
  PROVE  Grows
<1>1. CASE \E p \in Pulls : OpenByHand(p)
  BY <1>1, ChangeGrows DEF OpenByHand, PullState, Opener
<1>2. CASE \E p \in Pulls : Review(p)
  BY <1>2, ReviewChange, ChangeGrows
<1>3. CASE \E p \in Pulls : OpenPull(p)
  BY <1>3, ChangeGrows DEF OpenPull, PullState, Opener
<1>4. CASE \E p \in Pulls : Redeliver(p) \/ RecordSubmission(p)
  BY <1>4, SameHistory DEF Redeliver, RecordSubmission
<1>5. CASE \E e \in deliveries : Lose(e) \/ Handle(e)
  BY <1>5, SameHistory DEF Lose, Handle
<1>. QED
  BY <1>1, <1>2, <1>3, <1>4, <1>5 DEF Next

\* An event in flight tells of a state of its pull request; if it is acted on,
\* its status is that state.
LEMMA EventFacts ==
  ASSUME TypeOK, NEW e \in deliveries
  PROVE  /\ e = <<e[1], e[2]>> /\ e[1] \in Pulls
         /\ e[2] \in Nat /\ e[2] \in 1..Len(history[e[1]])
         /\ history[e[1]][e[2]] \in PullState
         /\ EventOf(e).number = e[1]
         /\ statusFor(EventOf(e)) = NoStatus <=> history[e[1]][e[2]] = "open"
         /\ statusFor(EventOf(e)) # NoStatus =>
              /\ statusFor(EventOf(e)) = history[e[1]][e[2]]
              /\ statusFor(EventOf(e)) \in {"merged", "closed"}
<1>1. /\ e = <<e[1], e[2]>> /\ e[1] \in Pulls /\ e[2] \in Nat \ {0}
      /\ e[2] <= Len(history[e[1]]) /\ history[e[1]] \in Seq(PullState)
  BY DEF TypeOK
<1>2. Len(history[e[1]]) \in Nat /\ e[2] \in 1..Len(history[e[1]])
  BY <1>1, LenProperties
<1>3. history[e[1]][e[2]] \in PullState
  BY <1>1, <1>2, LenProperties
<1>4. EventOf(e).number = e[1]
  BY DEF EventOf
<1>5. EventOf(e).action = "closed" <=> history[e[1]][e[2]] # "open"
  BY DEF EventOf
<1>6. EventOf(e).merged = (history[e[1]][e[2]] = "merged")
  BY DEF EventOf
<1>. QED
  BY <1>1, <1>2, <1>3, <1>4, <1>5, <1>6 DEF statusFor, NoStatus, PullState

\* What the auxiliary variables keep.
LEMMA NoteFacts ==
  ASSUME TypeOK, NEW e \in deliveries, NEW missed \in BOOLEAN, Note(e, missed)
  PROVE  /\ heard' \in [Pulls -> Nat]
         /\ faulty \subseteq faulty' /\ faulty' \subseteq Pulls
         /\ \A p \in Pulls : heard'[p] <= Len(history[p])
         /\ \A p \in Pulls : p # e[1] =>
              heard'[p] = heard[p] /\ (p \in faulty' <=> p \in faulty)
         /\ e[1] \notin faulty' =>
              ~missed /\ e[2] = heard[e[1]] + 1 /\ heard'[e[1]] = e[2]
<1>1. e[1] \in Pulls /\ e[2] \in Nat /\ e[2] \in 1..Len(history[e[1]])
  BY EventFacts
<1>2. heard \in [Pulls -> Nat] /\ faulty \subseteq Pulls
      /\ \A p \in Pulls : heard[p] <= Len(history[p])
  BY DEF TypeOK
<1>3. heard' = [heard EXCEPT ![e[1]] = IF e[2] = heard[e[1]] + 1 THEN e[2] ELSE heard[e[1]]]
  BY DEF Note
<1>4. faulty' = IF e[2] = heard[e[1]] + 1 /\ ~missed THEN faulty ELSE faulty \cup {e[1]}
  BY DEF Note
<1>5. /\ heard' \in [Pulls -> Nat]
      /\ heard'[e[1]] = IF e[2] = heard[e[1]] + 1 THEN e[2] ELSE heard[e[1]]
      /\ \A p \in Pulls : p # e[1] => heard'[p] = heard[p]
  BY <1>1, <1>2, <1>3
<1>6. \A p \in Pulls : heard'[p] <= Len(history[p])
  BY <1>1, <1>2, <1>5
<1>7. e[1] \notin faulty' => ~missed /\ e[2] = heard[e[1]] + 1
  BY <1>4
<1>. QED
  BY <1>1, <1>2, <1>4, <1>5, <1>6, <1>7

\* Handling an event leaves the rows as they are, or sets the status of those
\* of its pull request to the state it tells of.
SetRows(e) ==
  submissions' = [i \in DOMAIN submissions |->
    IF submissions[i].number = e[1]
    THEN [number |-> e[1], status |-> history[e[1]][e[2]]] ELSE submissions[i]]

LEMMA HandleFacts ==
  ASSUME TypeOK, NEW e \in deliveries, Handle(e)
  PROVE  /\ UNCHANGED <<history, opener, recording>> /\ deliveries' = deliveries \ {e}
         /\ \/ /\ history[e[1]][e[2]] = "open"
               /\ UNCHANGED submissions /\ Note(e, FALSE)
            \/ /\ history[e[1]][e[2]] \in {"closed", "merged"}
               /\ SetRows(e) /\ Note(e, RowsOf(e[1]) = {})
            \/ /\ history[e[1]][e[2]] \in {"closed", "merged"}
               /\ UNCHANGED submissions /\ Note(e, TRUE)
<1>. DEFINE status == statusFor(EventOf(e))
            open == history[e[1]][e[2]] = "open"
<1>1. UNCHANGED <<history, opener, recording>> /\ deliveries' = deliveries \ {e}
  BY DEF Handle
<1>2. \/ status = NoStatus /\ UNCHANGED submissions /\ Note(e, FALSE)
      \/ status # NoStatus /\ UpdateSubmissionStatusByPR(e[1], status)
                           /\ Note(e, RowsOf(e[1]) = {})
      \/ status # NoStatus /\ UNCHANGED submissions /\ Note(e, TRUE)
  BY EventFacts DEF Handle
<1>3. UpdateSubmissionStatusByPR(e[1], history[e[1]][e[2]]) => SetRows(e)
  <2>1. \A i \in DOMAIN submissions : submissions[i] \in Row
    BY LenProperties DEF TypeOK
  <2>. SUFFICES ASSUME UpdateSubmissionStatusByPR(e[1], history[e[1]][e[2]])
                PROVE  SetRows(e)
    OBVIOUS
  <2>2. \A i \in DOMAIN submissions : submissions[i].number = e[1] =>
          [submissions[i] EXCEPT !.status = history[e[1]][e[2]]]
            = [number |-> e[1], status |-> history[e[1]][e[2]]]
    BY <2>1 DEF Row
  <2>. QED
    BY <2>2 DEF UpdateSubmissionStatusByPR, SetRows, RowsOf
<1>. QED
  BY <1>1, <1>2, <1>3, EventFacts DEF PullState

\* What SetRows does to one row.
LEMMA SetRowsFacts ==
  ASSUME TypeOK, NEW e \in deliveries, SetRows(e),
         history[e[1]][e[2]] \in {"closed", "merged"}
  PROVE  /\ submissions' \in Seq(Row)
         /\ DOMAIN submissions' = DOMAIN submissions
         /\ \A i \in DOMAIN submissions :
              /\ submissions'[i].number = submissions[i].number
              /\ submissions[i].number = e[1] =>
                   submissions'[i].status = history[e[1]][e[2]]
              /\ submissions[i].number # e[1] => submissions'[i] = submissions[i]
<1>1. submissions \in Seq(Row) /\ \A i \in DOMAIN submissions : submissions[i] \in Row
  BY LenProperties DEF TypeOK
<1>2. [number |-> e[1], status |-> history[e[1]][e[2]]] \in Row
  BY EventFacts DEF Row, SubmissionStatus
<1>3. submissions' \in [DOMAIN submissions -> Row]
  BY <1>1, <1>2 DEF SetRows
<1>4. submissions' \in Seq(Row)
  BY <1>1, <1>3, MapFacts
<1>. QED
  BY <1>3, <1>4 DEF SetRows

-----------------------------------------------------------------------------
(* Types.                                                                  *)

LEMMA RowFacts ==
  ASSUME TypeOK
  PROVE  /\ Len(submissions) \in Nat /\ DOMAIN submissions = 1..Len(submissions)
         /\ \A i \in DOMAIN submissions :
              submissions[i] \in Row /\ submissions[i].number \in Pulls
<1>1. submissions \in Seq(Row)
  BY DEF TypeOK
<1>2. /\ Len(submissions) \in Nat /\ DOMAIN submissions = 1..Len(submissions)
      /\ \A i \in DOMAIN submissions : submissions[i] \in Row
  BY <1>1, LenProperties
<1>3. \A row \in Row : row.number \in Pulls
  BY DEF Row
<1>. QED
  BY <1>2, <1>3

LEMMA InitType == Init => TypeOK
<1>. SUFFICES ASSUME Init PROVE TypeOK
  OBVIOUS
<1>1. <<>> \in Seq(PullState) /\ <<>> \in Seq(Row) /\ Len(<<>>) = 0
  BY EmptySeq
<1>. QED
  BY <1>1 DEF Init, TypeOK, Opened, Opener

\* A submission's row appended.
LEMMA RecordFacts ==
  ASSUME TypeOK, NEW p \in Pulls, RecordSubmission(p)
  PROVE  /\ submissions' \in Seq(Row)
         /\ \/ UNCHANGED submissions
            \/ /\ Len(submissions) \in Nat
               /\ DOMAIN submissions = 1..Len(submissions)
               /\ DOMAIN submissions' = 1..(Len(submissions) + 1)
               /\ \A i \in DOMAIN submissions : submissions'[i] = submissions[i]
               /\ submissions'[Len(submissions) + 1] = [number |-> p, status |-> "pr_open"]
<1>1. submissions \in Seq(Row)
  BY DEF TypeOK
<1>2. [number |-> p, status |-> "pr_open"] \in Row
  BY DEF Row, SubmissionStatus
<1>3. CASE UNCHANGED submissions
  BY <1>1, <1>3
<1>4. CASE submissions' = Append(submissions, [number |-> p, status |-> "pr_open"])
  BY <1>1, <1>2, <1>4, AppendFacts
<1>. QED
  BY <1>3, <1>4 DEF RecordSubmission

\* The events in flight, and what was handled, after a change.
LEMMA ChangeEvents ==
  ASSUME TypeOK, NEW p \in Pulls, NEW state \in PullState, Change(p, state)
  PROVE  /\ deliveries' \subseteq Pulls \X (Nat \ {0})
         /\ \A e \in deliveries' : e[2] <= Len(history'[e[1]])
         /\ \A q \in Pulls : heard[q] <= Len(history'[q])
<1>1. \A q \in Pulls : Len(history[q]) \in Nat
  BY LenProperties DEF TypeOK
<1>2. \A q \in Pulls : Len(history'[q]) \in Nat /\ Len(history[q]) <= Len(history'[q])
  BY <1>1, ChangeFacts
<1>3. \A e \in deliveries : /\ e[1] \in Pulls /\ e[2] \in Nat
                            /\ e[2] <= Len(history[e[1]])
  BY DEF TypeOK
<1>4. \A e \in deliveries : e[2] <= Len(history'[e[1]])
  BY <1>1, <1>2, <1>3
<1>5. \A q \in Pulls : heard[q] \in Nat /\ heard[q] <= Len(history[q])
  BY DEF TypeOK
<1>6. \A q \in Pulls : heard[q] <= Len(history'[q])
  BY <1>1, <1>2, <1>5
<1>. DEFINE new == <<p, Len(history[p]) + 1>>
<1>7. new \in Pulls \X (Nat \ {0}) /\ new[2] <= Len(history'[new[1]])
  BY <1>1, ChangeFacts
<1>8. deliveries' = deliveries \cup {new} /\ deliveries \subseteq Pulls \X (Nat \ {0})
  BY ChangeFacts DEF TypeOK
<1>. HIDE DEF new
<1>. QED
  BY <1>4, <1>6, <1>7, <1>8

\* A pull request is opened, by the CMS or by hand.
LEMMA OpenType ==
  ASSUME TypeOK, NEW p \in Pulls, OpenByHand(p) \/ OpenPull(p)
  PROVE  TypeOK'
<1>0. PICK o \in {"cms", "person"} :
        /\ ~Opened(p) /\ Change(p, "open")
        /\ opener' = [opener EXCEPT ![p] = o]
        /\ \A q \in recording' : q \in recording \/ (q = p /\ o = "cms")
        /\ UNCHANGED <<submissions, heard, faulty>>
  <2>1. CASE OpenByHand(p)
    <3>1. /\ ~Opened(p) /\ Change(p, "open")
          /\ opener' = [opener EXCEPT ![p] = "person"]
          /\ recording' = recording /\ UNCHANGED <<submissions, heard, faulty>>
      BY <2>1 DEF OpenByHand, auxVars
    <3>. WITNESS "person" \in {"cms", "person"}
    <3>. QED
      BY <3>1
  <2>2. CASE OpenPull(p)
    <3>1. /\ ~Opened(p) /\ Change(p, "open")
          /\ opener' = [opener EXCEPT ![p] = "cms"]
          /\ recording' = recording \cup {p} /\ UNCHANGED <<submissions, heard, faulty>>
      BY <2>2 DEF OpenPull, auxVars
    <3>. WITNESS "cms" \in {"cms", "person"}
    <3>. QED
      BY <3>1
  <2>. QED
    BY <2>1, <2>2
<1>1. "open" \in PullState
  BY DEF PullState
<1>2. opener' \in [Pulls -> Opener] /\ opener'[p] = o
      /\ \A q \in Pulls : q # p => opener'[q] = opener[q]
  BY <1>0 DEF TypeOK, Opener
<1>3. \A q \in Pulls : opener'[q] = "nobody" <=> ~Opened(q)'
  <2>1. history'[p] # <<>> /\ \A q \in Pulls : q # p => history'[q] = history[q]
    BY <1>0, <1>1, ChangeFacts
  <2>2. opener'[p] # "nobody"
    BY <1>2
  <2>. QED
    BY <1>2, <2>1, <2>2 DEF TypeOK, Opened
<1>4. /\ deliveries' \subseteq Pulls \X (Nat \ {0})
      /\ \A e \in deliveries' : e[2] <= Len(history'[e[1]])
  BY <1>0, <1>1, ChangeEvents
<1>5. recording' \subseteq {q \in Pulls : opener'[q] = "cms"}
  BY <1>0, <1>2 DEF TypeOK
<1>6. \A q \in Pulls : heard'[q] <= Len(history'[q])
  BY <1>0, <1>1, ChangeEvents
<1>. QED
  BY <1>0, <1>1, <1>2, <1>3, <1>4, <1>5, <1>6, ChangeFacts DEF TypeOK

LEMMA ReviewType ==
  ASSUME TypeOK, NEW p \in Pulls, Review(p)
  PROVE  TypeOK'
<1>1. PICK state \in PullState : Change(p, state)
  BY ReviewChange
<1>2. UNCHANGED <<opener, recording, submissions, heard, faulty>> /\ Opened(p)
  BY ReviewChange
<1>3. \A q \in Pulls : opener'[q] = "nobody" <=> ~Opened(q)'
  BY <1>1, <1>2, ChangeFacts DEF TypeOK, Opened
<1>4. /\ deliveries' \subseteq Pulls \X (Nat \ {0})
      /\ \A e \in deliveries' : e[2] <= Len(history'[e[1]])
  BY <1>1, ChangeEvents
<1>5. \A q \in Pulls : heard'[q] <= Len(history'[q])
  BY <1>1, <1>2, ChangeEvents
<1>. QED
  BY <1>1, <1>2, <1>3, <1>4, <1>5, ChangeFacts DEF TypeOK

LEMMA RedeliverType ==
  ASSUME TypeOK, NEW p \in Pulls, Redeliver(p)
  PROVE  TypeOK'
<1>1. PICK i \in 1..Len(history[p]) : deliveries' = deliveries \cup {<<p, i>>}
  BY DEF Redeliver
<1>2. Len(history[p]) \in Nat
  BY LenProperties DEF TypeOK
<1>3. i \in Nat \ {0} /\ i <= Len(history[p])
  BY <1>2
<1>4. /\ deliveries' \subseteq Pulls \X (Nat \ {0})
      /\ \A e \in deliveries' : e[2] <= Len(history[e[1]])
  BY <1>1, <1>3 DEF TypeOK
<1>. QED
  BY <1>4 DEF Redeliver, TypeOK, Opened, auxVars

LEMMA RecordType ==
  ASSUME TypeOK, NEW p \in Pulls, RecordSubmission(p)
  PROVE  TypeOK'
<1>1. submissions' \in Seq(Row)
  BY RecordFacts
<1>. QED
  BY <1>1 DEF RecordSubmission, TypeOK, Opened, auxVars

LEMMA HandleType ==
  ASSUME TypeOK, NEW e \in deliveries, Handle(e)
  PROVE  TypeOK'
<1>1. UNCHANGED <<history, opener, recording>> /\ deliveries' = deliveries \ {e}
  BY HandleFacts
<1>2. submissions' \in Seq(Row)
  BY HandleFacts, SetRowsFacts DEF TypeOK
<1>3. \E missed \in BOOLEAN : Note(e, missed)
  BY HandleFacts
<1>4. /\ heard' \in [Pulls -> Nat] /\ faulty' \subseteq Pulls
      /\ \A p \in Pulls : heard'[p] <= Len(history[p])
  BY <1>3, NoteFacts
<1>. QED
  BY <1>1, <1>2, <1>4 DEF TypeOK, Opened

LEMMA LoseType ==
  ASSUME TypeOK, NEW e \in deliveries, Lose(e)
  PROVE  TypeOK'
BY DEF Lose, TypeOK, Opened, auxVars

LEMMA StepType == TypeOK /\ [Next]_vars => TypeOK'
<1>. SUFFICES ASSUME TypeOK, [Next]_vars PROVE TypeOK'
  OBVIOUS
<1>1. CASE \E p \in Pulls : OpenByHand(p) \/ OpenPull(p)
  BY <1>1, OpenType
<1>2. CASE \E p \in Pulls : Review(p) \/ Redeliver(p) \/ RecordSubmission(p)
  BY <1>2, ReviewType, RedeliverType, RecordType
<1>3. CASE \E e \in deliveries : Lose(e) \/ Handle(e)
  BY <1>3, LoseType, HandleType
<1>4. CASE UNCHANGED vars
  BY <1>4 DEF vars, TypeOK, Opened
<1>. QED
  BY <1>1, <1>2, <1>3, <1>4 DEF Next

\* Every reachable state is well typed (webhook.go, store.go).
THEOREM TrailTypeCorrect == Spec => []TypeOK
BY InitType, StepType, PTL DEF Spec

-----------------------------------------------------------------------------
(* One row per pull request.                                               *)

\* A request that has yet to write its row has written none.
RowInv == OneRowPerPull /\ \A i \in DOMAIN submissions : submissions[i].number \notin recording

\* Nothing is written, and no request is to write a row that has one.
LEMMA RowsKept ==
  ASSUME TypeOK, RowInv, Grows,
         DOMAIN submissions' = DOMAIN submissions,
         \A i \in DOMAIN submissions : submissions'[i].number = submissions[i].number,
         \A q \in recording' : q \in recording \/ opener[q] = "nobody"
  PROVE  RowInv'
<1>1. \A i \in DOMAIN submissions :
        submissions[i].number \in Pulls /\ opener[submissions[i].number] = "cms"
  BY RowFacts DEF RowInv, OneRowPerPull
<1>2. \A i \in DOMAIN submissions : opener'[submissions[i].number] = "cms"
  BY <1>1 DEF Grows
<1>. QED
  BY <1>1, <1>2 DEF RowInv, OneRowPerPull

LEMMA StepRow == TypeOK /\ RowInv /\ [Next]_vars => RowInv'
<1>. SUFFICES ASSUME TypeOK, RowInv, [Next]_vars PROVE RowInv'
  OBVIOUS
<1>1. CASE UNCHANGED vars
  BY <1>1 DEF vars, RowInv, OneRowPerPull
<1>2. ASSUME Next PROVE Grows
  BY <1>2, StepGrows
<1>3. ASSUME NEW p \in Pulls, OpenByHand(p) \/ Review(p) \/ Redeliver(p) \/ OpenPull(p), Next
      PROVE  RowInv'
  <2>1. UNCHANGED submissions
    BY <1>3 DEF OpenByHand, Review, Redeliver, OpenPull
  <2>2. \A q \in recording' : q \in recording \/ opener[q] = "nobody"
    BY <1>3 DEF OpenByHand, Review, Redeliver, OpenPull, TypeOK
  <2>. QED
    BY <1>2, <1>3, <2>1, <2>2, RowsKept
<1>4. ASSUME NEW p \in Pulls, RecordSubmission(p), Next PROVE RowInv'
  <2>1. CASE UNCHANGED submissions
    BY <1>2, <1>4, <2>1, RowsKept DEF RecordSubmission
  <2>2. CASE ~UNCHANGED submissions
    <3>. DEFINE n == Len(submissions) + 1
    <3>0. /\ Len(submissions) \in Nat /\ DOMAIN submissions = 1..Len(submissions)
          /\ DOMAIN submissions' = 1..(Len(submissions) + 1)
          /\ \A i \in DOMAIN submissions : submissions'[i] = submissions[i]
          /\ submissions'[n] = [number |-> p, status |-> "pr_open"]
      BY <1>4, <2>2, RecordFacts
    <3>1. /\ n \in Nat /\ n \notin DOMAIN submissions
          /\ DOMAIN submissions' = DOMAIN submissions \cup {n}
          /\ \A i \in DOMAIN submissions : submissions'[i] = submissions[i]
          /\ submissions'[n].number = p
      BY <3>0
    <3>2. UNCHANGED opener /\ recording' = recording \ {p} /\ p \in recording
      BY <1>4 DEF RecordSubmission
    <3>3. opener[p] = "cms"
      BY <3>2 DEF TypeOK
    <3>. HIDE DEF n
    <3>4. \A i \in DOMAIN submissions' :
            opener'[submissions'[i].number] = "cms" /\ submissions'[i].number \notin recording'
      BY <3>1, <3>2, <3>3 DEF RowInv, OneRowPerPull
    <3>5. \A i, j \in DOMAIN submissions' :
            submissions'[i].number = submissions'[j].number => i = j
      BY <3>1, <3>2 DEF RowInv, OneRowPerPull
    <3>. QED
      BY <3>4, <3>5 DEF RowInv, OneRowPerPull
  <2>. QED
    BY <2>1, <2>2
<1>5. ASSUME NEW e \in deliveries, Lose(e), Next PROVE RowInv'
  BY <1>2, <1>5, RowsKept DEF Lose
<1>6. ASSUME NEW e \in deliveries, Handle(e), Next PROVE RowInv'
  <2>1. /\ DOMAIN submissions' = DOMAIN submissions
        /\ \A i \in DOMAIN submissions : submissions'[i].number = submissions[i].number
    BY <1>6, HandleFacts, SetRowsFacts
  <2>2. UNCHANGED recording
    BY <1>6, HandleFacts
  <2>. QED
    BY <1>2, <1>6, <2>1, <2>2, RowsKept
<1>. QED
  BY <1>1, <1>3, <1>4, <1>5, <1>6 DEF Next

\* A pull request has at most one row, and only if a submission opened it
\* (handlers.go:644-657).
THEOREM OneRow == Spec => []OneRowPerPull
<1>1. Init => RowInv
  BY DEF Init, RowInv, OneRowPerPull
<1>2. RowInv => OneRowPerPull
  BY DEF RowInv
<1>. QED
  BY <1>1, <1>2, InitType, StepType, StepRow, PTL DEF Spec

-----------------------------------------------------------------------------
(* A row tells of something that happened.                                 *)

\* A state that is in a history stays in it.
LEMMA StillTold ==
  ASSUME TypeOK, Grows, NEW p \in Pulls, NEW state, NEW n \in DOMAIN history[p],
         history[p][n] = state, TypeOK'
  PROVE  \E m \in DOMAIN history'[p] : history'[p][m] = state
<1>1. n \in 1..Len(history[p])
  BY LenProperties DEF TypeOK
<1>2. n \in 1..Len(history'[p]) /\ history'[p][n] = state
  BY <1>1 DEF Grows
<1>3. DOMAIN history'[p] = 1..Len(history'[p])
  BY LenProperties DEF TypeOK
<1>. QED
  BY <1>2, <1>3

LEMMA StepTold == TypeOK /\ TypeOK' /\ RowsTellHistory /\ [Next]_vars => RowsTellHistory'
<1>. SUFFICES ASSUME TypeOK, TypeOK', RowsTellHistory, [Next]_vars PROVE RowsTellHistory'
  OBVIOUS
<1>. DEFINE Told(row) == \E n \in DOMAIN history[row.number] :
                           history[row.number][n] = row.status
<1>1. CASE UNCHANGED vars
  BY <1>1 DEF vars, RowsTellHistory
<1>. SUFFICES ASSUME Next PROVE RowsTellHistory'
  BY <1>1
<1>2. Grows
  BY StepGrows
<1>3. \A i \in DOMAIN submissions : submissions[i].number \in Pulls
  BY RowFacts
<1>4. ASSUME NEW i \in DOMAIN submissions', i \in DOMAIN submissions,
             submissions'[i] = submissions[i], submissions'[i].status # "pr_open"
      PROVE  Told(submissions[i])'
  BY <1>2, <1>3, <1>4, StillTold DEF RowsTellHistory
<1>5. ASSUME \A i \in DOMAIN submissions' : submissions'[i].status # "pr_open" =>
               i \in DOMAIN submissions /\ submissions'[i] = submissions[i]
      PROVE  RowsTellHistory'
  BY <1>4, <1>5 DEF RowsTellHistory
<1>6. ASSUME NEW p \in Pulls, OpenByHand(p) \/ Review(p) \/ Redeliver(p) \/ OpenPull(p)
      PROVE  RowsTellHistory'
  <2>1. UNCHANGED submissions
    BY <1>6 DEF OpenByHand, Review, Redeliver, OpenPull
  <2>. QED
    BY <2>1, <1>5
<1>7. ASSUME NEW p \in Pulls, RecordSubmission(p) PROVE RowsTellHistory'
  <2>1. \A i \in DOMAIN submissions' : submissions'[i].status # "pr_open" =>
          i \in DOMAIN submissions /\ submissions'[i] = submissions[i]
    <3>1. CASE UNCHANGED submissions
      BY <3>1
    <3>2. CASE ~UNCHANGED submissions
      <4>. DEFINE n == Len(submissions) + 1
      <4>1. /\ Len(submissions) \in Nat /\ DOMAIN submissions = 1..Len(submissions)
            /\ DOMAIN submissions' = 1..n
            /\ \A i \in DOMAIN submissions : submissions'[i] = submissions[i]
            /\ submissions'[n] = [number |-> p, status |-> "pr_open"]
        BY <1>7, <3>2, RecordFacts
      <4>2. DOMAIN submissions' = DOMAIN submissions \cup {n}
        BY <4>1
      <4>3. submissions'[n].status = "pr_open"
        BY <4>1
      <4>. HIDE DEF n
      <4>. QED
        BY <4>1, <4>2, <4>3
    <3>. QED
      BY <3>1, <3>2
  <2>. QED
    BY <2>1, <1>5
<1>8. ASSUME NEW e \in deliveries, Lose(e) PROVE RowsTellHistory'
  BY <1>5, <1>8 DEF Lose
<1>9. ASSUME NEW e \in deliveries, Handle(e) PROVE RowsTellHistory'
  <2>1. CASE UNCHANGED submissions
    BY <1>5, <2>1
  <2>2. CASE SetRows(e) /\ history[e[1]][e[2]] \in {"closed", "merged"}
    <3>1. \A i \in DOMAIN submissions :
            /\ submissions'[i].number = submissions[i].number
            /\ submissions[i].number = e[1] => submissions'[i].status = history[e[1]][e[2]]
            /\ submissions[i].number # e[1] => submissions'[i] = submissions[i]
      BY <2>2, SetRowsFacts
    <3>2. DOMAIN submissions' = DOMAIN submissions
      BY <2>2, SetRowsFacts
    <3>3. e[2] \in DOMAIN history[e[1]] /\ e[1] \in Pulls
      BY EventFacts, LenProperties DEF TypeOK
    <3>4. UNCHANGED history
      BY <1>9, HandleFacts
    <3>5. ASSUME NEW i \in DOMAIN submissions, submissions[i].number = e[1]
          PROVE  Told(submissions[i])'
      BY <3>1, <3>3, <3>4, <3>5
    <3>6. ASSUME NEW i \in DOMAIN submissions, submissions[i].number # e[1],
                 submissions'[i].status # "pr_open"
          PROVE  Told(submissions[i])'
      BY <1>4, <3>1, <3>2, <3>6
    <3>. QED
      BY <3>2, <3>5, <3>6 DEF RowsTellHistory
  <2>. QED
    BY <1>9, <2>1, <2>2, HandleFacts
<1>. QED
  BY <1>6, <1>7, <1>8, <1>9 DEF Next

\* Whatever is lost, late or repeated, a row says merged or closed only of a
\* pull request that was (webhook.go:47-55, 88).
THEOREM RowsAreTrue == Spec => []RowsTellHistory
<1>1. Init => RowsTellHistory
  BY DEF Init, RowsTellHistory
<1>. QED
  BY <1>1, InitType, StepType, StepTold, PTL DEF Spec

-----------------------------------------------------------------------------
(* A row follows the review while its events come in order.                *)

AllOpen(p, n) == \A k \in 1..n : history[p][k] = "open"

\* A pull request that has no row yet had no event to act on.
TrailInv ==
  /\ TrailFollowsReview
  /\ \A p \in Pulls : p \notin faulty /\ RowsOf(p) = {} => AllOpen(p, heard[p])

\* A pull request that is opened again keeps its last outcome.
LEMMA OutcomeNext ==
  ASSUME NEW p \in Pulls, NEW n \in Nat, history[p][n + 1] = "open", NEW status
  PROVE  /\ LastOutcome(p, n, status) => LastOutcome(p, n + 1, status)
         /\ AllOpen(p, n) => AllOpen(p, n + 1)
<1>1. 1..(n + 1) = (1..n) \cup {n + 1}
  OBVIOUS
<1>2. \A m \in 1..n : (m + 1)..(n + 1) = ((m + 1)..n) \cup {n + 1}
  OBVIOUS
<1>3. AllOpen(p, n) => AllOpen(p, n + 1)
  BY <1>1 DEF AllOpen
<1>4. CASE status = "pr_open"
  BY <1>1, <1>3, <1>4 DEF LastOutcome
<1>5. CASE status # "pr_open"
  <2>. SUFFICES ASSUME LastOutcome(p, n, status) PROVE LastOutcome(p, n + 1, status)
    BY <1>3
  <2>1. PICK m \in 1..n : /\ history[p][m] = status
                          /\ \A k \in (m + 1)..n : history[p][k] = "open"
    BY <1>5 DEF LastOutcome
  <2>2. m \in 1..(n + 1) /\ \A k \in (m + 1)..(n + 1) : history[p][k] = "open"
    BY <1>1, <1>2, <2>1
  <2>. QED
    BY <1>5, <2>1, <2>2 DEF LastOutcome
<1>. QED
  BY <1>3, <1>4, <1>5

\* A closing or merging is the last outcome when it is the last state.
LEMMA OutcomeNow ==
  ASSUME NEW p \in Pulls, NEW n \in Nat \ {0}, history[p][n] \in {"closed", "merged"}
  PROVE  LastOutcome(p, n, history[p][n])
<1>1. n \in 1..n /\ \A k \in (n + 1)..n : FALSE
  OBVIOUS
<1>. QED
  BY <1>1 DEF LastOutcome

\* An action that handles no event and writes no row.
LEMMA TrailKept ==
  ASSUME TypeOK, TrailInv, Grows, UNCHANGED <<submissions, heard, faulty>>
  PROVE  TrailInv'
<1>1. \A p \in Pulls : heard[p] \in Nat /\ heard[p] <= Len(history[p])
  BY DEF TypeOK
<1>2. ASSUME NEW i \in DOMAIN submissions, submissions[i].number \notin faulty
      PROVE  LastOutcome(submissions[i].number, heard[submissions[i].number],
                         submissions[i].status)'
  <2>. DEFINE p == submissions[i].number
              n == heard[p]
              status == submissions[i].status
  <2>1. LastOutcome(p, n, status)
    BY <1>2 DEF TrailInv, TrailFollowsReview
  <2>2. p \in Pulls
    BY RowFacts
  <2>3. n \in Nat /\ n <= Len(history[p])
    BY <1>1, <2>2
  <2>4. \A k \in 1..n : history'[p][k] = history[p][k]
    BY <2>2, <2>3 DEF Grows
  <2>5. \A m \in 1..n : \A k \in (m + 1)..n : k \in 1..n
    BY <2>3
  <2>6. UNCHANGED <<p, n, status>>
    OBVIOUS
  <2>. HIDE DEF p, n, status
  <2>7. LastOutcome(p, n, status)'
    BY <2>1, <2>4, <2>5, <2>6 DEF LastOutcome
  <2>. QED
    BY <2>7 DEF p, n, status
<1>3. ASSUME NEW p \in Pulls, p \notin faulty, RowsOf(p) = {}
      PROVE  AllOpen(p, heard[p])'
  <2>1. AllOpen(p, heard[p])
    BY <1>3 DEF TrailInv
  <2>2. \A k \in 1..heard[p] : history'[p][k] = history[p][k]
    BY <1>1 DEF Grows
  <2>. QED
    BY <2>1, <2>2 DEF AllOpen
<1>. QED
  BY <1>2, <1>3 DEF TrailInv, TrailFollowsReview, RowsOf

\* A row is written for a pull request that had no event to act on.
LEMMA TrailRecorded ==
  ASSUME TypeOK, RowInv, TrailInv, NEW p \in Pulls, RecordSubmission(p),
         ~UNCHANGED submissions
  PROVE  TrailInv'
<1>. DEFINE n == Len(submissions) + 1
<1>1. /\ Len(submissions) \in Nat /\ DOMAIN submissions = 1..Len(submissions)
      /\ DOMAIN submissions' = 1..n
      /\ \A i \in DOMAIN submissions : submissions'[i] = submissions[i]
      /\ submissions'[n] = [number |-> p, status |-> "pr_open"]
  BY RecordFacts
<1>2. /\ DOMAIN submissions' = DOMAIN submissions \cup {n}
      /\ submissions'[n].number = p /\ submissions'[n].status = "pr_open"
  BY <1>1
<1>3. UNCHANGED <<history, heard, faulty>> /\ p \in recording
  BY DEF RecordSubmission, auxVars
<1>4. RowsOf(p) = {}
  BY <1>3 DEF RowInv, RowsOf
<1>. HIDE DEF n
<1>5. p \notin faulty => LastOutcome(p, heard[p], "pr_open")'
  BY <1>3, <1>4 DEF TrailInv, AllOpen, LastOutcome
<1>6. ASSUME NEW i \in DOMAIN submissions, submissions[i].number \notin faulty
      PROVE  LastOutcome(submissions[i].number, heard[submissions[i].number],
                         submissions[i].status)'
  <2>1. LastOutcome(submissions[i].number, heard[submissions[i].number], submissions[i].status)
    BY <1>6 DEF TrailInv, TrailFollowsReview
  <2>2. submissions'[i] = submissions[i]
    BY <1>1
  <2>. QED
    BY <1>3, <2>1, <2>2 DEF LastOutcome
<1>7. TrailFollowsReview'
  BY <1>1, <1>2, <1>3, <1>5, <1>6 DEF TrailFollowsReview
<1>8. \A q \in Pulls : RowsOf(q)' = {} => RowsOf(q) = {}
  BY <1>1, <1>2 DEF RowsOf
<1>9. ASSUME NEW q \in Pulls, q \notin faulty', RowsOf(q)' = {}
      PROVE  AllOpen(q, heard[q])'
  BY <1>3, <1>8, <1>9 DEF TrailInv, AllOpen
<1>. QED
  BY <1>7, <1>9 DEF TrailInv

\* The rows of the pull request an event is about.
LEMMA TrailOfHandled ==
  ASSUME TypeOK, TrailInv, NEW e \in deliveries, Handle(e), e[1] \notin faulty'
  PROVE  /\ \A i \in DOMAIN submissions' : submissions'[i].number = e[1] =>
              LastOutcome(e[1], heard[e[1]], submissions[i].status)'
         /\ RowsOf(e[1])' = {} => AllOpen(e[1], heard[e[1]])'
<1>. DEFINE p == e[1]
            n == heard[p]
<1>1. p \in Pulls /\ n \in Nat /\ UNCHANGED history
  BY EventFacts, HandleFacts DEF TypeOK
<1>2. PICK missed \in BOOLEAN :
        /\ Note(e, missed)
        /\ \/ /\ history[p][e[2]] = "open" /\ UNCHANGED submissions
           \/ /\ history[p][e[2]] \in {"closed", "merged"}
              /\ SetRows(e) /\ missed = (RowsOf(p) = {})
           \/ missed
  BY HandleFacts
<1>3. ~missed /\ e[2] = n + 1 /\ heard'[p] = n + 1 /\ p \notin faulty
  BY <1>2, NoteFacts
<1>4. CASE history[p][n + 1] = "open" /\ UNCHANGED submissions
  <2>1. ASSUME NEW i \in DOMAIN submissions, submissions[i].number = p
        PROVE  LastOutcome(p, n + 1, submissions[i].status)
    BY <1>1, <1>3, <1>4, <2>1, OutcomeNext DEF TrailInv, TrailFollowsReview
  <2>2. ASSUME NEW i \in DOMAIN submissions', submissions'[i].number = p
        PROVE  LastOutcome(p, heard[p], submissions[i].status)'
    BY <1>1, <1>3, <1>4, <2>1, <2>2 DEF LastOutcome
  <2>3. RowsOf(p) = {} => AllOpen(p, n + 1)
    BY <1>1, <1>3, <1>4, OutcomeNext DEF TrailInv
  <2>4. RowsOf(p)' = {} => AllOpen(p, heard[p])'
    BY <1>1, <1>3, <1>4, <2>3 DEF RowsOf, AllOpen
  <2>. QED
    BY <2>2, <2>4
<1>5. CASE history[p][n + 1] \in {"closed", "merged"} /\ SetRows(e) /\ RowsOf(p) # {}
  <2>1. /\ DOMAIN submissions' = DOMAIN submissions
        /\ \A i \in DOMAIN submissions :
             /\ submissions'[i].number = submissions[i].number
             /\ submissions[i].number = p => submissions'[i].status = history[p][n + 1]
    BY <1>3, <1>5, SetRowsFacts
  <2>2. LastOutcome(p, n + 1, history[p][n + 1])
    BY <1>1, <1>5, OutcomeNow
  <2>3. ASSUME NEW i \in DOMAIN submissions', submissions'[i].number = p
        PROVE  LastOutcome(p, heard[p], submissions[i].status)'
    BY <1>1, <1>3, <2>1, <2>2, <2>3 DEF LastOutcome
  <2>4. RowsOf(p)' # {}
    BY <1>5, <2>1 DEF RowsOf
  <2>. QED
    BY <2>3, <2>4
<1>. QED
  BY <1>2, <1>3, <1>4, <1>5

\* The rows of the others.
LEMMA TrailOfOthers ==
  ASSUME TypeOK, TrailInv, NEW e \in deliveries, Handle(e),
         NEW q \in Pulls, q # e[1], q \notin faulty'
  PROVE  /\ \A i \in DOMAIN submissions' : submissions'[i].number = q =>
              LastOutcome(q, heard[q], submissions[i].status)'
         /\ RowsOf(q)' = {} => AllOpen(q, heard[q])'
<1>1. UNCHANGED history
  BY HandleFacts
<1>2. heard'[q] = heard[q] /\ q \notin faulty
  BY HandleFacts, NoteFacts
<1>3. /\ DOMAIN submissions' = DOMAIN submissions
      /\ \A i \in DOMAIN submissions :
           /\ submissions'[i].number = submissions[i].number
           /\ submissions[i].number # e[1] => submissions'[i] = submissions[i]
  BY HandleFacts, SetRowsFacts
<1>4. ASSUME NEW i \in DOMAIN submissions, submissions[i].number = q
      PROVE  LastOutcome(q, heard[q], submissions[i].status)'
  <2>1. LastOutcome(q, heard[q], submissions[i].status)
    BY <1>2, <1>4 DEF TrailInv, TrailFollowsReview
  <2>2. submissions'[i] = submissions[i]
    BY <1>3, <1>4
  <2>. QED
    BY <1>1, <1>2, <2>1, <2>2 DEF LastOutcome
<1>5. RowsOf(q)' = RowsOf(q)
  BY <1>3 DEF RowsOf
<1>6. RowsOf(q)' = {} => AllOpen(q, heard[q])'
  BY <1>1, <1>2, <1>5 DEF TrailInv, AllOpen
<1>. QED
  BY <1>3, <1>4, <1>6

LEMMA TrailHandled ==
  ASSUME TypeOK, TypeOK', TrailInv, NEW e \in deliveries, Handle(e)
  PROVE  TrailInv'
<1>1. \A i \in DOMAIN submissions' : submissions'[i].number \in Pulls
  BY RowFacts, HandleFacts, SetRowsFacts
<1>2. ASSUME NEW i \in DOMAIN submissions', submissions'[i].number \notin faulty'
      PROVE  LastOutcome(submissions[i].number, heard[submissions[i].number],
                         submissions[i].status)'
  BY <1>1, <1>2, TrailOfHandled, TrailOfOthers
<1>3. ASSUME NEW q \in Pulls, q \notin faulty', RowsOf(q)' = {}
      PROVE  AllOpen(q, heard[q])'
  BY <1>3, TrailOfHandled, TrailOfOthers
<1>. QED
  BY <1>2, <1>3 DEF TrailInv, TrailFollowsReview

LEMMA StepTrail == TypeOK /\ TypeOK' /\ RowInv /\ TrailInv /\ [Next]_vars => TrailInv'
<1>. SUFFICES ASSUME TypeOK, TypeOK', RowInv, TrailInv, [Next]_vars PROVE TrailInv'
  OBVIOUS
<1>1. CASE UNCHANGED vars
  BY <1>1, SameHistory, TrailKept DEF vars
<1>2. ASSUME NEW p \in Pulls, OpenByHand(p) \/ Review(p) \/ Redeliver(p) \/ OpenPull(p), Next
      PROVE  TrailInv'
  <2>1. UNCHANGED <<submissions, heard, faulty>>
    BY <1>2 DEF OpenByHand, Review, Redeliver, OpenPull, auxVars
  <2>. QED
    BY <1>2, <2>1, StepGrows, TrailKept
<1>3. ASSUME NEW p \in Pulls, RecordSubmission(p), Next PROVE TrailInv'
  <2>1. UNCHANGED <<heard, faulty>>
    BY <1>3 DEF RecordSubmission, auxVars
  <2>. QED
    BY <1>3, <2>1, StepGrows, TrailKept, TrailRecorded
<1>4. ASSUME NEW e \in deliveries, Lose(e), Next PROVE TrailInv'
  BY <1>4, StepGrows, TrailKept DEF Lose, auxVars
<1>5. ASSUME NEW e \in deliveries, Handle(e) PROVE TrailInv'
  BY <1>5, TrailHandled
<1>. QED
  BY <1>1, <1>2, <1>3, <1>4, <1>5 DEF Next

\* A row whose events came in order, none missing, and not before it, says how
\* the last of them left the pull request (webhook.go:48-50, store.go:52).
THEOREM TrailIsFollowed == Spec => []TrailFollowsReview
<1>1. Init => RowInv /\ TrailInv
  BY DEF Init, RowInv, OneRowPerPull, TrailInv, TrailFollowsReview, RowsOf, AllOpen
<1>2. TrailInv => TrailFollowsReview
  BY DEF TrailInv
<1>. QED
  BY <1>1, <1>2, InitType, StepType, StepRow, StepTrail, PTL DEF Spec

=============================================================================
