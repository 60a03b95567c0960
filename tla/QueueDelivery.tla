---------------------------- MODULE QueueDelivery ----------------------------
(***************************************************************************)
(* What the draft queue promises to the person who filled it: a draft once *)
(* accepted stays queued until a person removes it or a pull request       *)
(* carries it.  Delivery and clearing the queue are two steps: between     *)
(* them, or for ever if the second one fails, a delivered draft is still   *)
(* queued.                                                                 *)
(***************************************************************************)
CONSTANT DraftIDs

VARIABLES
  queued,       \* in the queue
  delivered,    \* carried by a pull request
  removed       \* removed by a person

vars == <<queued, delivered, removed>>

Init == queued = {} /\ delivered = {} /\ removed = {}

Known == queued \cup delivered \cup removed

Accept(d) ==
  /\ d \notin Known
  /\ queued' = queued \cup {d}
  /\ UNCHANGED <<delivered, removed>>

Remove(d) ==
  /\ d \in queued
  /\ queued' = queued \ {d}
  /\ removed' = removed \cup {d}
  /\ UNCHANGED delivered

\* A draft removed while it is being submitted may still be delivered.
Deliver(S) ==
  /\ S \subseteq Known
  /\ delivered' = delivered \cup S
  /\ UNCHANGED <<queued, removed>>

Clear(S) ==
  /\ S \subseteq delivered
  /\ queued' = queued \ S
  /\ UNCHANGED <<delivered, removed>>

Next ==
  \/ \E d \in DraftIDs : Accept(d) \/ Remove(d)
  \/ \E S \in SUBSET DraftIDs : Deliver(S) \/ Clear(S)

Spec == Init /\ [][Next]_vars

=============================================================================
