--------------------------- MODULE AllowListProofs ---------------------------
(***************************************************************************)
(* The invariants of AllowList, for any number of people, requests and     *)
(* sessions.                                                               *)
(***************************************************************************)
EXTENDS AllowList, TLAPS

LEMMA PutType ==
  ASSUME NEW f, NEW x, NEW y, NEW S, f \in [DOMAIN f -> S], y \in S
  PROVE  /\ Put(f, x, y) \in [DOMAIN Put(f, x, y) -> S]
         /\ DOMAIN Put(f, x, y) = DOMAIN f \cup {x}
         /\ Put(f, x, y)[x] = y
         /\ \A z \in DOMAIN f : z # x => Put(f, x, y)[z] = f[z]
BY DEF Put

LEMMA WithoutType ==
  ASSUME NEW f, NEW T, NEW S, f \in [DOMAIN f -> S]
  PROVE  /\ Without(f, T) \in [DOMAIN Without(f, T) -> S]
         /\ DOMAIN Without(f, T) = DOMAIN f \ T
         /\ \A z \in DOMAIN f \ T : Without(f, T)[z] = f[z]
BY DEF Without, Restrict

\* What the list says of a person after it changed for one.
LEMMA PutDecision ==
  ASSUME NEW f, NEW x, NEW y
  PROVE  /\ Decision(Put(f, x, y), x) = <<y.role, y.by>>
         /\ RoleIn(Put(f, x, y), x) = y.role
         /\ \A p : p # x => /\ Decision(Put(f, x, y), p) = Decision(f, p)
                            /\ RoleIn(Put(f, x, y), p) = RoleIn(f, p)
BY DEF Put, Decision, RoleIn

LEMMA DecisionType ==
  ASSUME NEW f, f \in [DOMAIN f -> Entry], NEW p
  PROVE  /\ Decision(f, p) \in (Role \X (People \cup {Bootstrap})) \cup {<<NotListed>>}
         /\ RoleIn(f, p) \in Role \cup {NotListed}
BY DEF Decision, RoleIn, Entry

-----------------------------------------------------------------------------
(* Types.                                                                  *)

\* What an action leaves alone keeps its type.
LEMMA Untouched ==
  ASSUME TypeOK
  PROVE  /\ UNCHANGED <<tables, cookies>> => TablesTypeOK'
         /\ UNCHANGED <<pc, job>> => RequestsTypeOK'
         /\ UNCHANGED bootVars => BootTypeOK'
         /\ UNCHANGED decisions => DecisionsTypeOK'
         /\ UNCHANGED removal => RemovalTypeOK'
<1>1. UNCHANGED <<tables, cookies>> => TablesTypeOK'
  BY DEF TypeOK, TablesTypeOK, tables, IsUsers, IsSessions
<1>2. UNCHANGED <<pc, job>> => RequestsTypeOK'
  BY DEF TypeOK, RequestsTypeOK
<1>3. UNCHANGED bootVars => BootTypeOK'
  BY DEF TypeOK, BootTypeOK, bootVars
<1>4. UNCHANGED decisions => DecisionsTypeOK'
  BY DEF TypeOK, DecisionsTypeOK, decisions
<1>5. UNCHANGED removal => RemovalTypeOK'
  BY DEF TypeOK, RemovalTypeOK, removal
<1>. QED
  BY <1>1, <1>2, <1>3, <1>4, <1>5

\* A request moves to another step.
LEMMA Moved ==
  ASSUME TypeOK, NEW r \in Requests, NEW step \in Steps, GoTo(r, step), UNCHANGED job
  PROVE  RequestsTypeOK'
BY DEF TypeOK, RequestsTypeOK, GoTo

\* A request moves to another step with other local variables.
LEMMA MovedWith ==
  ASSUME TypeOK, NEW r \in Requests, NEW step \in Steps, GoTo(r, step),
         NEW j \in Request, job' = [job EXCEPT ![r] = j]
  PROVE  RequestsTypeOK'
BY DEF TypeOK, RequestsTypeOK, GoTo

LEMMA SetUsersType ==
  ASSUME TypeOK, NEW new, IsUsers(new), SetUsers(new)
  PROVE  /\ UNCHANGED <<sessions, cookies>> => TablesTypeOK'
         /\ since' \in [Requests -> SUBSET (Role \cup {NotListed})]
         /\ UNCHANGED <<decided, overlapped>> => DecisionsTypeOK'
<1>1. \A r \in Requests : RoleIn(new, job[r].who) \in Role \cup {NotListed}
  BY DecisionType DEF IsUsers
<1>2. since' \in [Requests -> SUBSET (Role \cup {NotListed})]
  BY <1>1 DEF SetUsers, TypeOK, DecisionsTypeOK
<1>3. UNCHANGED <<sessions, cookies>> => TablesTypeOK'
  BY DEF SetUsers, TypeOK, TablesTypeOK, IsUsers, IsSessions
<1>. QED
  BY <1>2, <1>3 DEF TypeOK, DecisionsTypeOK

LEMMA DecideType ==
  ASSUME TypeOK, NEW p \in People, NEW new, IsUsers(new), Decide(p, new)
  PROVE  /\ UNCHANGED <<sessions, cookies>> => TablesTypeOK'
         /\ DecisionsTypeOK'
<1>1. Decision(new, p) \in (Role \X (People \cup {Bootstrap})) \cup {<<NotListed>>}
  BY DecisionType DEF IsUsers
<1>2. decided' \in [People -> (Role \X (People \cup {Bootstrap})) \cup {<<NotListed>>}]
  BY <1>1 DEF Decide, TypeOK, DecisionsTypeOK
<1>3. overlapped' \subseteq People
  BY DEF Decide, TypeOK, DecisionsTypeOK
<1>4. SetUsers(new)
  BY DEF Decide
<1>. QED
  BY <1>2, <1>3, <1>4, SetUsersType DEF DecisionsTypeOK

\* An entry is written.
LEMMA PutUsers ==
  ASSUME TypeOK, NEW p \in People, NEW entry \in Entry
  PROVE  IsUsers(Put(users, p, entry))
<1>1. users \in [DOMAIN users -> Entry] /\ DOMAIN users \subseteq People
  BY DEF TypeOK, TablesTypeOK, IsUsers
<1>2. /\ Put(users, p, entry) \in [DOMAIN Put(users, p, entry) -> Entry]
      /\ DOMAIN Put(users, p, entry) = DOMAIN users \cup {p}
  BY <1>1, PutType, Zenon
<1>. QED
  BY <1>1, <1>2 DEF IsUsers

LEMMA WithoutUsers ==
  ASSUME TypeOK, NEW T
  PROVE  IsUsers(Without(users, T)) /\ IsSessions(Without(sessions, T))
<1>1. IsUsers(Without(users, T))
  <2>1. users \in [DOMAIN users -> Entry] /\ DOMAIN users \subseteq People
    BY DEF TypeOK, TablesTypeOK, IsUsers
  <2>2. /\ Without(users, T) \in [DOMAIN Without(users, T) -> Entry]
        /\ DOMAIN Without(users, T) = DOMAIN users \ T
    BY <2>1, WithoutType, Zenon
  <2>. QED
    BY <2>1, <2>2 DEF IsUsers
<1>2. IsSessions(Without(sessions, T))
  <2>. DEFINE Row == [who : People, live : BOOLEAN]
  <2>1. sessions \in [DOMAIN sessions -> Row] /\ DOMAIN sessions \subseteq Logins
    BY DEF TypeOK, TablesTypeOK, IsSessions
  <2>2. /\ Without(sessions, T) \in [DOMAIN Without(sessions, T) -> Row]
        /\ DOMAIN Without(sessions, T) = DOMAIN sessions \ T
    <3>. HIDE DEF Row
    <3>. QED
      BY <2>1, WithoutType, Zenon
  <2>. QED
    BY <2>1, <2>2 DEF IsSessions
<1>. QED
  BY <1>1, <1>2

LEMMA NoRequestType == NoRequest \in Request /\ NoEntry \in Entry
BY AllowListAssumption DEF NoRequest, NoEntry, Request, Entry, Role

LEMMA TypeInit == Init => TypeOK
<1>. SUFFICES ASSUME Init PROVE TypeOK
  OBVIOUS
<1>1. IsUsers(users)
  BY AllowListAssumption DEF Init, IsUsers
<1>2. IsSessions(sessions)
  BY AllowListAssumption DEF Init, IsSessions, Logins
<1>3. DecisionsTypeOK
  BY <1>1, DecisionType DEF Init, IsUsers, DecisionsTypeOK
<1>. QED
  BY <1>1, <1>2, <1>3, NoRequestType
  DEF Init, TypeOK, TablesTypeOK, RequestsTypeOK, BootTypeOK, RemovalTypeOK, Steps, Logins

LEMMA TypeNext == TypeOK /\ [Next]_vars => TypeOK'
<1>. SUFFICES ASSUME TypeOK, [Next]_vars PROVE TypeOK'
  OBVIOUS
<1>. USE DEF tables, bootVars, decisions, removal
<1>0. ASSUME NEW r \in Requests
      PROVE  job[r] \in Request /\ pc[r] \in Steps
  BY DEF TypeOK, RequestsTypeOK
<1>1. ASSUME NEW r \in Requests, BeginLogin(r) PROVE TypeOK'
  <2>1. PICK who \in People, name \in Names \cup {NoName} :
          /\ job' = [job EXCEPT ![r] = [NoRequest EXCEPT !.who = who, !.name = name]]
          /\ since' = [since EXCEPT ![r] = {RoleIn(users, who)}]
    BY <1>1 DEF BeginLogin
  <2>2. [NoRequest EXCEPT !.who = who, !.name = name] \in Request
    BY NoRequestType DEF Request
  <2>3. RequestsTypeOK'
    BY <1>1, <2>1, <2>2, MovedWith DEF BeginLogin, Steps
  <2>4. RoleIn(users, who) \in Role \cup {NotListed}
    BY DecisionType DEF TypeOK, TablesTypeOK, IsUsers
  <2>5. DecisionsTypeOK'
    BY <1>1, <2>1, <2>4 DEF BeginLogin, TypeOK, DecisionsTypeOK
  <2>. QED
    BY <1>1, <2>3, <2>5, Untouched DEF BeginLogin, TypeOK
<1>2. ASSUME NEW r \in Requests, ReadEntry(r) PROVE TypeOK'
  <2>1. CASE job[r].who \notin DOMAIN users
    <3>1. RequestsTypeOK'
      BY <1>2, <2>1, Moved DEF ReadEntry, Steps
    <3>. QED
      BY <1>2, <3>1, Untouched DEF ReadEntry, TypeOK
  <2>2. CASE job[r].who \in DOMAIN users
    <3>. DEFINE entry == users[job[r].who]
    <3>1. entry \in Entry
      BY <2>2 DEF TypeOK, TablesTypeOK, IsUsers
    <3>2. [job[r] EXCEPT !.entry = entry] \in Request
      BY <1>0, <3>1 DEF Request
    <3>3. job' = [job EXCEPT ![r] = [job[r] EXCEPT !.entry = entry]]
      BY <1>2, <2>2 DEF ReadEntry
    <3>4. PICK step \in {"issue", "sync"} : GoTo(r, step)
      BY <1>2, <2>2 DEF ReadEntry
    <3>5. RequestsTypeOK'
      BY <3>2, <3>3, <3>4, MovedWith DEF Steps
    <3>. QED
      BY <1>2, <3>5, Untouched DEF ReadEntry, TypeOK
  <2>. QED
    BY <2>1, <2>2
<1>3. ASSUME NEW r \in Requests, SyncName(r) PROVE TypeOK'
  <2>. DEFINE entry == [job[r].entry EXCEPT !.name = job[r].name]
  <2>1. entry \in Entry /\ job[r].who \in People
    BY <1>0 DEF Request, Entry
  <2>2. TablesTypeOK' /\ DecisionsTypeOK'
    BY <1>3, <2>1, PutUsers, SetUsersType DEF SyncName
  <2>3. RequestsTypeOK'
    BY <1>3, Moved DEF SyncName, Steps
  <2>. QED
    BY <1>3, <2>2, <2>3, Untouched DEF SyncName, TypeOK
<1>4. ASSUME NEW r \in Requests, IssueSession(r) PROVE TypeOK'
  <2>1. [who |-> job[r].who, live |-> TRUE] \in [who : People, live : BOOLEAN]
    BY <1>0 DEF Request
  <2>2. IsSessions(Put(sessions, r, [who |-> job[r].who, live |-> TRUE]))
    <3>. DEFINE row == [who |-> job[r].who, live |-> TRUE]
                Row == [who : People, live : BOOLEAN]
    <3>1. sessions \in [DOMAIN sessions -> Row] /\ row \in Row
      BY <2>1 DEF TypeOK, TablesTypeOK, IsSessions
    <3>2. /\ Put(sessions, r, row) \in [DOMAIN Put(sessions, r, row) -> Row]
          /\ DOMAIN Put(sessions, r, row) = DOMAIN sessions \cup {r}
      <4>. HIDE DEF row, Row
      <4>. QED
        BY <3>1, PutType, Zenon
    <3>. QED
      BY <3>2 DEF TypeOK, TablesTypeOK, IsSessions, Logins
  <2>3. TablesTypeOK'
    BY <1>4, <2>2 DEF IssueSession, TypeOK, TablesTypeOK, IsUsers, Logins
  <2>4. RequestsTypeOK'
    BY <1>4, Moved DEF IssueSession, Steps
  <2>. QED
    BY <1>4, <2>3, <2>4, Untouched DEF IssueSession, TypeOK
<1>5. ASSUME NEW r \in Requests, BeginRequest(r) PROVE TypeOK'
  <2>1. PICK c \in cookies, what \in {"logout", "upsert", "delete"},
             target \in People, role \in Role :
          /\ job' = [job EXCEPT ![r] =
               [NoRequest EXCEPT !.what = what, !.target = target, !.role = role, !.cookie = {c}]]
          /\ GoTo(r, "session")
    BY <1>5 DEF BeginRequest
  <2>2. [NoRequest EXCEPT !.what = what, !.target = target, !.role = role, !.cookie = {c}]
          \in Request
    BY NoRequestType DEF Request, TypeOK, TablesTypeOK
  <2>3. RequestsTypeOK'
    BY <2>1, <2>2, MovedWith DEF Steps
  <2>. QED
    BY <1>5, <2>3, Untouched DEF BeginRequest, TypeOK
<1>6. ASSUME NEW r \in Requests, FindSession(r) PROVE TypeOK'
  <2>. DEFINE valid == {c \in job[r].cookie \cap DOMAIN sessions : sessions[c].live}
  <2>1. CASE valid = {}
    <3>1. TablesTypeOK'
      BY <1>6, <2>1, WithoutUsers DEF FindSession, TypeOK, TablesTypeOK, IsUsers, IsSessions
    <3>2. RequestsTypeOK'
      BY <1>6, <2>1, Moved DEF FindSession, Steps
    <3>3. since' = since
      BY <1>6, <2>1 DEF FindSession
    <3>. QED
      BY <1>6, <3>1, <3>2, <3>3, Untouched DEF FindSession, TypeOK
  <2>2. CASE valid # {}
    <3>1. PICK c \in valid :
            /\ job' = [job EXCEPT ![r].who = sessions[c].who]
            /\ since' = [since EXCEPT ![r] = {RoleIn(users, sessions[c].who)}]
            /\ GoTo(r, "role")
            /\ sessions' = sessions
      BY <1>6, <2>2 DEF FindSession
    <3>2. [job[r] EXCEPT !.who = sessions[c].who] \in Request
      BY <1>0 DEF Request, TypeOK, TablesTypeOK, IsSessions
    <3>3. RequestsTypeOK'
      BY <3>1, <3>2, MovedWith DEF Steps
    <3>4. RoleIn(users, sessions[c].who) \in Role \cup {NotListed}
      BY DecisionType DEF TypeOK, TablesTypeOK, IsUsers
    <3>5. DecisionsTypeOK'
      BY <1>6, <3>1, <3>4 DEF FindSession, TypeOK, DecisionsTypeOK
    <3>. QED
      BY <1>6, <3>1, <3>3, <3>5, Untouched DEF FindSession, TypeOK
  <2>. QED
    BY <2>1, <2>2
<1>7. ASSUME NEW r \in Requests, CheckRole(r) PROVE TypeOK'
  <2>1. Permitted(r, RoleIn(users, job[r].who)) \in Steps
    BY <1>0 DEF Permitted, Request, Steps
  <2>2. RequestsTypeOK'
    BY <1>7, <2>1, Moved DEF CheckRole
  <2>. QED
    BY <1>7, <2>2, Untouched DEF CheckRole, TypeOK
<1>8. ASSUME NEW r \in Requests, Logout(r) PROVE TypeOK'
  <2>1. TablesTypeOK'
    BY <1>8, WithoutUsers DEF Logout, TypeOK, TablesTypeOK, IsUsers
  <2>2. RequestsTypeOK'
    BY <1>8, Moved DEF Logout, Steps
  <2>. QED
    BY <1>8, <2>1, <2>2, Untouched DEF Logout, TypeOK
<1>9. ASSUME NEW r \in Requests, ReadTarget(r) PROVE TypeOK'
  <2>. DEFINE name == IF job[r].target \in DOMAIN users THEN users[job[r].target].name ELSE NoName
  <2>1. name \in Names \cup {NoName, Placeholder}
    BY DEF TypeOK, TablesTypeOK, IsUsers, Entry
  <2>2. [job[r] EXCEPT !.name = name] \in Request
    BY <1>0, <2>1 DEF Request
  <2>3. job' = [job EXCEPT ![r] = [job[r] EXCEPT !.name = name]] /\ GoTo(r, "write")
    BY <1>9 DEF ReadTarget
  <2>4. RequestsTypeOK'
    BY <2>2, <2>3, MovedWith DEF Steps
  <2>. QED
    BY <1>9, <2>4, Untouched DEF ReadTarget, TypeOK
<1>10. ASSUME NEW r \in Requests, UpsertUser(r) PROVE TypeOK'
  <2>. DEFINE entry == [role |-> job[r].role, name |-> job[r].name, by |-> job[r].who]
  <2>1. entry \in Entry /\ job[r].target \in People
    BY <1>0 DEF Request, Entry
  <2>2. TablesTypeOK' /\ DecisionsTypeOK'
    BY <1>10, <2>1, PutUsers, DecideType DEF UpsertUser
  <2>3. RequestsTypeOK'
    BY <1>10, Moved DEF UpsertUser, Steps
  <2>. QED
    BY <1>10, <2>2, <2>3, Untouched DEF UpsertUser, TypeOK
<1>11. ASSUME NEW r \in Requests, DeleteUser(r) PROVE TypeOK'
  <2>1. job[r].target \in People
    BY <1>0 DEF Request
  <2>2. TablesTypeOK' /\ DecisionsTypeOK'
    BY <1>11, <2>1, WithoutUsers, DecideType DEF DeleteUser
  <2>3. RequestsTypeOK'
    BY <1>11, Moved DEF DeleteUser, Steps
  <2>4. RemovalTypeOK'
    BY <1>11, <2>1 DEF DeleteUser, TypeOK, RemovalTypeOK
  <2>. QED
    BY <1>11, <2>2, <2>3, <2>4, Untouched DEF DeleteUser, TypeOK
<1>12. ASSUME NEW r \in Requests, RevokeAllFor(r) PROVE TypeOK'
  <2>1. TablesTypeOK'
    BY <1>12, WithoutUsers DEF RevokeAllFor, TypeOK, TablesTypeOK, IsUsers
  <2>2. RequestsTypeOK'
    BY <1>12, Moved DEF RevokeAllFor, Steps
  <2>3. RemovalTypeOK'
    BY <1>12 DEF RevokeAllFor, TypeOK, RemovalTypeOK
  <2>. QED
    BY <1>12, <2>1, <2>2, <2>3, Untouched DEF RevokeAllFor, TypeOK
<1>13. ASSUME NEW r \in Requests, StoreFails(r) PROVE TypeOK'
  <2>1. RequestsTypeOK'
    BY <1>13, Moved DEF StoreFails, Steps
  <2>. QED
    BY <1>13, <2>1, Untouched DEF StoreFails, TypeOK
<1>14. ASSUME NEW c \in DOMAIN sessions, Expire(c) PROVE TypeOK'
  <2>1. IsSessions(sessions')
    BY <1>14 DEF Expire, TypeOK, TablesTypeOK, IsSessions
  <2>2. TablesTypeOK'
    BY <1>14, <2>1 DEF Expire, TypeOK, TablesTypeOK, IsUsers
  <2>. QED
    BY <1>14, <2>2, Untouched DEF Expire, TypeOK
<1>15. ASSUME Crash PROVE TypeOK'
  <2>1. RequestsTypeOK'
    BY <1>15 DEF Crash, TypeOK, RequestsTypeOK, Steps
  <2>. QED
    BY <1>15, <2>1, Untouched DEF Crash, TypeOK
<1>16. ASSUME BootRead PROVE TypeOK'
  <2>1. BootstrapAdmin \in DOMAIN users => users[BootstrapAdmin] \in Entry
    BY DEF TypeOK, TablesTypeOK, IsUsers
  <2>2. BootTypeOK'
    BY <1>16, <2>1 DEF BootRead, TypeOK, BootTypeOK
  <2>. QED
    BY <1>16, <2>2, Untouched DEF BootRead, TypeOK
<1>17. ASSUME BootCreate PROVE TypeOK'
  <2>. DEFINE entry == [role |-> "admin", name |-> NoName, by |-> Bootstrap]
  <2>1. entry \in Entry /\ BootstrapAdmin \in People
    BY AllowListAssumption DEF Entry, Role
  <2>2. TablesTypeOK' /\ DecisionsTypeOK'
    BY <1>17, <2>1, PutUsers, DecideType DEF BootCreate
  <2>3. BootTypeOK'
    BY <1>17 DEF BootCreate, TypeOK, BootTypeOK
  <2>. QED
    BY <1>17, <2>2, <2>3, Untouched DEF BootCreate, TypeOK
<1>18. ASSUME BootRename PROVE TypeOK'
  <2>1. [snapshot EXCEPT !.name = NoName] \in Entry /\ BootstrapAdmin \in People
    BY AllowListAssumption DEF Entry, TypeOK, BootTypeOK
  <2>2. TablesTypeOK' /\ DecisionsTypeOK'
    BY <1>18, <2>1, PutUsers, SetUsersType DEF BootRename
  <2>3. BootTypeOK'
    BY <1>18 DEF BootRename, TypeOK, BootTypeOK
  <2>. QED
    BY <1>18, <2>2, <2>3, Untouched DEF BootRename, TypeOK
<1>19. ASSUME BootFails PROVE TypeOK'
  <2>1. BootTypeOK'
    BY <1>19 DEF BootFails, TypeOK, BootTypeOK
  <2>. QED
    BY <1>19, <2>1, Untouched DEF BootFails, TypeOK
<1>20. ASSUME UNCHANGED vars PROVE TypeOK'
  BY <1>20, Untouched DEF vars, TypeOK
<1>. QED
  BY <1>1, <1>2, <1>3, <1>4, <1>5, <1>6, <1>7, <1>8, <1>9, <1>10, <1>11, <1>12, <1>13,
     <1>14, <1>15, <1>16, <1>17, <1>18, <1>19, <1>20 DEF Next, Proceed

\* The tables, the browsers and the requests keep their types, for any number
\* of people, requests and sessions (TypeOK).
THEOREM ListTypeCorrect == Spec => []TypeOK
BY TypeInit, TypeNext, PTL DEF Spec

-----------------------------------------------------------------------------
(* The list follows the decisions.                                         *)

\* An entry somebody read and is going to write back carries the last
\* decision too, unless one fell in between.
SnapshotsFollow ==
  /\ \A r \in Requests :
       pc[r] = "sync" /\ job[r].who \notin overlapped
         => <<job[r].entry.role, job[r].entry.by>> = decided[job[r].who]
  /\ boot = "rename" /\ BootstrapAdmin \notin overlapped
       => <<snapshot.role, snapshot.by>> = decided[BootstrapAdmin]

ListInv == ListFollowsDecisions /\ SnapshotsFollow

\* A decision on p.
LEMMA DecidePreserves ==
  ASSUME TypeOK, ListInv, NEW p \in People, NEW new, Decide(p, new),
         \A q \in People \ {p} : Decision(new, q) = Decision(users, q),
         UNCHANGED <<job, snapshot>>,
         \A q \in Requests : pc'[q] = "sync" => pc[q] = "sync",
         boot' = "rename" => boot = "rename"
  PROVE  ListInv'
<1>1. /\ users' = new
      /\ decided' = [decided EXCEPT ![p] = Decision(new, p)]
      /\ overlapped' = IF SnapshotOf(p) THEN overlapped \cup {p} ELSE overlapped \ {p}
  BY DEF Decide, SetUsers
<1>2. \A q \in People : decided'[q] = IF q = p THEN Decision(new, p) ELSE decided[q]
  BY <1>1 DEF TypeOK, DecisionsTypeOK
<1>3. ListFollowsDecisions'
  <2>. SUFFICES ASSUME NEW q \in People \ overlapped' PROVE Decision(users', q) = decided'[q]
    BY DEF ListFollowsDecisions, Decision
  <2>1. CASE q = p
    BY <1>1, <1>2, <2>1
  <2>2. CASE q # p
    <3>1. q \notin overlapped
      BY <1>1, <2>2
    <3>. QED
      BY <1>1, <1>2, <2>2, <3>1 DEF ListInv, ListFollowsDecisions
  <2>. QED
    BY <2>1, <2>2
<1>4. ASSUME NEW q \in Requests, pc'[q] = "sync", job'[q].who \notin overlapped'
      PROVE  <<job'[q].entry.role, job'[q].entry.by>> = decided'[job'[q].who]
  <2>1. pc[q] = "sync" /\ job' = job /\ job[q].who \in People
    BY <1>4 DEF TypeOK, RequestsTypeOK, Request
  <2>2. job[q].who # p /\ job[q].who \notin overlapped
    BY <1>1, <1>4, <2>1 DEF SnapshotOf
  <2>. QED
    BY <1>2, <2>1, <2>2 DEF ListInv, SnapshotsFollow
<1>5. ASSUME boot' = "rename", BootstrapAdmin \notin overlapped'
      PROVE  <<snapshot'.role, snapshot'.by>> = decided'[BootstrapAdmin]
  <2>1. BootstrapAdmin # p /\ BootstrapAdmin \notin overlapped
    BY <1>1, <1>5 DEF SnapshotOf
  <2>. QED
    BY <1>2, <1>5, <2>1, AllowListAssumption DEF ListInv, SnapshotsFollow
<1>. QED
  BY <1>3, <1>4, <1>5 DEF ListInv, SnapshotsFollow

\* An entry of p written back.
LEMMA WriteBackPreserves ==
  ASSUME TypeOK, ListInv, NEW p \in People, NEW entry \in Entry,
         SetUsers(Put(users, p, entry)), UNCHANGED <<decided, overlapped>>,
         p \notin overlapped => <<entry.role, entry.by>> = decided[p]
  PROVE  ListFollowsDecisions'
<1>1. /\ Decision(Put(users, p, entry), p) = <<entry.role, entry.by>>
      /\ \A q : q # p => Decision(Put(users, p, entry), q) = Decision(users, q)
  BY PutDecision
<1>2. users' = Put(users, p, entry)
  BY DEF SetUsers
<1>3. ASSUME NEW q \in People \ overlapped'
      PROVE  Decision(users', q) = decided'[q]
  BY <1>1, <1>2, <1>3 DEF ListInv, ListFollowsDecisions
<1>. QED
  BY <1>3 DEF ListFollowsDecisions, Decision

LEMMA ListNext == TypeOK /\ ListInv /\ [Next]_vars => ListInv'
<1>. SUFFICES ASSUME TypeOK, ListInv, [Next]_vars PROVE ListInv'
  OBVIOUS
<1>. USE DEF tables, bootVars, decisions, removal, GoTo
<1>0. ASSUME NEW r \in Requests
      PROVE  job[r] \in Request /\ pc[r] \in Steps
  BY DEF TypeOK, RequestsTypeOK
<1>a. ASSUME UNCHANGED <<users, decided, overlapped>> PROVE ListFollowsDecisions'
  BY <1>a DEF ListInv, ListFollowsDecisions, Decision
<1>b. ASSUME UNCHANGED <<decided, overlapped, snapshot>>, boot' = "rename" => boot = "rename",
             \A q \in Requests : pc'[q] = "sync" => pc[q] = "sync" /\ job'[q] = job[q]
      PROVE  SnapshotsFollow'
  BY <1>b DEF ListInv, SnapshotsFollow
<1>1. ASSUME NEW r \in Requests,
             \/ BeginLogin(r) \/ IssueSession(r) \/ BeginRequest(r) \/ FindSession(r)
             \/ Logout(r) \/ ReadTarget(r) \/ RevokeAllFor(r) \/ StoreFails(r)
      PROVE  ListInv'
  <2>1. PICK step \in Steps \ {"sync"} :
          pc' = [pc EXCEPT ![r] = step] /\ \A q \in Requests \ {r} : job'[q] = job[q]
    BY <1>1 DEF BeginLogin, IssueSession, BeginRequest, FindSession, Logout, ReadTarget,
                RevokeAllFor, StoreFails, TypeOK, RequestsTypeOK, Steps
  <2>2. UNCHANGED <<users, decided, overlapped, snapshot, boot>>
    BY <1>1 DEF BeginLogin, IssueSession, BeginRequest, FindSession, Logout, ReadTarget,
                RevokeAllFor, StoreFails
  <2>3. \A q \in Requests : pc'[q] = "sync" => pc[q] = "sync" /\ job'[q] = job[q]
    BY <2>1 DEF TypeOK, RequestsTypeOK
  <2>. QED
    BY <1>a, <1>b, <2>2, <2>3 DEF ListInv
<1>2. ASSUME NEW r \in Requests, ReadEntry(r) PROVE ListInv'
  <2>1. UNCHANGED <<users, decided, overlapped, snapshot, boot>>
    BY <1>2 DEF ReadEntry
  <2>2. \A q \in Requests \ {r} : pc'[q] = pc[q] /\ job'[q] = job[q]
    BY <1>2 DEF ReadEntry, TypeOK, RequestsTypeOK
  <2>3. ASSUME pc'[r] = "sync"
        PROVE  /\ job[r].who \in DOMAIN users
               /\ job'[r] = [job[r] EXCEPT !.entry = users[job[r].who]]
    BY <1>2, <2>3 DEF ReadEntry, TypeOK, RequestsTypeOK
  <2>4. ASSUME pc'[r] = "sync", job'[r].who \notin overlapped'
        PROVE  <<job'[r].entry.role, job'[r].entry.by>> = decided'[job'[r].who]
    <3>1. /\ job'[r].who = job[r].who
          /\ job'[r].entry = users[job[r].who]
          /\ job[r].who \in DOMAIN users \cap People
      BY <1>0, <2>3, <2>4 DEF Request
    <3>2. Decision(users, job[r].who) = decided[job[r].who]
      BY <2>1, <2>4, <3>1 DEF ListInv, ListFollowsDecisions
    <3>. QED
      BY <2>1, <3>1, <3>2 DEF Decision
  <2>5. SnapshotsFollow'
    BY <2>1, <2>2, <2>4 DEF ListInv, SnapshotsFollow
  <2>. QED
    BY <1>a, <2>1, <2>5 DEF ListInv
<1>3. ASSUME NEW r \in Requests, SyncName(r) PROVE ListInv'
  <2>. DEFINE entry == [job[r].entry EXCEPT !.name = job[r].name]
  <2>1. /\ entry \in Entry /\ job[r].who \in People
        /\ entry.role = job[r].entry.role /\ entry.by = job[r].entry.by
    BY <1>0 DEF Request, Entry
  <2>2. job[r].who \notin overlapped => <<entry.role, entry.by>> = decided[job[r].who]
    BY <1>3, <2>1 DEF SyncName, ListInv, SnapshotsFollow
  <2>3. ListFollowsDecisions'
    <3>1. SetUsers(Put(users, job[r].who, entry)) /\ UNCHANGED <<decided, overlapped>>
      BY <1>3 DEF SyncName
    <3>. HIDE DEF entry
    <3>. QED
      BY <2>1, <2>2, <3>1, WriteBackPreserves
  <2>4. \A q \in Requests : pc'[q] = "sync" => pc[q] = "sync" /\ job'[q] = job[q]
    BY <1>3 DEF SyncName, TypeOK, RequestsTypeOK
  <2>. QED
    BY <1>3, <1>b, <2>3, <2>4 DEF SyncName, ListInv
<1>4. ASSUME NEW r \in Requests, CheckRole(r) PROVE ListInv'
  <2>1. Permitted(r, RoleIn(users, job[r].who)) # "sync"
    BY <1>0 DEF Permitted, Request
  <2>2. \A q \in Requests : pc'[q] = "sync" => pc[q] = "sync" /\ job'[q] = job[q]
    BY <1>4, <2>1 DEF CheckRole, TypeOK, RequestsTypeOK
  <2>. QED
    BY <1>4, <1>a, <1>b, <2>2 DEF CheckRole, ListInv
<1>5. ASSUME NEW r \in Requests, UpsertUser(r) PROVE ListInv'
  <2>. DEFINE entry == [role |-> job[r].role, name |-> job[r].name, by |-> job[r].who]
              new == Put(users, job[r].target, entry)
  <2>1. entry \in Entry /\ job[r].target \in People
    BY <1>0 DEF Request, Entry
  <2>2. \A q \in People \ {job[r].target} : Decision(new, q) = Decision(users, q)
    BY PutDecision
  <2>3. /\ Decide(job[r].target, new)
        /\ UNCHANGED <<job, snapshot, boot>>
        /\ \A q \in Requests : pc'[q] = "sync" => pc[q] = "sync"
    BY <1>5 DEF UpsertUser, TypeOK, RequestsTypeOK
  <2>. HIDE DEF new
  <2>. QED
    BY <2>1, <2>2, <2>3, DecidePreserves
<1>6. ASSUME NEW r \in Requests, DeleteUser(r) PROVE ListInv'
  <2>. DEFINE new == Without(users, {job[r].target})
  <2>1. job[r].target \in People
    BY <1>0 DEF Request
  <2>2. \A q \in People \ {job[r].target} : Decision(new, q) = Decision(users, q)
    BY DEF Without, Restrict, Decision
  <2>3. /\ Decide(job[r].target, new)
        /\ UNCHANGED <<job, snapshot, boot>>
        /\ \A q \in Requests : pc'[q] = "sync" => pc[q] = "sync"
    BY <1>6 DEF DeleteUser, TypeOK, RequestsTypeOK
  <2>. HIDE DEF new
  <2>. QED
    BY <2>1, <2>2, <2>3, DecidePreserves
<1>7. ASSUME NEW c \in DOMAIN sessions, Expire(c) PROVE ListInv'
  BY <1>7, <1>a, <1>b DEF Expire, ListInv
<1>8. ASSUME Crash PROVE ListInv'
  <2>1. \A q \in Requests : pc'[q] = "sync" => pc[q] = "sync" /\ job'[q] = job[q]
    BY <1>8 DEF Crash, Active
  <2>. QED
    BY <1>8, <1>a, <1>b, <2>1 DEF Crash, ListInv
<1>9. ASSUME BootRead PROVE ListInv'
  <2>1. UNCHANGED <<users, decided, overlapped, pc, job>>
    BY <1>9 DEF BootRead
  <2>2. ASSUME boot' = "rename", BootstrapAdmin \notin overlapped'
        PROVE  <<snapshot'.role, snapshot'.by>> = decided'[BootstrapAdmin]
    <3>1. BootstrapAdmin \in DOMAIN users /\ snapshot' = users[BootstrapAdmin]
      BY <1>9, <2>2 DEF BootRead
    <3>2. Decision(users, BootstrapAdmin) = decided[BootstrapAdmin]
      BY <2>1, <2>2, AllowListAssumption DEF ListInv, ListFollowsDecisions
    <3>. QED
      BY <2>1, <3>1, <3>2 DEF Decision
  <2>3. SnapshotsFollow'
    BY <2>1, <2>2 DEF ListInv, SnapshotsFollow
  <2>. QED
    BY <1>a, <2>1, <2>3 DEF ListInv
<1>10. ASSUME BootCreate PROVE ListInv'
  <2>. DEFINE entry == [role |-> "admin", name |-> NoName, by |-> Bootstrap]
              new == Put(users, BootstrapAdmin, entry)
  <2>1. entry \in Entry /\ BootstrapAdmin \in People
    BY AllowListAssumption DEF Entry, Role
  <2>2. \A q \in People \ {BootstrapAdmin} : Decision(new, q) = Decision(users, q)
    BY PutDecision
  <2>3. /\ Decide(BootstrapAdmin, new)
        /\ UNCHANGED <<job, pc, snapshot>>
        /\ boot' = "up"
    BY <1>10 DEF BootCreate
  <2>. HIDE DEF new
  <2>. QED
    BY <2>1, <2>2, <2>3, DecidePreserves
<1>11. ASSUME BootRename PROVE ListInv'
  <2>. DEFINE entry == [snapshot EXCEPT !.name = NoName]
  <2>1. /\ entry \in Entry /\ BootstrapAdmin \in People
        /\ entry.role = snapshot.role /\ entry.by = snapshot.by
    BY AllowListAssumption DEF Entry, TypeOK, BootTypeOK
  <2>2. BootstrapAdmin \notin overlapped => <<entry.role, entry.by>> = decided[BootstrapAdmin]
    BY <1>11, <2>1 DEF BootRename, ListInv, SnapshotsFollow
  <2>3. ListFollowsDecisions'
    <3>1. SetUsers(Put(users, BootstrapAdmin, entry)) /\ UNCHANGED <<decided, overlapped>>
      BY <1>11 DEF BootRename
    <3>. HIDE DEF entry
    <3>. QED
      BY <2>1, <2>2, <3>1, WriteBackPreserves
  <2>. QED
    BY <1>11, <1>b, <2>3 DEF BootRename, ListInv
<1>12. ASSUME BootFails PROVE ListInv'
  BY <1>12, <1>a, <1>b DEF BootFails, ListInv
<1>13. ASSUME UNCHANGED vars PROVE ListInv'
  BY <1>13, <1>a, <1>b DEF vars, ListInv
<1>. QED
  BY <1>1, <1>2, <1>3, <1>4, <1>5, <1>6, <1>7, <1>8, <1>9, <1>10, <1>11, <1>12, <1>13
  DEF Next, Proceed

\* What the list says of a person is the last decision on that person, unless
\* a stale entry was about when it was made, for any number of people,
\* requests and starting instances (ListFollowsDecisions).
THEOREM ListFollows == Spec => []ListFollowsDecisions
<1>1. Init => ListInv
  BY DEF Init, ListInv, ListFollowsDecisions, SnapshotsFollow
<1>2. ListInv => ListFollowsDecisions
  BY DEF ListInv
<1>. QED
  BY <1>1, <1>2, ListNext, ListTypeCorrect, PTL DEF Spec

-----------------------------------------------------------------------------
(* Sessions belong to people on the list.                                  *)

\* A login that is past the list is of somebody on it, or is late.
SessionInv ==
  /\ SessionsOfListedPeople
  /\ \A r \in Requests : pc[r] \in {"sync", "issue"} => job[r].who \in DOMAIN users \/ r \in late

\* A step that removes nobody and issues no session.
LEMMA SessionsKept ==
  ASSUME SessionInv,
         DOMAIN users \subseteq DOMAIN users', UNCHANGED <<unrevoked, late>>,
         \A c \in DOMAIN sessions' : c \in DOMAIN sessions /\ sessions'[c].who = sessions[c].who,
         \A q \in Requests : pc'[q] \in {"sync", "issue"}
           => pc[q] \in {"sync", "issue"} /\ job'[q].who = job[q].who
  PROVE  SessionInv'
BY DEF SessionInv, SessionsOfListedPeople

LEMMA SessionNext == TypeOK /\ SessionInv /\ [Next]_vars => SessionInv'
<1>. SUFFICES ASSUME TypeOK, SessionInv, [Next]_vars PROVE SessionInv'
  OBVIOUS
<1>. USE DEF tables, bootVars, decisions, removal, GoTo
<1>0. ASSUME NEW r \in Requests
      PROVE  job[r] \in Request /\ pc[r] \in Steps
  BY DEF TypeOK, RequestsTypeOK
<1>a. ASSUME DOMAIN users \subseteq DOMAIN users', UNCHANGED <<sessions, removal>>,
             \A q \in Requests : pc'[q] \in {"sync", "issue"}
               => pc[q] \in {"sync", "issue"} /\ job'[q].who = job[q].who
      PROVE  SessionInv'
  BY <1>a, SessionsKept
<1>1. ASSUME NEW r \in Requests,
             BeginLogin(r) \/ BeginRequest(r) \/ ReadTarget(r) \/ StoreFails(r)
      PROVE  SessionInv'
  <2>1. PICK step \in Steps \ {"sync", "issue"} :
          pc' = [pc EXCEPT ![r] = step] /\ \A q \in Requests \ {r} : job'[q] = job[q]
    BY <1>1 DEF BeginLogin, BeginRequest, ReadTarget, StoreFails, TypeOK, RequestsTypeOK, Steps
  <2>2. UNCHANGED <<users, sessions, removal>>
    BY <1>1 DEF BeginLogin, BeginRequest, ReadTarget, StoreFails
  <2>3. \A q \in Requests : pc'[q] \in {"sync", "issue"}
          => pc[q] \in {"sync", "issue"} /\ job'[q].who = job[q].who
    BY <2>1 DEF TypeOK, RequestsTypeOK
  <2>. QED
    BY <1>a, <2>2, <2>3
<1>2. ASSUME NEW r \in Requests, ReadEntry(r) PROVE SessionInv'
  <2>1. UNCHANGED <<users, sessions, removal>>
    BY <1>2 DEF ReadEntry
  <2>2. \A q \in Requests \ {r} : pc'[q] = pc[q] /\ job'[q] = job[q]
    BY <1>2 DEF ReadEntry, TypeOK, RequestsTypeOK
  <2>3. job'[r].who = job[r].who
    BY <1>0, <1>2 DEF ReadEntry, TypeOK, RequestsTypeOK, Request
  <2>4. pc'[r] \in {"sync", "issue"} => job[r].who \in DOMAIN users
    BY <1>2 DEF ReadEntry, TypeOK, RequestsTypeOK
  <2>. QED
    BY <2>1, <2>2, <2>3, <2>4 DEF SessionInv, SessionsOfListedPeople
<1>3. ASSUME NEW r \in Requests, SyncName(r) PROVE SessionInv'
  <2>1. DOMAIN users' = DOMAIN users \cup {job[r].who}
    BY <1>3 DEF SyncName, SetUsers, Put
  <2>2. \A q \in Requests : pc'[q] \in {"sync", "issue"}
          => pc[q] \in {"sync", "issue"} /\ job'[q].who = job[q].who
    BY <1>3 DEF SyncName, TypeOK, RequestsTypeOK
  <2>. QED
    BY <1>3, <1>a, <2>1, <2>2 DEF SyncName
<1>4. ASSUME NEW r \in Requests, IssueSession(r) PROVE SessionInv'
  <2>1. UNCHANGED <<users, job, removal>> /\ pc[r] = "issue"
    BY <1>4 DEF IssueSession
  <2>2. /\ DOMAIN sessions' = DOMAIN sessions \cup {r}
        /\ sessions'[r].who = job[r].who
        /\ \A c \in DOMAIN sessions \ {r} : sessions'[c] = sessions[c]
    BY <1>4 DEF IssueSession, Put
  <2>3. \A q \in Requests : pc'[q] \in {"sync", "issue"} => pc[q] \in {"sync", "issue"}
    BY <1>4 DEF IssueSession, TypeOK, RequestsTypeOK
  <2>. QED
    BY <2>1, <2>2, <2>3 DEF SessionInv, SessionsOfListedPeople
<1>5. ASSUME NEW r \in Requests, FindSession(r) \/ Logout(r) PROVE SessionInv'
  <2>1. \A c \in DOMAIN sessions' : c \in DOMAIN sessions /\ sessions'[c].who = sessions[c].who
    BY <1>5 DEF FindSession, Logout, Without, Restrict
  <2>2. PICK step \in {"role", "done"} :
          pc' = [pc EXCEPT ![r] = step] /\ \A q \in Requests \ {r} : job'[q] = job[q]
    BY <1>5 DEF FindSession, Logout, TypeOK, RequestsTypeOK
  <2>3. \A q \in Requests : pc'[q] \in {"sync", "issue"}
          => pc[q] \in {"sync", "issue"} /\ job'[q].who = job[q].who
    BY <2>2 DEF TypeOK, RequestsTypeOK
  <2>. QED
    BY <1>5, <2>1, <2>3, SessionsKept DEF FindSession, Logout
<1>6. ASSUME NEW r \in Requests, CheckRole(r) PROVE SessionInv'
  <2>1. Permitted(r, RoleIn(users, job[r].who)) \notin {"sync", "issue"}
    BY <1>0 DEF Permitted, Request
  <2>2. \A q \in Requests : pc'[q] \in {"sync", "issue"}
          => pc[q] \in {"sync", "issue"} /\ job'[q].who = job[q].who
    BY <1>6, <2>1 DEF CheckRole, TypeOK, RequestsTypeOK
  <2>. QED
    BY <1>6, <1>a, <2>2 DEF CheckRole
<1>7. ASSUME NEW r \in Requests, UpsertUser(r) PROVE SessionInv'
  <2>1. DOMAIN users' = DOMAIN users \cup {job[r].target}
    BY <1>7 DEF UpsertUser, Decide, SetUsers, Put
  <2>2. \A q \in Requests : pc'[q] \in {"sync", "issue"}
          => pc[q] \in {"sync", "issue"} /\ job'[q].who = job[q].who
    BY <1>7 DEF UpsertUser, TypeOK, RequestsTypeOK
  <2>. QED
    BY <1>7, <1>a, <2>1, <2>2 DEF UpsertUser
<1>8. ASSUME NEW r \in Requests, DeleteUser(r) PROVE SessionInv'
  <2>1. DOMAIN users' = DOMAIN users \ {job[r].target}
    BY <1>8 DEF DeleteUser, Decide, SetUsers, Without, Restrict
  <2>2. /\ unrevoked' = unrevoked \cup {job[r].target}
        /\ late' = late \cup
             {q \in Requests : pc[q] \in {"sync", "issue"} /\ job[q].who = job[r].target}
        /\ UNCHANGED <<sessions, job>>
    BY <1>8 DEF DeleteUser
  <2>3. \A q \in Requests : pc'[q] \in {"sync", "issue"} => pc[q] \in {"sync", "issue"}
    BY <1>8 DEF DeleteUser, TypeOK, RequestsTypeOK
  <2>. QED
    BY <2>1, <2>2, <2>3 DEF SessionInv, SessionsOfListedPeople
<1>9. ASSUME NEW r \in Requests, RevokeAllFor(r) PROVE SessionInv'
  <2>1. \A c \in DOMAIN sessions' :
          /\ c \in DOMAIN sessions /\ sessions'[c] = sessions[c]
          /\ sessions[c].who # job[r].target
    BY <1>9 DEF RevokeAllFor, Without, Restrict
  <2>2. unrevoked' = unrevoked \ {job[r].target} /\ UNCHANGED <<users, late, job>>
    BY <1>9 DEF RevokeAllFor
  <2>3. \A q \in Requests : pc'[q] \in {"sync", "issue"} => pc[q] \in {"sync", "issue"}
    BY <1>9 DEF RevokeAllFor, TypeOK, RequestsTypeOK
  <2>. QED
    BY <2>1, <2>2, <2>3 DEF SessionInv, SessionsOfListedPeople
<1>10. ASSUME NEW c \in DOMAIN sessions, Expire(c) PROVE SessionInv'
  <2>1. DOMAIN sessions' = DOMAIN sessions
    BY <1>10 DEF Expire
  <2>2. \A d \in DOMAIN sessions : sessions'[d].who = sessions[d].who
    BY <1>10 DEF Expire, TypeOK, TablesTypeOK, IsSessions
  <2>. QED
    BY <1>10, <2>1, <2>2, SessionsKept DEF Expire
<1>11. ASSUME Crash PROVE SessionInv'
  <2>1. \A q \in Requests : pc'[q] \in {"sync", "issue"} => pc[q] \in {"sync", "issue"}
    BY <1>11 DEF Crash, Active
  <2>. QED
    BY <1>11, <1>a, <2>1 DEF Crash
<1>12. ASSUME BootRead \/ BootCreate \/ BootRename \/ BootFails PROVE SessionInv'
  <2>1. DOMAIN users \subseteq DOMAIN users'
    BY <1>12 DEF BootRead, BootCreate, BootRename, BootFails, Decide, SetUsers, Put
  <2>2. UNCHANGED <<sessions, removal, pc, job>>
    BY <1>12 DEF BootRead, BootCreate, BootRename, BootFails
  <2>. QED
    BY <1>a, <2>1, <2>2
<1>13. ASSUME UNCHANGED vars PROVE SessionInv'
  BY <1>13, <1>a DEF vars
<1>. QED
  BY <1>1, <1>2, <1>3, <1>4, <1>5, <1>6, <1>7, <1>8, <1>9, <1>10, <1>11, <1>12, <1>13
  DEF Next, Proceed

\* Nobody has a session who is not on the list, but for those whose sessions
\* could not be dropped yet and for logins that overlapped a removal, for any
\* number of people and requests (SessionsOfListedPeople).
THEOREM SessionsAreListed == Spec => []SessionsOfListedPeople
<1>1. Init => SessionInv
  BY AllowListAssumption DEF Init, SessionInv, SessionsOfListedPeople
<1>2. SessionInv => SessionsOfListedPeople
  BY DEF SessionInv
<1>. QED
  BY <1>1, <1>2, SessionNext, ListTypeCorrect, PTL DEF Spec

-----------------------------------------------------------------------------
(* Only administrators manage the list.                                    *)

Managing == {"target", "write", "delete", "revoke"}

\* The role a request is about to check is among those noted for its person.
SinceInv ==
  /\ OnlyAdministratorsManage
  /\ \A r \in Requests : pc[r] = "role" => RoleIn(users, job[r].who) \in since[r]

\* A step of a request that is not being checked.
LEMMA SinceKept ==
  ASSUME SinceInv, TypeOK,
         \A q \in Requests : pc'[q] = "role" => pc[q] = "role" /\ job'[q].who = job[q].who,
         \A q \in Requests : pc'[q] \in Managing => pc[q] \in Managing,
         SetUsers(users') \/ /\ UNCHANGED users
                             /\ \A q \in Requests : pc'[q] \in Managing \cup {"role"} => since'[q] = since[q]
  PROVE  SinceInv'
<1>1. CASE SetUsers(users')
  <2>1. \A q \in Requests : since[q] \subseteq since'[q]
    BY <1>1 DEF SetUsers
  <2>2. \A q \in Requests : pc[q] = "role" => RoleIn(users', job[q].who) \in since'[q]
    BY <1>1 DEF SetUsers, Active
  <2>. QED
    BY <2>1, <2>2 DEF SinceInv, OnlyAdministratorsManage, Managing, RoleIn
<1>2. CASE /\ UNCHANGED users
           /\ \A q \in Requests : pc'[q] \in Managing \cup {"role"} => since'[q] = since[q]
  BY <1>2 DEF SinceInv, OnlyAdministratorsManage, Managing, RoleIn
<1>. QED
  BY <1>1, <1>2

LEMMA SinceNext == TypeOK /\ SinceInv /\ [Next]_vars => SinceInv'
<1>. SUFFICES ASSUME TypeOK, SinceInv, [Next]_vars PROVE SinceInv'
  OBVIOUS
<1>. USE DEF tables, bootVars, decisions, removal, GoTo
<1>1. ASSUME NEW r \in Requests,
             \/ BeginLogin(r) \/ ReadEntry(r) \/ IssueSession(r) \/ BeginRequest(r)
             \/ Logout(r) \/ ReadTarget(r) \/ RevokeAllFor(r) \/ StoreFails(r)
      PROVE  SinceInv'
  <2>1. PICK step \in Steps \ {"role"} :
          /\ pc' = [pc EXCEPT ![r] = step]
          /\ step \in Managing => pc[r] \in Managing
          /\ \A q \in Requests \ {r} : job'[q] = job[q] /\ since'[q] = since[q]
    BY <1>1 DEF BeginLogin, ReadEntry, IssueSession, BeginRequest, Logout, ReadTarget,
                RevokeAllFor, StoreFails, TypeOK, RequestsTypeOK, DecisionsTypeOK, Steps, Managing
  <2>2. UNCHANGED users /\ (pc'[r] \in Managing \cup {"role"} => since'[r] = since[r])
    BY <1>1, <2>1 DEF BeginLogin, ReadEntry, IssueSession, BeginRequest, Logout, ReadTarget,
                RevokeAllFor, StoreFails, TypeOK, RequestsTypeOK, Managing
  <2>3. \A q \in Requests : /\ pc'[q] = "role" => pc[q] = "role" /\ job'[q].who = job[q].who
                            /\ pc'[q] \in Managing => pc[q] \in Managing
    BY <2>1 DEF TypeOK, RequestsTypeOK
  <2>. QED
    BY <2>1, <2>2, <2>3, SinceKept
<1>2. ASSUME NEW r \in Requests, SyncName(r) \/ UpsertUser(r) \/ DeleteUser(r) PROVE SinceInv'
  <2>1. SetUsers(users') /\ UNCHANGED job
    BY <1>2 DEF SyncName, UpsertUser, DeleteUser, Decide, SetUsers
  <2>2. \A q \in Requests : /\ pc'[q] = "role" => pc[q] = "role"
                            /\ pc'[q] \in Managing => pc[q] \in Managing
    BY <1>2 DEF SyncName, UpsertUser, DeleteUser, TypeOK, RequestsTypeOK, Managing
  <2>. QED
    BY <2>1, <2>2, SinceKept
<1>3. ASSUME NEW r \in Requests, FindSession(r) PROVE SinceInv'
  <2>. DEFINE valid == {c \in job[r].cookie \cap DOMAIN sessions : sessions[c].live}
  <2>1. UNCHANGED users
    BY <1>3 DEF FindSession
  <2>2. CASE valid = {}
    <3>1. UNCHANGED <<job, since>> /\ pc' = [pc EXCEPT ![r] = "done"]
      BY <1>3, <2>2 DEF FindSession
    <3>2. \A q \in Requests : /\ pc'[q] = "role" => pc[q] = "role"
                              /\ pc'[q] \in Managing => pc[q] \in Managing
      BY <3>1 DEF TypeOK, RequestsTypeOK, Managing
    <3>. QED
      BY <2>1, <3>1, <3>2, SinceKept
  <2>3. CASE valid # {}
    <3>1. PICK c \in valid :
            /\ job' = [job EXCEPT ![r].who = sessions[c].who]
            /\ since' = [since EXCEPT ![r] = {RoleIn(users, sessions[c].who)}]
            /\ pc' = [pc EXCEPT ![r] = "role"]
      BY <1>3, <2>3 DEF FindSession
    <3>2. job'[r].who = sessions[c].who /\ since'[r] = {RoleIn(users, sessions[c].who)}
          /\ pc'[r] = "role"
      BY <3>1 DEF TypeOK, RequestsTypeOK, DecisionsTypeOK, Request
    <3>3. \A q \in Requests \ {r} : pc'[q] = pc[q] /\ job'[q] = job[q] /\ since'[q] = since[q]
      BY <3>1 DEF TypeOK, RequestsTypeOK, DecisionsTypeOK
    <3>4. OnlyAdministratorsManage'
      BY <3>2, <3>3 DEF SinceInv, OnlyAdministratorsManage
    <3>5. ASSUME NEW q \in Requests, pc'[q] = "role"
          PROVE  RoleIn(users', job'[q].who) \in since'[q]
      BY <2>1, <3>2, <3>3, <3>5 DEF SinceInv, RoleIn
    <3>. QED
      BY <3>4, <3>5 DEF SinceInv
  <2>. QED
    BY <2>2, <2>3
<1>4. ASSUME NEW r \in Requests, CheckRole(r) PROVE SinceInv'
  <2>. DEFINE role == RoleIn(users, job[r].who)
  <2>1. role \in since[r]
    BY <1>4 DEF CheckRole, SinceInv
  <2>2. Permitted(r, role) \in Managing \cup {"role"} => role = "admin"
    BY DEF Permitted, Managing, TypeOK, RequestsTypeOK, Request
  <2>3. Permitted(r, role) # "role"
    BY DEF Permitted, TypeOK, RequestsTypeOK, Request
  <2>4. pc' = [pc EXCEPT ![r] = Permitted(r, role)] /\ UNCHANGED <<users, job, since>>
    BY <1>4 DEF CheckRole
  <2>. HIDE DEF role
  <2>. QED
    BY <2>1, <2>2, <2>3, <2>4
    DEF SinceInv, OnlyAdministratorsManage, Managing, RoleIn, TypeOK, RequestsTypeOK
<1>5. ASSUME NEW c \in DOMAIN sessions, Expire(c) PROVE SinceInv'
  BY <1>5, SinceKept DEF Expire
<1>6. ASSUME Crash PROVE SinceInv'
  <2>1. \A q \in Requests : /\ pc'[q] = "role" => pc[q] = "role"
                            /\ pc'[q] \in Managing => pc[q] \in Managing
    BY <1>6 DEF Crash, Active, Managing
  <2>. QED
    BY <1>6, <2>1, SinceKept DEF Crash
<1>7. ASSUME BootRead \/ BootFails PROVE SinceInv'
  BY <1>7, SinceKept DEF BootRead, BootFails
<1>8. ASSUME BootCreate \/ BootRename PROVE SinceInv'
  <2>1. SetUsers(users') /\ UNCHANGED <<pc, job>>
    BY <1>8 DEF BootCreate, BootRename, Decide, SetUsers
  <2>. QED
    BY <2>1, SinceKept
<1>9. ASSUME UNCHANGED vars PROVE SinceInv'
  BY <1>9, SinceKept DEF vars
<1>. QED
  BY <1>1, <1>2, <1>3, <1>4, <1>5, <1>6, <1>7, <1>8, <1>9 DEF Next, Proceed

\* A request that changes the list is of somebody who was an administrator
\* after it began, for any number of people and requests
\* (OnlyAdministratorsManage).
THEOREM AdministratorsManage == Spec => []OnlyAdministratorsManage
<1>1. Init => SinceInv
  BY DEF Init, SinceInv, OnlyAdministratorsManage
<1>2. SinceInv => OnlyAdministratorsManage
  BY DEF SinceInv
<1>. QED
  BY <1>1, <1>2, SinceNext, ListTypeCorrect, PTL DEF Spec

-----------------------------------------------------------------------------
(* An administrator remains.                                               *)

\* Nobody removes themselves.
OthersInv == \A r \in Requests : pc[r] = "delete" => job[r].target # job[r].who

LEMMA OthersNext == TypeOK /\ OthersInv /\ [Next]_vars => OthersInv'
<1>. SUFFICES ASSUME TypeOK, OthersInv, [Next]_vars PROVE OthersInv'
  OBVIOUS
<1>. USE DEF GoTo
<1>a. ASSUME \A q \in Requests : pc'[q] = "delete" => pc[q] = "delete" /\ job'[q] = job[q]
      PROVE  OthersInv'
  BY <1>a DEF OthersInv
<1>1. ASSUME NEW r \in Requests,
             \/ BeginLogin(r) \/ ReadEntry(r) \/ SyncName(r) \/ IssueSession(r) \/ BeginRequest(r)
             \/ FindSession(r) \/ Logout(r) \/ ReadTarget(r) \/ UpsertUser(r) \/ DeleteUser(r)
             \/ RevokeAllFor(r) \/ StoreFails(r)
      PROVE  OthersInv'
  <2>1. PICK step \in Steps \ {"delete"} :
          pc' = [pc EXCEPT ![r] = step] /\ \A q \in Requests \ {r} : job'[q] = job[q]
    BY <1>1 DEF BeginLogin, ReadEntry, SyncName, IssueSession, BeginRequest, FindSession, Logout,
                ReadTarget, UpsertUser, DeleteUser, RevokeAllFor, StoreFails, TypeOK,
                RequestsTypeOK, Steps
  <2>. QED
    BY <1>a, <2>1 DEF TypeOK, RequestsTypeOK
<1>2. ASSUME NEW r \in Requests, CheckRole(r) PROVE OthersInv'
  <2>. DEFINE step == Permitted(r, RoleIn(users, job[r].who))
  <2>1. pc' = [pc EXCEPT ![r] = step] /\ UNCHANGED job
    BY <1>2 DEF CheckRole
  <2>2. step = "delete" => job[r].target # job[r].who
    BY DEF Permitted
  <2>. HIDE DEF step
  <2>. QED
    BY <2>1, <2>2 DEF OthersInv, TypeOK, RequestsTypeOK
<1>3. CASE Crash
  BY <1>3, <1>a DEF Crash, Active
<1>4. CASE \/ \E c \in DOMAIN sessions : Expire(c)
           \/ BootRead \/ BootCreate \/ BootRename \/ BootFails
  BY <1>4, <1>a DEF Expire, BootRead, BootCreate, BootRename, BootFails
<1>5. CASE UNCHANGED vars
  BY <1>5, <1>a DEF vars
<1>. QED
  BY <1>1, <1>2, <1>3, <1>4, <1>5 DEF Next, Proceed

LEMMA AdminRole ==
  ASSUME NEW list, NEW p
  PROVE  p \in AdminsIn(list) <=> RoleIn(list, p) = "admin"
BY DEF AdminsIn, RoleIn, NotListed

\* An entry of q that is written back takes no role from an administrator,
\* unless it is out of date.
LEMMA WriteBackKeepsAdmin ==
  ASSUME TypeOK, ListInv, NEW q \in People, NEW entry, users' = Put(users, q, entry),
         q \notin overlapped => <<entry.role, entry.by>> = decided[q],
         NEW p \in AdminsIn(users), AdminsIn(users') = {}
  PROVE  p \in overlapped
<1>1. RoleIn(users, p) = "admin" /\ RoleIn(users', p) # "admin"
  BY AdminRole
<1>2. q = p /\ entry.role # "admin"
  BY <1>1, PutDecision
<1>3. p \notin overlapped => Decision(users, p) = decided[p]
  BY <1>2 DEF ListInv, ListFollowsDecisions
<1>4. Decision(users, p) = <<"admin", users[p].by>>
  BY <1>1 DEF RoleIn, Decision, NotListed
<1>. QED
  BY <1>2, <1>3, <1>4

\* The last administrator is lost only in the three ways that
\* AdministratorsRemain names, for any number of people and requests.
THEOREM SomebodyAdministers == Spec => AdministratorsRemain
<1>1. Init => ListInv /\ OthersInv
  BY DEF Init, ListInv, ListFollowsDecisions, SnapshotsFollow, OthersInv
<1>2. ASSUME TypeOK, ListInv, OthersInv, [Next]_vars, NEW p \in AdminsIn(users),
             AdminsIn(users') = {}
      PROVE  \/ p \in DOMAIN users' /\ users'[p].by = p
             \/ \E r \in Requests : /\ pc[r] \in {"write", "delete"} /\ pc'[r] # pc[r]
                                    /\ job[r].who \notin AdminsIn(users)
             \/ decided' = decided /\ p \in overlapped
  <2>. USE DEF tables, bootVars, decisions, removal
  <2>0. ASSUME NEW r \in Requests
        PROVE  job[r] \in Request /\ pc[r] \in Steps
    BY <1>2 DEF TypeOK, RequestsTypeOK
  <2>1. ASSUME UNCHANGED users PROVE FALSE
    BY <1>2, <2>1
  <2>2. ASSUME NEW r \in Requests, SyncName(r) PROVE decided' = decided /\ p \in overlapped
    <3>. DEFINE entry == [job[r].entry EXCEPT !.name = job[r].name]
    <3>1. /\ users' = Put(users, job[r].who, entry) /\ decided' = decided
          /\ job[r].who \in People
          /\ entry.role = job[r].entry.role /\ entry.by = job[r].entry.by
      BY <2>0, <2>2 DEF SyncName, SetUsers, Request, Entry
    <3>2. job[r].who \notin overlapped => <<entry.role, entry.by>> = decided[job[r].who]
      BY <1>2, <2>2, <3>1 DEF SyncName, ListInv, SnapshotsFollow
    <3>. HIDE DEF entry
    <3>. QED
      BY <1>2, <3>1, <3>2, WriteBackKeepsAdmin
  <2>3. ASSUME NEW r \in Requests, UpsertUser(r)
        PROVE  \/ p \in DOMAIN users' /\ users'[p].by = p
               \/ /\ pc[r] \in {"write", "delete"} /\ pc'[r] # pc[r]
                  /\ job[r].who \notin AdminsIn(users)
    <3>. DEFINE target == job[r].target
                entry == [role |-> job[r].role, name |-> job[r].name, by |-> job[r].who]
    <3>1. users' = Put(users, target, entry) /\ pc[r] = "write" /\ pc'[r] = "done"
      BY <1>2, <2>3 DEF UpsertUser, Decide, SetUsers, GoTo, TypeOK, RequestsTypeOK
    <3>2. target \in DOMAIN users' /\ users'[target].by = job[r].who
      BY <3>1 DEF Put
    <3>3. \A q : q \in AdminsIn(users) => q = target
      BY <1>2, <3>1, AdminRole, PutDecision
    <3>. QED
      BY <1>2, <3>1, <3>2, <3>3
  <2>4. ASSUME NEW r \in Requests, DeleteUser(r)
        PROVE  /\ pc[r] \in {"write", "delete"} /\ pc'[r] # pc[r]
               /\ job[r].who \notin AdminsIn(users)
    <3>1. /\ users' = Without(users, {job[r].target})
          /\ pc[r] = "delete" /\ pc'[r] \in {"revoke", "done"}
      BY <1>2, <2>4 DEF DeleteUser, Decide, SetUsers, GoTo, TypeOK, RequestsTypeOK
    <3>2. job[r].who # job[r].target
      BY <1>2, <3>1 DEF OthersInv
    <3>3. job[r].who \in AdminsIn(users) => job[r].who \in AdminsIn(users')
      BY <3>1, <3>2 DEF AdminsIn, Without, Restrict
    <3>. QED
      BY <1>2, <3>1, <3>3
  <2>5. ASSUME BootCreate PROVE FALSE
    <3>1. users' = Put(users, BootstrapAdmin, [role |-> "admin", name |-> NoName, by |-> Bootstrap])
      BY <2>5 DEF BootCreate, Decide, SetUsers
    <3>2. BootstrapAdmin \in AdminsIn(users')
      BY <3>1, AdminRole, PutDecision
    <3>. QED
      BY <1>2, <3>2
  <2>6. ASSUME BootRename PROVE decided' = decided /\ p \in overlapped
    <3>. DEFINE entry == [snapshot EXCEPT !.name = NoName]
    <3>1. /\ users' = Put(users, BootstrapAdmin, entry) /\ decided' = decided
          /\ entry.role = snapshot.role /\ entry.by = snapshot.by
      BY <1>2, <2>6 DEF BootRename, SetUsers, Entry, TypeOK, BootTypeOK
    <3>2. BootstrapAdmin \notin overlapped => <<entry.role, entry.by>> = decided[BootstrapAdmin]
      BY <1>2, <2>6, <3>1 DEF BootRename, ListInv, SnapshotsFollow
    <3>. HIDE DEF entry
    <3>. QED
      BY <1>2, <3>1, <3>2, WriteBackKeepsAdmin, AllowListAssumption
  <2>7. ASSUME NEW r \in Requests,
               \/ BeginLogin(r) \/ ReadEntry(r) \/ IssueSession(r) \/ BeginRequest(r)
               \/ FindSession(r) \/ CheckRole(r) \/ Logout(r) \/ ReadTarget(r)
               \/ RevokeAllFor(r) \/ StoreFails(r)
        PROVE  FALSE
    BY <2>1, <2>7 DEF BeginLogin, ReadEntry, IssueSession, BeginRequest, FindSession, CheckRole,
                      Logout, ReadTarget, RevokeAllFor, StoreFails
  <2>8. ASSUME \/ \E c \in DOMAIN sessions : Expire(c)
               \/ Crash \/ BootRead \/ BootFails \/ UNCHANGED vars
        PROVE  FALSE
    BY <2>1, <2>8 DEF Expire, Crash, BootRead, BootFails, vars
  <2>. QED
    BY <1>2, <2>2, <2>3, <2>4, <2>5, <2>6, <2>7, <2>8 DEF Next, Proceed
<1>3. TypeOK /\ ListInv /\ OthersInv /\ [Next]_vars =>
        [\A p \in AdminsIn(users) : AdminsIn(users') = {} =>
           \/ p \in DOMAIN users' /\ users'[p].by = p
           \/ \E r \in Requests :
                pc[r] \in {"write", "delete"} /\ pc'[r] # pc[r] /\ job[r].who \notin AdminsIn(users)
           \/ decided' = decided /\ p \in overlapped]_vars
  BY <1>2
<1>. QED
  BY <1>1, <1>3, ListNext, OthersNext, ListTypeCorrect, PTL DEF Spec, AdministratorsRemain

=============================================================================
