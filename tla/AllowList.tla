------------------------------ MODULE AllowList ------------------------------
(***************************************************************************)
(* Who may use the CMS: the users table, the sessions table, and the       *)
(* requests that change them - logging in and out, and an administrator    *)
(* adding, changing and removing people.  Each call on the store is a step *)
(* of its own: it may fail before or after it took effect, and requests    *)
(* interleave with each other, with crashes, and with a new instance of    *)
(* the server that starts and looks after its bootstrap administrator.     *)
(*                                                                         *)
(* A session is identified by the login that issued it.  Signatures,       *)
(* cookies and CSRF tokens are taken to be right.                          *)
(***************************************************************************)
EXTENDS FiniteSets, Functions

CONSTANTS
  People,
  Names,            \* display names of Discord
  NoName,           \* the empty display name
  Placeholder,      \* the name older versions gave to the bootstrap administrator
  BootstrapAdmin,   \* BOOTSTRAP_ADMIN_DISCORD_ID
  Bootstrap,        \* who is on record as having added that person
  Requests,         \* requests, each made once
  FirstUsers,       \* what an earlier life of the server left in the tables
  FirstSessions

Role == {"creator", "admin"}
NotListed == "not listed"
Entry == [role : Role, name : Names \cup {NoName, Placeholder}, by : People \cup {Bootstrap}]

ASSUME AllowListAssumption ==
  /\ BootstrapAdmin \in People
  /\ FirstUsers \in [DOMAIN FirstUsers -> Entry]
  /\ DOMAIN FirstUsers \subseteq People
  /\ FirstSessions \in [DOMAIN FirstSessions -> [who : DOMAIN FirstUsers, live : BOOLEAN]]
  /\ DOMAIN FirstSessions \cap Requests = {}

VARIABLES
  users,            \* the allow list
  sessions,         \* the sessions table: login -> who it is of, and whether it is unexpired
  cookies,          \* the logins whose cookie a browser holds
  pc,
  job,              \* the local variables of the requests
  boot,             \* how far a starting instance is
  snapshot,         \* the entry it read
  decided,          \* auxiliary: the last decision on each person
  overlapped,       \* auxiliary: the people decided on while a snapshot of their entry was about
  unrevoked,        \* auxiliary: the people removed whose sessions are still to be dropped
  late,             \* auxiliary: the logins that read the list before the person was removed
  since             \* auxiliary: the roles the person behind a request has had since it began

tables == <<users, sessions>>
bootVars == <<boot, snapshot>>
removal == <<unrevoked, late>>
decisions == <<decided, overlapped, since>>
vars == <<tables, cookies, pc, job, bootVars, decisions, removal>>

Put(f, x, y) == [z \in DOMAIN f \cup {x} |-> IF z = x THEN y ELSE f[z]]
Without(f, S) == Restrict(f, DOMAIN f \ S)

RoleIn(list, p) == IF p \in DOMAIN list THEN list[p].role ELSE NotListed

NoEntry == [role |-> "creator", name |-> NoName, by |-> Bootstrap]
NoRequest == [who |-> BootstrapAdmin, what |-> "login", target |-> BootstrapAdmin,
              role |-> "creator", name |-> NoName, cookie |-> {}, entry |-> NoEntry]

Decision(list, p) == IF p \in DOMAIN list THEN <<list[p].role, list[p].by>> ELSE <<NotListed>>

Init ==
  /\ users = FirstUsers
  /\ sessions = FirstSessions
  /\ cookies = DOMAIN FirstSessions
  /\ pc = [r \in Requests |-> "idle"]
  /\ job = [r \in Requests |-> NoRequest]
  /\ boot = "up"
  /\ snapshot = NoEntry
  /\ decided = [p \in People |-> Decision(FirstUsers, p)]
  /\ overlapped = {}
  /\ unrevoked = {}
  /\ late = {}
  /\ since = [r \in Requests |-> {}]

GoTo(r, step) == pc' = [pc EXCEPT ![r] = step]
Active(r) == pc[r] \notin {"idle", "done"}

\* The list becomes new.
SetUsers(new) ==
  /\ users' = new
  /\ since' = [r \in Requests |->
       IF Active(r) THEN since[r] \cup {RoleIn(new, job[r].who)} ELSE since[r]]

\* An entry of p that somebody read and is going to write back.
SnapshotOf(p) ==
  \/ \E r \in Requests : pc[r] = "sync" /\ job[r].who = p
  \/ boot = "rename" /\ p = BootstrapAdmin

\* The list becomes new by a decision on p.
Decide(p, new) ==
  /\ SetUsers(new)
  /\ decided' = [decided EXCEPT ![p] = Decision(new, p)]
  /\ overlapped' = IF SnapshotOf(p) THEN overlapped \cup {p} ELSE overlapped \ {p}

-----------------------------------------------------------------------------
(* Logging in.                                                             *)

\* Discord says who it is and under which name.
BeginLogin(r) ==
  /\ pc[r] = "idle"
  /\ \E who \in People, name \in Names \cup {NoName} :
       /\ job' = [job EXCEPT ![r] = [NoRequest EXCEPT !.who = who, !.name = name]]
       /\ since' = [since EXCEPT ![r] = {RoleIn(users, who)}]
  /\ GoTo(r, "allow")
  /\ UNCHANGED <<tables, cookies, bootVars, decided, overlapped, removal>>

ReadEntry(r) ==
  /\ pc[r] = "allow"
  /\ IF job[r].who \notin DOMAIN users
     THEN GoTo(r, "done") /\ UNCHANGED job
     ELSE LET entry == users[job[r].who] IN
          /\ job' = [job EXCEPT ![r].entry = entry]
          /\ GoTo(r, IF job[r].name \in {NoName, entry.name} THEN "issue" ELSE "sync")
  /\ UNCHANGED <<tables, cookies, bootVars, decisions, removal>>

\* (Mutant: the entry is made anew from what Discord says.)
SyncNameAnew(r) ==
  /\ pc[r] = "sync"
  /\ SetUsers(Put(users, job[r].who, [NoEntry EXCEPT !.name = job[r].name]))
  /\ GoTo(r, "issue") \/ GoTo(r, "done")
  /\ UNCHANGED <<sessions, cookies, job, bootVars, decided, overlapped, removal>>

\* The entry that was read is written back with the new name.
SyncName(r) ==
  /\ pc[r] = "sync"
  /\ SetUsers(Put(users, job[r].who, [job[r].entry EXCEPT !.name = job[r].name]))
  /\ GoTo(r, "issue") \/ GoTo(r, "done")
  /\ UNCHANGED <<sessions, cookies, job, bootVars, decided, overlapped, removal>>

\* Without the answer of the store the browser gets no cookie.
IssueSession(r) ==
  /\ pc[r] = "issue"
  /\ sessions' = Put(sessions, r, [who |-> job[r].who, live |-> TRUE])
  /\ cookies' = cookies \cup {r} \/ UNCHANGED cookies
  /\ GoTo(r, "done")
  /\ UNCHANGED <<users, job, bootVars, decisions, removal>>

-----------------------------------------------------------------------------
(* What needs a session: logging out, and an administrator's changes.      *)

BeginRequest(r) ==
  /\ pc[r] = "idle"
  /\ \E c \in cookies, what \in {"logout", "upsert", "delete"}, target \in People, role \in Role :
       /\ what = "logout" => target = BootstrapAdmin
       /\ what # "upsert" => role = "creator"
       /\ job' = [job EXCEPT ![r] =
            [NoRequest EXCEPT !.what = what, !.target = target, !.role = role, !.cookie = {c}]]
       /\ GoTo(r, "session")
  /\ UNCHANGED <<tables, cookies, bootVars, decisions, removal>>

\* A session is dropped when it is found to have expired, if the store lets it.
FindSession(r) ==
  /\ pc[r] = "session"
  /\ LET valid == {c \in job[r].cookie \cap DOMAIN sessions : sessions[c].live} IN
     IF valid = {}
     THEN /\ sessions' = Without(sessions, job[r].cookie) \/ UNCHANGED sessions
          /\ GoTo(r, "done")
          /\ UNCHANGED <<job, since>>
     ELSE \E c \in valid :
          /\ job' = [job EXCEPT ![r].who = sessions[c].who]
          /\ since' = [since EXCEPT ![r] = {RoleIn(users, sessions[c].who)}]
          /\ GoTo(r, "role")
          /\ UNCHANGED sessions
  /\ UNCHANGED <<users, cookies, bootVars, decided, overlapped, removal>>

\* (Mutant: administrators may remove themselves.)
PermittedAnyTarget(r, role) ==
  IF job[r].what = "logout" THEN "logout"
  ELSE IF role # "admin" THEN "done"
  ELSE IF job[r].what = "upsert" THEN "target" ELSE "delete"

\* Where a request goes on, given its person's role.
Permitted(r, role) ==
  IF job[r].what = "logout" THEN "logout"
  ELSE IF role # "admin" THEN "done"
  ELSE IF job[r].what = "upsert" THEN "target"
  ELSE IF job[r].target = job[r].who THEN "done" ELSE "delete"

\* (Mutant: whoever is on the list may manage it.)
CheckListed(r) ==
  /\ pc[r] = "role"
  /\ GoTo(r, Permitted(r, IF RoleIn(users, job[r].who) = NotListed THEN NotListed ELSE "admin"))
  /\ UNCHANGED <<tables, cookies, job, bootVars, decisions, removal>>

CheckRole(r) ==
  /\ pc[r] = "role"
  /\ GoTo(r, Permitted(r, RoleIn(users, job[r].who)))
  /\ UNCHANGED <<tables, cookies, job, bootVars, decisions, removal>>

\* The cookie is cleared when the row is gone.
Logout(r) ==
  /\ pc[r] = "logout"
  /\ sessions' = Without(sessions, job[r].cookie)
  /\ cookies' = cookies \ job[r].cookie \/ UNCHANGED cookies
  /\ GoTo(r, "done")
  /\ UNCHANGED <<users, job, bootVars, decisions, removal>>

ReadTarget(r) ==
  /\ pc[r] = "target"
  /\ job' = [job EXCEPT ![r].name =
       IF job[r].target \in DOMAIN users THEN users[job[r].target].name ELSE NoName]
  /\ GoTo(r, "write")
  /\ UNCHANGED <<tables, cookies, bootVars, decisions, removal>>

UpsertUser(r) ==
  /\ pc[r] = "write"
  /\ Decide(job[r].target, Put(users, job[r].target,
       [role |-> job[r].role, name |-> job[r].name, by |-> job[r].who]))
  /\ GoTo(r, "done")
  /\ UNCHANGED <<sessions, cookies, job, bootVars, removal>>

\* (Mutant: the entry stays, with its role blanked.)
BlankUser(r) ==
  /\ pc[r] = "delete"
  /\ Decide(job[r].target, Put(users, job[r].target,
       [role |-> NotListed, name |-> NoName, by |-> job[r].who]))
  /\ GoTo(r, "revoke")
  /\ UNCHANGED <<sessions, cookies, job, bootVars, removal>>

\* Without the answer of the store the sessions are left alone.
DeleteUser(r) ==
  /\ pc[r] = "delete"
  /\ Decide(job[r].target, Without(users, {job[r].target}))
  /\ unrevoked' = unrevoked \cup {job[r].target}
  /\ late' = late \cup
       {q \in Requests : pc[q] \in {"sync", "issue"} /\ job[q].who = job[r].target}
  /\ GoTo(r, "revoke") \/ GoTo(r, "done")
  /\ UNCHANGED <<sessions, cookies, job, bootVars>>

\* (Mutant: the administrator's own sessions are dropped.)
RevokeOwn(r) ==
  /\ pc[r] = "revoke"
  /\ sessions' = Without(sessions, {c \in DOMAIN sessions : sessions[c].who = job[r].who})
  /\ unrevoked' = unrevoked \ {job[r].target}
  /\ GoTo(r, "done")
  /\ UNCHANGED <<users, cookies, job, bootVars, decisions, late>>

\* A failure is logged; see StoreFails.
RevokeAllFor(r) ==
  /\ pc[r] = "revoke"
  /\ sessions' = Without(sessions, {c \in DOMAIN sessions : sessions[c].who = job[r].target})
  /\ unrevoked' = unrevoked \ {job[r].target}
  /\ GoTo(r, "done")
  /\ UNCHANGED <<users, cookies, job, bootVars, decisions, late>>

\* A call on the store fails without effect, and the request with it.
StoreFails(r) ==
  /\ Active(r)
  /\ GoTo(r, "done")
  /\ UNCHANGED <<tables, cookies, job, bootVars, decisions, removal>>

-----------------------------------------------------------------------------
(* Time, crashes and starts.                                               *)

Expire(c) ==
  /\ sessions[c].live
  /\ sessions' = [sessions EXCEPT ![c].live = FALSE]
  /\ UNCHANGED <<users, cookies, pc, job, bootVars, decisions, removal>>

Crash ==
  /\ \E r \in Requests : Active(r)
  /\ pc' = [r \in Requests |-> IF Active(r) THEN "done" ELSE pc[r]]
  /\ UNCHANGED <<tables, cookies, job, bootVars, decisions, removal>>

\* A new instance starts; the old one serves requests until it is ready.
BootRead ==
  /\ boot = "up"
  /\ IF BootstrapAdmin \notin DOMAIN users
     THEN boot' = "create" /\ UNCHANGED snapshot
     ELSE /\ users[BootstrapAdmin].by = Bootstrap /\ users[BootstrapAdmin].name = Placeholder
          /\ boot' = "rename"
          /\ snapshot' = users[BootstrapAdmin]
  /\ UNCHANGED <<tables, cookies, pc, job, decisions, removal>>

BootCreate ==
  /\ boot = "create"
  /\ Decide(BootstrapAdmin,
            Put(users, BootstrapAdmin, [role |-> "admin", name |-> NoName, by |-> Bootstrap]))
  /\ boot' = "up"
  /\ UNCHANGED <<sessions, cookies, pc, job, snapshot, removal>>

BootRename ==
  /\ boot = "rename"
  /\ SetUsers(Put(users, BootstrapAdmin, [snapshot EXCEPT !.name = NoName]))
  /\ boot' = "up"
  /\ UNCHANGED <<sessions, cookies, pc, job, snapshot, decided, overlapped, removal>>

\* The instance gives up at a failing call, and is started again.
BootFails ==
  /\ boot # "up"
  /\ boot' = "up"
  /\ UNCHANGED <<tables, cookies, pc, job, snapshot, decisions, removal>>

Proceed(r) ==
  \/ BeginLogin(r) \/ ReadEntry(r) \/ SyncName(r) \/ IssueSession(r)
  \/ BeginRequest(r) \/ FindSession(r) \/ CheckRole(r) \/ Logout(r)
  \/ ReadTarget(r) \/ UpsertUser(r) \/ DeleteUser(r) \/ RevokeAllFor(r)
  \/ StoreFails(r)

Next ==
  \/ \E r \in Requests : Proceed(r)
  \/ \E c \in DOMAIN sessions : Expire(c)
  \/ Crash
  \/ BootRead \/ BootCreate \/ BootRename \/ BootFails

Spec == Init /\ [][Next]_vars

-----------------------------------------------------------------------------
(* Properties.                                                             *)

Steps == {"idle", "allow", "sync", "issue", "session", "role", "logout", "target", "write",
          "delete", "revoke", "done"}

Logins == DOMAIN FirstSessions \cup Requests

Request == [who : People, what : {"login", "logout", "upsert", "delete"}, target : People,
            role : Role, name : Names \cup {NoName, Placeholder},
            cookie : SUBSET Logins, entry : Entry]

IsUsers(list) == list \in [DOMAIN list -> Entry] /\ DOMAIN list \subseteq People
IsSessions(ss) ==
  /\ ss \in [DOMAIN ss -> [who : People, live : BOOLEAN]]
  /\ DOMAIN ss \subseteq Logins

TablesTypeOK == IsUsers(users) /\ IsSessions(sessions) /\ cookies \subseteq Logins

RequestsTypeOK == pc \in [Requests -> Steps] /\ job \in [Requests -> Request]

BootTypeOK == boot \in {"up", "create", "rename"} /\ snapshot \in Entry

DecisionsTypeOK ==
  /\ decided \in [People -> (Role \X (People \cup {Bootstrap})) \cup {<<NotListed>>}]
  /\ overlapped \subseteq People
  /\ since \in [Requests -> SUBSET (Role \cup {NotListed})]

RemovalTypeOK == unrevoked \subseteq People /\ late \subseteq Requests

\* The tables, the browsers and the requests have their types.
TypeOK == TablesTypeOK /\ RequestsTypeOK /\ BootTypeOK /\ DecisionsTypeOK /\ RemovalTypeOK

\* The list says what was last decided on each person - the role and who gave
\* it, or that the person was removed - whatever logins and starts come
\* between, unless the decision fell between the read of the person's entry
\* and its write with another name.  A start that found no bootstrap
\* administrator decides anew when it creates one (allowLogin,
\* handlers.go:90-112; handleUpsertUser and handleDeleteUser,
\* handlers.go:701-757; run, main.go:56-77).
ListFollowsDecisions == \A p \in People \ overlapped : Decision(users, p) = decided[p]

\* Only people on the list have a session, apart from those of somebody
\* removed whose sessions could not be dropped, and of a login that read the
\* list before the removal (allowLogin before Issue, handlers.go:74-78;
\* RevokeAllFor after DeleteUser, handlers.go:747-753).
SessionsOfListedPeople ==
  \A c \in DOMAIN sessions : sessions[c].who \in DOMAIN users \cup unrevoked \/ c \in late

\* A request changes the list only for somebody who was an administrator
\* after the request began, whatever role the person had when logging in
\* (authenticated reads the entry on every request, middleware.go:41-48).
OnlyAdministratorsManage ==
  \A r \in Requests : pc[r] \in {"target", "write", "delete", "revoke"} => "admin" \in since[r]

AdminsIn(list) == {p \in DOMAIN list : list[p].role = "admin"}

\* The list loses its last administrator only when they give up the role
\* themselves, when two requests meet and the one that writes is of somebody
\* who has lost the role since it was checked, or when a login or a start
\* writes back an entry that is out of date: nobody who removes others can
\* leave the list without an administrator (handleDeleteUser,
\* handlers.go:742-749, behind requireAdmin, middleware.go:53-71).
AdministratorsRemain ==
  [][\A p \in AdminsIn(users) : AdminsIn(users') = {} =>
       \/ p \in DOMAIN users' /\ users'[p].by = p
       \/ \E r \in Requests :
            pc[r] \in {"write", "delete"} /\ pc'[r] # pc[r] /\ job[r].who \notin AdminsIn(users)
       \/ decided' = decided /\ p \in overlapped]_vars

-----------------------------------------------------------------------------
(* What the documentation says and the interleavings refute.               *)

\* "Access is withdrawn immediately, including from browsers already open"
\* (handlers.go:750): somebody who was removed is not on the list.
RemovalSticks == \A p \in People : decided[p] = <<NotListed>> => p \notin DOMAIN users

=============================================================================
