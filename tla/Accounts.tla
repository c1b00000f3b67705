------------------------------- MODULE Accounts ------------------------------
(***************************************************************************)
(* Users and their sessions: login, logout, change of password             *)
(* (app/api/auth), and what an admin does to other users (app/api/admin).  *)
(*                                                                         *)
(* A handler that reads a body is authorised before it waits for it, and   *)
(* acts on what it finds afterwards; the others run at once.  Admins may   *)
(* work against each other, and sessions must end with the password they   *)
(* were opened with.                                                       *)
(*                                                                         *)
(* The statements of a handler commit one by one.  No other handler runs   *)
(* between them, but the process may die there, or a statement may find    *)
(* the database busy and throw: the first statements stay, the others are  *)
(* never made.                                                             *)
(*                                                                         *)
(* Abstractions.  A password is its version.  A session may expire at any  *)
(* time.  What a change of role does to shares, monitors and jobs is in    *)
(* ResearchQueue and JournalPromotion.  The lock of the login after wrong  *)
(* passwords and the operator's command line tool are left out.            *)
(***************************************************************************)
EXTENDS Integers, FiniteSets

CONSTANTS
  Account, FirstAdmin, Sid,
  LastPassword \* bound: versions of a password

Role == {"admin", "member"}   \* "member" also stands for viewers

ASSUME AccountsAssumption ==
  /\ IsFiniteSet(Account) /\ FirstAdmin \in Account
  /\ LastPassword \in Nat \ {0}

VARIABLES
  users,    \* table users
  sessions, \* table sessions
  waiting   \* the request of each user that waits for its body

accountVars == <<users, sessions, waiting>>

UserRow ==
  [role : Role, state : {"absent", "active", "disabled"}, must : BOOLEAN,
   password : 0..LastPassword]
(* password: -1 when there is no such row.  kept is no column: it tells, for
   the properties, that a handler broke off before it deleted this session *)
SessionRow == [user : Account, password : -1..LastPassword, kept : BOOLEAN]
Absent == [role |-> "member", state |-> "absent", must |-> FALSE, password |-> 0]
NoSession == [user |-> FirstAdmin, password |-> -1, kept |-> FALSE]
Waiting ==
  [op : {"none", "role", "create", "password"}, sid : Sid \union {0}, target : Account,
   password : 0..LastPassword]
NoWait == [op |-> "none", sid |-> 0, target |-> FirstAdmin, password |-> 0]

AccountTypeOK ==
  /\ users \in [Account -> UserRow] /\ sessions \in [Sid -> SessionRow]
  /\ waiting \in [Account -> Waiting]

AccountInit ==
  /\ users = [u \in Account |-> IF u = FirstAdmin
                THEN [Absent EXCEPT !.role = "admin", !.state = "active"] ELSE Absent]
  /\ sessions = [s \in Sid |-> NoSession]
  /\ waiting = [u \in Account |-> NoWait]

Enabled(u) == users[u].state = "active"
Opened(s) == sessions[s] # NoSession

(* requireUser, requireAdmin *)
Session(s, u) == Opened(s) /\ sessions[s].user = u /\ Enabled(u)
SignedIn(s, u) == Session(s, u) /\ ~users[u].must
AdminIn(s, u) == SignedIn(s, u) /\ users[u].role = "admin"

(* deleteUserSessions *)
SessionsWithout(u) == [s \in Sid |-> IF sessions[s].user = u THEN NoSession ELSE sessions[s]]

NewSession(u, password) == [user |-> u, password |-> password, kept |-> FALSE]

(* users is written, deleteUserSessions is not reached *)
BrokenOff(u) ==
  [s \in Sid |-> IF Opened(s) /\ sessions[s].user = u
                 THEN [sessions[s] EXCEPT !.kept = TRUE] ELSE sessions[s]]

------------------------------------------------------------------------------
(* Login and sessions *)

Login(u, s) ==
  /\ Enabled(u) /\ ~Opened(s)
  /\ sessions' = [sessions EXCEPT ![s] = NewSession(u, users[u].password)]
  /\ UNCHANGED <<users, waiting>>

(* logout, or the session expires and is removed when it is next seen *)
EndSession(s) ==
  /\ Opened(s) /\ sessions' = [sessions EXCEPT ![s] = NoSession]
  /\ UNCHANGED <<users, waiting>>

------------------------------------------------------------------------------
(* Requests that wait for their body *)

(* The handler has authorised u, by session s.  The path names the target of a
   change of role, whose handler looks at the session again; the body of a
   change of password brings the one that the user knows now. *)
WaitWith(u, request) ==
  /\ waiting[u] = NoWait /\ waiting' = [waiting EXCEPT ![u] = request]
  /\ UNCHANGED <<users, sessions>>
WaitForRole(u, s, t) ==
  AdminIn(s, u) /\ WaitWith(u, [op |-> "role", sid |-> s, target |-> t, password |-> 0])
WaitForUser(u, s) == AdminIn(s, u) /\ WaitWith(u, [NoWait EXCEPT !.op = "create"])
WaitForPassword(u, s) ==
  Session(s, u) /\ WaitWith(u, [NoWait EXCEPT !.op = "password", !.password = users[u].password])

Done(u) == waiting' = [waiting EXCEPT ![u] = NoWait]

\* Mutant of StillAdmin: the authorisation before the body is enough.
StillAdminThen(u) == TRUE

(* the transaction authorises the caller again *)
StillAdmin(u) == AdminIn(waiting[u].sid, u)

(* nobody takes the role of an admin from themselves *)
ChangeRole(u, role) ==
  LET t == waiting[u].target IN
  /\ waiting[u].op = "role" /\ Done(u) /\ (t = u => role = "admin")
  /\ users' = IF StillAdmin(u) /\ users[t].state # "absent"
              THEN [users EXCEPT ![t].role = role] ELSE users
  /\ UNCHANGED sessions

(* POST users: an address in use is refused, be it a disabled user's; a new
   user has a new id, which no request refers to *)
CreateUser(u, t, role) ==
  /\ waiting[u].op = "create" /\ Done(u) /\ users[t].state = "absent"
  /\ waiting[t] = NoWait \/ t = u
  /\ \A v \in Account : waiting[v].op = "role" => waiting[v].target # t
  /\ users' = [users EXCEPT ![t] =
                [role |-> role, state |-> "active", must |-> TRUE, password |-> 0]]
  /\ UNCHANGED sessions

\* Mutant of Renewed: the other sessions of the user stay.
RenewedOnly(u, s) ==
  [sessions EXCEPT ![s] = NewSession(u, users[u].password + 1)]

(* all sessions of u are deleted, then a new one is opened *)
Renewed(u, s) ==
  [SessionsWithout(u) EXCEPT ![s] = NewSession(u, users[u].password + 1)]

(* the current password is asked for unless the change is a forced one; the
   three statements may break off after the first or the second *)
ChangePassword(u, s) ==
  LET w == waiting[u] IN
  /\ w.op = "password" /\ Done(u)
  /\ SessionsWithout(u)[s] = NoSession /\ users[u].password < LastPassword
  /\ IF Enabled(u) /\ (users[u].must \/ w.password = users[u].password)
     THEN /\ users' = [users EXCEPT ![u].password = @ + 1, ![u].must = FALSE]
          /\ sessions' \in {BrokenOff(u), SessionsWithout(u), Renewed(u, s)}
     ELSE UNCHANGED <<users, sessions>>

(* the body is malformed, or refused, or the process dies and every request
   that waits in it ends like this, one after the other *)
BadBody(u) ==
  waiting[u] # NoWait /\ Done(u) /\ UNCHANGED <<users, sessions>>

------------------------------------------------------------------------------
(* Requests of an admin that act at once *)

DisableUser(a, s, u) ==
  /\ AdminIn(s, a) /\ u # a /\ Enabled(u)
  /\ users' = [users EXCEPT ![u].state = "disabled"]
  /\ sessions' \in {BrokenOff(u), SessionsWithout(u)}
  /\ UNCHANGED waiting

(* sessions that a broken off DisableUser left behind come back to life *)
EnableUser(a, s, u) ==
  /\ AdminIn(s, a) /\ users[u].state = "disabled"
  /\ users' = [users EXCEPT ![u].state = "active"]
  /\ UNCHANGED <<sessions, waiting>>

(* also of the admin's own password, and of a disabled user *)
ResetPassword(a, s, u) ==
  /\ AdminIn(s, a) /\ users[u].state # "absent" /\ users[u].password < LastPassword
  /\ users' = [users EXCEPT ![u].password = @ + 1, ![u].must = TRUE]
  /\ sessions' \in {BrokenOff(u), SessionsWithout(u)}
  /\ UNCHANGED waiting

(* one transaction: the sessions of a deleted user go with the row *)
DeleteUser(a, s, u) ==
  /\ AdminIn(s, a) /\ u # a /\ users[u].state # "absent"
  /\ users' = [users EXCEPT ![u] = Absent]
  /\ sessions' = SessionsWithout(u)
  /\ UNCHANGED waiting

AccountNext ==
  \/ \E s \in Sid : EndSession(s)
  \/ \E u \in Account :
       \/ BadBody(u)
       \/ \E r \in Role : ChangeRole(u, r) \/ \E t \in Account : CreateUser(u, t, r)
       \/ \E s \in Sid :
            \/ Login(u, s) \/ WaitForPassword(u, s) \/ ChangePassword(u, s) \/ WaitForUser(u, s)
            \/ \E t \in Account : WaitForRole(u, s, t)
            \/ \E a \in Account : \/ DisableUser(a, s, u) \/ EnableUser(a, s, u)
                               \/ ResetPassword(a, s, u) \/ DeleteUser(a, s, u)
AccountSpec == AccountInit /\ [][AccountNext]_accountVars

------------------------------------------------------------------------------
(* Properties *)

(* An active admin remains, although admins may disable, delete and demote
   each other, with requests of one waiting while the other's are served. *)
AnAdminRemains == \E u \in Account : Enabled(u) /\ users[u].role = "admin"

(* The user is active and has the password that the session was opened with. *)
SessionIsCurrent(s) ==
  Enabled(sessions[s].user) /\ sessions[s].password = users[sessions[s].user].password

(* A change, a reset, a disabling and a deletion sign everybody else out,
   whatever was under way: only a session that a handler left behind because
   it broke off between its statements outlives its password or its user. *)
SessionsAreCurrent == \A s \in Sid : Opened(s) /\ ~sessions[s].kept => SessionIsCurrent(s)
==============================================================================
