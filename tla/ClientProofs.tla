----------------------------- MODULE ClientProofs -----------------------------
(***************************************************************************)
(* Proofs about what people do at the same time, and about the work they   *)
(* set going: the accounts and their sessions, the calls a research job    *)
(* makes, the discussion of a brief, the review queue of the Canvas; and    *)
(* about the Canvas that a brief is shown as.                              *)
(***************************************************************************)
EXTENDS Accounts, ProviderRuns, CommentDesk, CanvasProposals, CanvasBuilder,
        SequenceTheorems, FiniteSetTheorems, WellFoundedInduction, TLAPS

------------------------------------------------------------------------------
(* Accounts and sessions *)

(* The inductive invariant.  Both parts stand on the types alone: whoever      *)
(* takes something from another admin is an admin at that moment, and stays.   *)
AccountsSafe == AccountTypeOK /\ AnAdminRemains /\ SessionsAreCurrent

LEMMA AccountsStart == AccountInit => AccountsSafe
<1> SUFFICES ASSUME AccountInit PROVE AccountsSafe
  OBVIOUS
<1>1. AccountTypeOK
  <2>1. /\ Absent \in UserRow
        /\ [Absent EXCEPT !.role = "admin", !.state = "active"] \in UserRow
        /\ NoSession \in SessionRow
    <3>1. 0 \in 0..LastPassword /\ -1 \in -1..LastPassword
      BY AccountsAssumption
    <3>2. NoSession \in SessionRow
      BY <3>1, AccountsAssumption DEF SessionRow, NoSession
    <3> QED BY <3>1, <3>2 DEF UserRow, Role, Absent
  <2>2. users \in [Account -> UserRow] /\ sessions \in [Sid -> SessionRow]
    BY <2>1 DEF AccountInit
  <2>3. NoWait \in Waiting
    BY AccountsAssumption DEF NoWait, Waiting
  <2> QED BY <2>2, <2>3 DEF AccountTypeOK, AccountInit
<1>2. AnAdminRemains
  BY AccountsAssumption DEF AccountInit, AnAdminRemains, Enabled, Absent
<1>3. SessionsAreCurrent
  BY DEF AccountInit, SessionsAreCurrent, Opened
<1> QED BY <1>1, <1>2, <1>3 DEF AccountsSafe

(* Whether the sessions of u go or a handler breaks off before that, those of *)
(* everybody else stay as they are, and none of u is open but as left behind. *)
LEMMA OthersKeepSessions ==
  ASSUME AccountTypeOK, NEW u \in Account,
         NEW rows \in {BrokenOff(u), SessionsWithout(u)}
  PROVE  /\ rows \in [Sid -> SessionRow]
         /\ \A s \in Sid : sessions[s].user = u => rows[s] = NoSession \/ rows[s].kept
         /\ \A s \in Sid : rows[s] # NoSession /\ ~rows[s].kept => sessions[s].user # u
         /\ \A s \in Sid : sessions[s].user # u => rows[s] = sessions[s]
<1> DEFINE Kept(s) == [sessions[s] EXCEPT !.kept = TRUE]
<1>1. /\ NoSession \in SessionRow /\ NoSession.user = FirstAdmin
      /\ \A s \in Sid : sessions[s] \in SessionRow
  BY AccountsAssumption DEF AccountTypeOK, SessionRow, NoSession
<1>2. \A s \in Sid : Kept(s) \in SessionRow /\ Kept(s).kept /\ Kept(s).user = sessions[s].user
  BY <1>1 DEF SessionRow
<1> HIDE DEF Kept
<1>3. CASE rows = SessionsWithout(u)
  BY <1>1, <1>3 DEF SessionsWithout
<1>4. CASE rows = BrokenOff(u)
  <2>1. rows = [s \in Sid |-> IF Opened(s) /\ sessions[s].user = u THEN Kept(s) ELSE sessions[s]]
    BY <1>4 DEF BrokenOff, Kept
  <2> QED BY <1>1, <1>2, <2>1 DEF Opened
<1> QED BY <1>3, <1>4

(* A user whose sessions are all gone, or left behind, may change in any way, *)
(* the others do not: the sessions stay current.                              *)
LEMMA OthersStayCurrent ==
  ASSUME AccountTypeOK, SessionsAreCurrent, NEW u \in Account, NEW row \in UserRow,
         users' = [users EXCEPT ![u] = row],
         sessions' \in {BrokenOff(u), SessionsWithout(u)}
  PROVE  SessionsAreCurrent'
<1> SUFFICES ASSUME NEW s \in Sid, sessions'[s] # NoSession, ~sessions'[s].kept
             PROVE  /\ users'[sessions'[s].user].state = "active"
                    /\ sessions'[s].password = users'[sessions'[s].user].password
  BY DEF SessionsAreCurrent, SessionIsCurrent, Opened, Enabled
<1>1. sessions[s].user # u /\ sessions'[s] = sessions[s]
  BY OthersKeepSessions
<1>2. users'[sessions[s].user] = users[sessions[s].user]
  BY <1>1 DEF AccountTypeOK, SessionRow
<1> QED BY <1>1, <1>2 DEF SessionsAreCurrent, SessionIsCurrent, Opened, Enabled

(* A row that keeps its state and its password keeps the sessions current. *)
LEMMA SameSessions ==
  ASSUME AccountTypeOK, SessionsAreCurrent, NEW u \in Account, NEW row \in UserRow,
         users[u].state = "active" => row.state = "active" /\ row.password = users[u].password,
         users' = [users EXCEPT ![u] = row], sessions' = sessions
  PROVE  SessionsAreCurrent'
<1> SUFFICES ASSUME NEW s \in Sid, sessions[s] # NoSession, ~sessions[s].kept
             PROVE  /\ users'[sessions[s].user].state = "active"
                    /\ sessions[s].password = users'[sessions[s].user].password
  BY DEF SessionsAreCurrent, SessionIsCurrent, Opened, Enabled
<1>1. /\ sessions[s].user \in Account
      /\ users[sessions[s].user].state = "active"
      /\ sessions[s].password = users[sessions[s].user].password
  BY DEF SessionsAreCurrent, SessionIsCurrent, Opened, Enabled, AccountTypeOK, SessionRow
<1> QED BY <1>1 DEF AccountTypeOK

(* A request that ends leaves the other requests as they were. *)
LEMMA RequestEnds ==
  ASSUME AccountTypeOK, NEW u \in Account, Done(u)
  PROVE  waiting' \in [Account -> Waiting]
<1>1. NoWait \in Waiting
  BY AccountsAssumption DEF NoWait, Waiting
<1> QED
  BY <1>1 DEF AccountTypeOK, Done

(* The step of one row: what is left to show is that the row is one, that the *)
(* sessions stay current, and that an admin is left.                          *)
LEMMA RowStep ==
  ASSUME AccountTypeOK, NEW u \in Account, NEW row \in UserRow,
         users' = [users EXCEPT ![u] = row]
  PROVE  /\ users' \in [Account -> UserRow]
         /\ users'[u] = row
         /\ \A v \in Account : v # u => users'[v] = users[v]
  BY DEF AccountTypeOK

LEMMA RoleChangeKeeps ==
  ASSUME AccountsSafe, NEW u \in Account, NEW role \in Role, ChangeRole(u, role)
  PROVE  AccountsSafe'
<1> DEFINE t == waiting[u].target
           row == [users[t] EXCEPT !.role = role]
<1>1. Done(u) /\ sessions' = sessions /\ t \in Account /\ (t = u => role = "admin")
  BY DEF ChangeRole, AccountsSafe, AccountTypeOK, Waiting
<1>2. CASE ~(StillAdmin(u) /\ users[t].state # "absent")
  <2>1. users' = users
    BY <1>2 DEF ChangeRole
  <2> QED
    BY <1>1, <2>1, RequestEnds
    DEF AccountsSafe, AccountTypeOK, AnAdminRemains, SessionsAreCurrent, SessionIsCurrent, Enabled, Opened
<1>3. CASE StillAdmin(u) /\ users[t].state # "absent"
  <2>1. users' = [users EXCEPT ![t] = row]
    BY <1>3 DEF ChangeRole
  <2>2. /\ users[t] \in UserRow /\ row \in UserRow
        /\ row.state = users[t].state /\ row.password = users[t].password
        /\ row.role = role
    BY <1>1 DEF AccountsSafe, AccountTypeOK, UserRow
  <2> HIDE DEF row
  <2>3. /\ users' \in [Account -> UserRow] /\ users'[t] = row
        /\ \A v \in Account : v # t => users'[v] = users[v]
    BY <1>1, <2>1, <2>2, RowStep DEF AccountsSafe
  <2>4. SessionsAreCurrent'
    BY <1>1, <2>1, <2>2, SameSessions DEF AccountsSafe
  <2>5. users[u].state = "active" /\ users[u].role = "admin"
    BY <1>3 DEF StillAdmin, AdminIn, SignedIn, Session, Enabled
  <2>6. users'[u].state = "active" /\ users'[u].role = "admin"
    BY <1>1, <2>2, <2>3, <2>5
  <2>7. AnAdminRemains'
    BY <2>6 DEF AnAdminRemains, Enabled
  <2> QED
    BY <1>1, <2>3, <2>4, <2>7, RequestEnds DEF AccountsSafe, AccountTypeOK
<1> QED BY <1>2, <1>3

(* A new row replaces an absent one, so the admin that is left is another.    *)
LEMMA CreateUserKeeps ==
  ASSUME AccountsSafe, NEW u \in Account, NEW t \in Account, NEW role \in Role,
         CreateUser(u, t, role)
  PROVE  AccountsSafe'
<1> DEFINE row == [role |-> role, state |-> "active", must |-> TRUE, password |-> 0]
<1>1. /\ Done(u) /\ sessions' = sessions /\ users[t].state = "absent"
      /\ users' = [users EXCEPT ![t] = row]
  BY DEF CreateUser
<1>2. row \in UserRow
  BY AccountsAssumption DEF UserRow
<1>3. /\ users' \in [Account -> UserRow]
      /\ \A v \in Account : v # t => users'[v] = users[v]
  BY <1>1, <1>2, RowStep DEF AccountsSafe
<1>4. SessionsAreCurrent'
  BY <1>1, <1>2, SameSessions DEF AccountsSafe
<1>5. AnAdminRemains'
  BY <1>1, <1>3 DEF AccountsSafe, AnAdminRemains, Enabled
<1> QED
  BY <1>1, <1>3, <1>4, <1>5, RequestEnds DEF AccountsSafe, AccountTypeOK

(* The one session that is opened again has the new password.                 *)
LEMMA ChangePasswordKeeps ==
  ASSUME AccountsSafe, NEW u \in Account, NEW s \in Sid, ChangePassword(u, s)
  PROVE  AccountsSafe'
<1> DEFINE next == users[u].password + 1
           row == [users[u] EXCEPT !.password = next, !.must = FALSE]
           fresh == NewSession(u, next)
<1>1. Done(u) /\ users[u] \in UserRow /\ users[u].password < LastPassword
  BY DEF ChangePassword, AccountsSafe, AccountTypeOK
<1>2. CASE UNCHANGED <<users, sessions>>
  BY <1>1, <1>2, RequestEnds
  DEF AccountsSafe, AccountTypeOK, AnAdminRemains, SessionsAreCurrent, SessionIsCurrent, Enabled, Opened
<1>3. CASE /\ Enabled(u)
           /\ users' = [users EXCEPT ![u].password = @ + 1, ![u].must = FALSE]
           /\ sessions' \in {BrokenOff(u), SessionsWithout(u), Renewed(u, s)}
  <2>1. next \in 0..LastPassword /\ next \in -1..LastPassword
    BY <1>1, AccountsAssumption DEF UserRow
  <2>2. /\ users' = [users EXCEPT ![u] = row]
        /\ sessions' \in {BrokenOff(u), SessionsWithout(u), [SessionsWithout(u) EXCEPT ![s] = fresh]}
    BY <1>3 DEF Renewed, AccountsSafe, AccountTypeOK, UserRow
  <2> HIDE DEF next
  <2>3. /\ row \in UserRow /\ row.password = next /\ row.state = users[u].state
        /\ row.role = users[u].role
    BY <1>1, <2>1 DEF UserRow
  <2>4. fresh \in SessionRow /\ fresh.user = u /\ fresh.password = next
    BY <2>1 DEF SessionRow, NewSession
  <2> HIDE DEF row, fresh
  <2>5. /\ users' \in [Account -> UserRow] /\ users'[u] = row
        /\ \A v \in Account : v # u => users'[v] = users[v]
    BY <2>2, <2>3, RowStep DEF AccountsSafe
  <2>6. AnAdminRemains'
    BY <2>3, <2>5 DEF AccountsSafe, AnAdminRemains, Enabled
  <2>7. CASE sessions' \in {BrokenOff(u), SessionsWithout(u)}
    <3>1. sessions' \in [Sid -> SessionRow] /\ SessionsAreCurrent'
      BY <2>2, <2>3, <2>7, OthersStayCurrent, OthersKeepSessions DEF AccountsSafe
    <3> QED
      BY <1>1, <2>5, <2>6, <3>1, RequestEnds DEF AccountsSafe, AccountTypeOK
  <2>8. CASE sessions' = [SessionsWithout(u) EXCEPT ![s] = fresh]
    <3>1. /\ sessions' \in [Sid -> SessionRow] /\ sessions'[s] = fresh
          /\ \A k \in Sid : k # s => sessions'[k] = SessionsWithout(u)[k]
      BY <2>4, <2>8, OthersKeepSessions DEF AccountsSafe
    <3>2. SessionsAreCurrent'
      <4> SUFFICES ASSUME NEW k \in Sid, sessions'[k] # NoSession, ~sessions'[k].kept
                   PROVE  /\ users'[sessions'[k].user].state = "active"
                          /\ sessions'[k].password = users'[sessions'[k].user].password
        BY DEF SessionsAreCurrent, SessionIsCurrent, Opened, Enabled
      <4>1. CASE k = s
        BY <1>3, <2>3, <2>4, <2>5, <3>1, <4>1 DEF Enabled
      <4>2. CASE k # s
        <5>1. sessions'[k] = sessions[k] /\ sessions[k].user # u
          BY <3>1, <4>2, OthersKeepSessions DEF AccountsSafe
        <5>2. users'[sessions[k].user] = users[sessions[k].user]
          BY <2>5, <5>1 DEF AccountsSafe, AccountTypeOK, SessionRow
        <5> QED BY <5>1, <5>2 DEF AccountsSafe, SessionsAreCurrent, SessionIsCurrent, Opened, Enabled
      <4> QED BY <4>1, <4>2
    <3> QED
      BY <1>1, <2>5, <2>6, <3>1, <3>2, RequestEnds DEF AccountsSafe, AccountTypeOK
  <2> QED BY <2>2, <2>7, <2>8
<1> QED BY <1>2, <1>3 DEF ChangePassword

(* What an admin does at once to somebody: the admin is left, or the row      *)
(* stays the row of an active admin.                                          *)
LEMMA AdminActs ==
  ASSUME AccountsSafe, NEW a \in Account, NEW s \in Sid, AdminIn(s, a),
         NEW u \in Account, NEW row \in UserRow,
         users' = [users EXCEPT ![u] = row], waiting' = waiting,
         u = a => row.state = "active" /\ row.role = "admin",
         \/ sessions' \in {BrokenOff(u), SessionsWithout(u)}
         \/ sessions' = sessions /\ users[u].state # "active"
  PROVE  AccountsSafe'
<1>1. /\ users' \in [Account -> UserRow] /\ users'[u] = row
      /\ \A v \in Account : v # u => users'[v] = users[v]
  BY RowStep DEF AccountsSafe
<1>2. users[a].state = "active" /\ users[a].role = "admin"
  BY DEF AdminIn, SignedIn, Session, Enabled
<1>3. AnAdminRemains'
  BY <1>1, <1>2 DEF AnAdminRemains, Enabled
<1>4. sessions' \in [Sid -> SessionRow] /\ SessionsAreCurrent'
  <2>1. CASE sessions' \in {BrokenOff(u), SessionsWithout(u)}
    BY <2>1, OthersStayCurrent, OthersKeepSessions DEF AccountsSafe
  <2>2. CASE sessions' = sessions /\ users[u].state # "active"
    BY <2>2, SameSessions DEF AccountsSafe, AccountTypeOK
  <2> QED BY <2>1, <2>2
<1> QED BY <1>1, <1>3, <1>4 DEF AccountsSafe, AccountTypeOK

LEMMA AdminActionsKeep ==
  ASSUME AccountsSafe, NEW a \in Account, NEW s \in Sid, NEW u \in Account,
         \/ DisableUser(a, s, u) \/ EnableUser(a, s, u)
         \/ ResetPassword(a, s, u) \/ DeleteUser(a, s, u)
  PROVE  AccountsSafe'
<1>1. users[u] \in UserRow /\ (users[a].state = "active" \/ ~AdminIn(s, a))
  BY DEF AccountsSafe, AccountTypeOK, AdminIn, SignedIn, Session, Enabled
<1>2. users[u] \in UserRow
  BY DEF AccountsSafe, AccountTypeOK
<1>3. CASE DisableUser(a, s, u)
  <2> DEFINE row == [users[u] EXCEPT !.state = "disabled"]
  <2>1. row \in UserRow /\ users' = [users EXCEPT ![u] = row]
    BY <1>2, <1>3 DEF DisableUser, UserRow, AccountsSafe, AccountTypeOK
  <2> HIDE DEF row
  <2> QED BY <1>3, <2>1, AdminActs DEF DisableUser
<1>4. CASE EnableUser(a, s, u)
  <2> DEFINE row == [users[u] EXCEPT !.state = "active"]
  <2>1. row \in UserRow /\ users' = [users EXCEPT ![u] = row] /\ users[u].state # "active"
    BY <1>2, <1>4 DEF EnableUser, UserRow, AccountsSafe, AccountTypeOK
  <2>2. u # a
    BY <1>1, <1>4, <2>1 DEF EnableUser
  <2> HIDE DEF row
  <2> QED BY <1>4, <2>1, <2>2, AdminActs DEF EnableUser
<1>5. CASE ResetPassword(a, s, u)
  <2> DEFINE next == users[u].password + 1
             row == [users[u] EXCEPT !.password = next, !.must = TRUE]
  <2>1. next \in 0..LastPassword
    BY <1>2, <1>5, AccountsAssumption DEF ResetPassword, UserRow
  <2>2. users' = [users EXCEPT ![u] = row]
    BY <1>5 DEF ResetPassword, AccountsSafe, AccountTypeOK, UserRow
  <2> HIDE DEF next
  <2>3. row \in UserRow /\ row.state = users[u].state /\ row.role = users[u].role
    BY <1>2, <2>1 DEF UserRow
  <2>4. u = a => users[u].state = "active" /\ users[u].role = "admin"
    BY <1>5 DEF ResetPassword, AdminIn, SignedIn, Session, Enabled
  <2> HIDE DEF row
  <2> QED BY <1>5, <2>2, <2>3, <2>4, AdminActs DEF ResetPassword
<1>6. CASE DeleteUser(a, s, u)
  <2>1. Absent \in UserRow
    BY AccountsAssumption DEF UserRow, Absent, Role
  <2> QED BY <1>6, <2>1, AdminActs DEF DeleteUser
<1> QED BY <1>3, <1>4, <1>5, <1>6

LEMMA WaitKeeps ==
  ASSUME AccountsSafe, NEW u \in Account, NEW request \in Waiting, WaitWith(u, request)
  PROVE  AccountsSafe'
BY DEF WaitWith, AccountsSafe, AccountTypeOK, AnAdminRemains, SessionsAreCurrent, SessionIsCurrent,
       Enabled, Opened

(* What waits is a request. *)
LEMMA WaitsKeep ==
  ASSUME AccountsSafe, NEW u \in Account, NEW s \in Sid,
         \/ WaitForPassword(u, s) \/ WaitForUser(u, s)
         \/ \E t \in Account : WaitForRole(u, s, t)
  PROVE  AccountsSafe'
<1>1. NoWait \in Waiting /\ 0 \in 0..LastPassword /\ users[u].password \in 0..LastPassword
  BY AccountsAssumption DEF NoWait, Waiting, AccountsSafe, AccountTypeOK, UserRow
<1>2. CASE WaitForPassword(u, s)
  <2> DEFINE request == [NoWait EXCEPT !.op = "password", !.password = users[u].password]
  <2>1. request \in Waiting
    BY <1>1 DEF Waiting
  <2> QED BY <1>2, <2>1, WaitKeeps DEF WaitForPassword
<1>3. CASE WaitForUser(u, s)
  <2> DEFINE request == [NoWait EXCEPT !.op = "create"]
  <2>1. request \in Waiting
    BY <1>1 DEF Waiting
  <2> QED BY <1>3, <2>1, WaitKeeps DEF WaitForUser
<1>4. ASSUME NEW t \in Account, WaitForRole(u, s, t) PROVE AccountsSafe'
  <2> DEFINE request == [op |-> "role", sid |-> s, target |-> t, password |-> 0]
  <2>1. request \in Waiting
    BY <1>1 DEF Waiting
  <2> QED BY <1>4, <2>1, WaitKeeps DEF WaitForRole
<1> QED BY <1>2, <1>3, <1>4

LEMMA SessionActionsKeep ==
  ASSUME AccountsSafe, NEW s \in Sid, EndSession(s) \/ \E u \in Account : Login(u, s)
  PROVE  AccountsSafe'
<1>1. UNCHANGED <<users, waiting>>
  BY DEF EndSession, Login
<1>2. CASE EndSession(s)
  <2>1. NoSession \in SessionRow
    BY AccountsAssumption DEF NoSession, SessionRow
  <2>2. sessions' \in [Sid -> SessionRow] /\ SessionsAreCurrent'
    BY <1>1, <1>2, <2>1 DEF EndSession, AccountsSafe, AccountTypeOK, SessionsAreCurrent, SessionIsCurrent, Opened, Enabled
  <2> QED BY <1>1, <2>2 DEF AccountsSafe, AccountTypeOK, AnAdminRemains, Enabled
<1>3. ASSUME NEW u \in Account, Login(u, s) PROVE AccountsSafe'
  <2> DEFINE new == NewSession(u, users[u].password)
  <2>1. /\ sessions' = [sessions EXCEPT ![s] = new] /\ users[u].state = "active"
        /\ users[u].password \in 0..LastPassword
    BY <1>3 DEF Login, Enabled, AccountsSafe, AccountTypeOK, UserRow
  <2>2. users[u].password \in -1..LastPassword
    BY <2>1, AccountsAssumption
  <2>3. new \in SessionRow
    BY <2>2 DEF SessionRow, NewSession
  <2>4. sessions' \in [Sid -> SessionRow]
    BY <2>1, <2>3 DEF AccountsSafe, AccountTypeOK
  <2>5. SessionsAreCurrent'
    BY <1>1, <2>1 DEF AccountsSafe, AccountTypeOK, SessionsAreCurrent, SessionIsCurrent, Opened, Enabled, NewSession
  <2> QED BY <1>1, <2>4, <2>5 DEF AccountsSafe, AccountTypeOK, AnAdminRemains, Enabled
<1> QED BY <1>2, <1>3

LEMMA AccountsStep == AccountsSafe /\ [AccountNext]_accountVars => AccountsSafe'
<1> SUFFICES ASSUME AccountsSafe, [AccountNext]_accountVars PROVE AccountsSafe'
  OBVIOUS
<1>1. CASE UNCHANGED accountVars
  BY <1>1
  DEF accountVars, AccountsSafe, AccountTypeOK, AnAdminRemains, SessionsAreCurrent, SessionIsCurrent,
      Enabled, Opened
<1>2. ASSUME NEW u \in Account, BadBody(u) PROVE AccountsSafe'
  <2>1. Done(u) /\ UNCHANGED <<users, sessions>>
    BY <1>2 DEF BadBody
  <2> QED
    BY <2>1, RequestEnds
    DEF AccountsSafe, AccountTypeOK, AnAdminRemains, SessionsAreCurrent, SessionIsCurrent, Enabled, Opened
<1> QED
  BY <1>1, <1>2, RoleChangeKeeps, CreateUserKeeps, ChangePasswordKeeps, WaitsKeep,
     AdminActionsKeep, SessionActionsKeep
  DEF AccountNext

(* The types, and with them everything below, hold for any number of accounts *)
(* and sessions.                                                              *)
THEOREM AccountsAreSafe == AccountSpec => []AccountsSafe
BY AccountsStart, AccountsStep, PTL DEF AccountSpec

(* Admins who demote, disable and delete each other with requests under way   *)
(* (requireAdmin inside the transaction of PATCH role) never lock everybody   *)
(* out.                                                                       *)
THEOREM AdminHolds == AccountSpec => []AnAdminRemains
<1>1. AccountsSafe => AnAdminRemains
  BY DEF AccountsSafe
<1> QED BY <1>1, AccountsAreSafe, PTL

(* No session outlives the password it was opened with or the account it      *)
(* belongs to (deleteUserSessions in each handler that changes them), except  *)
(* where such a handler broke off between its statements.                     *)
THEOREM SessionsHold == AccountSpec => []SessionsAreCurrent
<1>1. AccountsSafe => SessionsAreCurrent
  BY DEF AccountsSafe
<1> QED BY <1>1, AccountsAreSafe, PTL

------------------------------------------------------------------------------
(* Calls of the model provider *)

ScoutRounds == ScoutContinuations + 1
LoopRounds == MaxContinuations[mode] + 1

(* What a job may still spend, stage by stage: each stage keeps what the      *)
(* stages behind it may need.                                                 *)
WithinBudget ==
  /\ at = "claimed" => calls = 0 /\ round = 0 /\ attempts = 0
  /\ at = "hermes" => calls + 1 + ScoutRounds + 2 * LoopRounds + 2 <= MostCalls
  /\ at = "scout" => calls + (ScoutRounds - round) + 2 * LoopRounds + 2 <= MostCalls
  /\ at = "research" /\ attempts = 0 => calls + (2 * LoopRounds - round) + 2 <= MostCalls
  /\ at = "research" /\ attempts = 1 => calls + (LoopRounds - round) + 2 <= MostCalls
  /\ at = "parse" /\ attempts = 1 => calls + LoopRounds + 2 <= MostCalls
  /\ at \in {"parse", "repair"} => calls + 2 <= MostCalls
  /\ at = "check" => calls + 1 <= MostCalls
  /\ at = "triage" => calls + (2 * CheckIterations - round) <= MostCalls
  /\ at = "scan" => calls + (CheckIterations - round) <= MostCalls
  /\ calls <= MostCalls

(* Which stages belong to which kind of job, and how far their loops go. *)
RunShape ==
  /\ mode \in Mode \union {"none", "monitor"} /\ calls \in Nat /\ round \in Nat
  /\ attempts \in 0..2 /\ text \in Text
  /\ at = "claimed" <=> mode = "none"
  /\ at \in {"hermes", "scout", "research", "parse", "repair", "check"} => mode \in Mode
  /\ at \in {"triage", "scan"} => mode = "monitor"
  /\ at \in {"claimed", "hermes", "scout"} => attempts = 0
  /\ at = "research" => attempts <= 1
  /\ at = "scout" => round <= ScoutContinuations
  /\ at = "research" => round <= MaxContinuations[mode]
  /\ at \in {"triage", "scan"} => round < CheckIterations
  /\ at \in {"hermes", "parse"} => round = 0
  /\ at = "parse" => attempts >= 1

ProviderSafe == RunShape /\ WithinBudget

LEMMA BoundsAreNumbers ==
  /\ ScoutRounds \in Nat \ {0} /\ CheckIterations \in Nat \ {0}
  /\ mode \in Mode => LoopRounds \in Nat \ {0} /\ MaxContinuations[mode] \in Nat
  /\ mode \in Mode => MostCalls = 1 + ScoutRounds + 2 * LoopRounds + 2
  /\ mode \notin Mode => MostCalls = 2 * CheckIterations
<1>1. ScoutRounds \in Nat \ {0} /\ CheckIterations \in Nat \ {0}
  BY ProviderAssumption DEF ScoutRounds
<1>2. mode \in Mode => LoopRounds \in Nat \ {0} /\ MaxContinuations[mode] \in Nat
  BY ProviderAssumption DEF LoopRounds
<1> QED BY <1>1, <1>2 DEF MostCalls, ScoutRounds, LoopRounds

LEMMA ProviderStart == ProviderInit => ProviderSafe
<1> SUFFICES ASSUME ProviderInit PROVE ProviderSafe
  OBVIOUS
<1>1. mode \notin Mode /\ 0 \in Nat
  BY DEF ProviderInit, Mode
<1>2. 0 <= MostCalls
  BY <1>1, BoundsAreNumbers
<1>3. RunShape
  BY DEF ProviderInit, RunShape, Text
<1> QED BY <1>2, <1>3 DEF ProviderSafe, WithinBudget, ProviderInit

(* What one mode can spend does not change once the job has begun. *)
LEMMA SameMode ==
  ASSUME mode' = mode
  PROVE  MostCalls' = MostCalls /\ LoopRounds' = LoopRounds /\ ScoutRounds' = ScoutRounds
  BY DEF MostCalls, LoopRounds, ScoutRounds

LEMMA BeginKeeps ==
  ASSUME ProviderSafe, NEW m \in Mode \union {"monitor"}, Begin(m)
  PROVE  ProviderSafe'
<1>1. /\ at = "claimed" /\ mode' = m /\ calls = 0 /\ round = 0 /\ attempts = 0
      /\ UNCHANGED <<round, text, origin, repaired, attempts, calls>>
  BY DEF Begin, ProviderSafe, WithinBudget
<1>2. IF m = "monitor" THEN at' = "triage" ELSE at' \in {"hermes", FirstStage(m)}
  BY DEF Begin
<1>3. /\ ScoutRounds' \in Nat \ {0} /\ CheckIterations \in Nat \ {0}
      /\ m \in Mode => /\ LoopRounds' \in Nat \ {0} /\ MaxContinuations[m] \in Nat
                       /\ MostCalls' = 1 + ScoutRounds' + 2 * LoopRounds' + 2
      /\ m \notin Mode => MostCalls' = 2 * CheckIterations
  <2>1. ScoutRounds' \in Nat \ {0} /\ CheckIterations \in Nat \ {0}
    BY ProviderAssumption DEF ScoutRounds
  <2>2. m \in Mode => LoopRounds' \in Nat \ {0} /\ MaxContinuations[m] \in Nat
    BY <1>1, ProviderAssumption DEF LoopRounds
  <2> QED BY <1>1, <2>1, <2>2 DEF MostCalls, ScoutRounds, LoopRounds
<1>4. CASE m = "monitor"
  <2>1. m \notin Mode /\ at' = "triage"
    BY <1>2, <1>4 DEF Mode
  <2> QED
    BY <1>1, <1>3, <1>4, <2>1 DEF ProviderSafe, RunShape, WithinBudget
<1>5. CASE m # "monitor"
  <2>1. m \in Mode /\ at' \in {"hermes", "scout", "research"} /\ m # "none"
    BY <1>2, <1>5 DEF FirstStage, Mode
  <2>2. WithinBudget'
    BY <1>1, <1>3, <2>1 DEF WithinBudget
  <2>3. RunShape'
    BY <1>1, <1>3, <2>1, ProviderAssumption DEF ProviderSafe, RunShape
  <2> QED BY <2>2, <2>3 DEF ProviderSafe
<1> QED BY <1>4, <1>5

LEMMA StagesKeep ==
  ASSUME ProviderSafe, mode' = mode,
         \/ \E ok \in BOOLEAN : AskHermes(ok) \/ AskScout(ok)
         \/ \E t \in Text : \/ RepairJson(t) \/ RepairBrief(t)
                            \/ \E pauses \in BOOLEAN : AskResearch(pauses, t)
         \/ FakeBrief \/ NoKey \/ ParseText \/ Accept \/ CallThrows
  PROVE  ProviderSafe'
<1> USE DEF ProviderSafe
<1>s. MostCalls' = MostCalls /\ LoopRounds' = LoopRounds /\ ScoutRounds' = ScoutRounds
  BY SameMode
<1>b. /\ ScoutRounds \in Nat \ {0} /\ CheckIterations \in Nat \ {0}
      /\ mode \in Mode => /\ LoopRounds \in Nat \ {0} /\ MaxContinuations[mode] \in Nat
                          /\ MostCalls = 1 + ScoutRounds + 2 * LoopRounds + 2
      /\ mode \notin Mode => MostCalls = 2 * CheckIterations
  BY BoundsAreNumbers
<1>1. ASSUME NEW ok \in BOOLEAN, AskHermes(ok) PROVE ProviderSafe'
  <2>1. at' = "delivered" \/ at' = FirstStage(mode)
    BY <1>1 DEF AskHermes, Go
  <2>2. /\ at = "hermes" /\ round' = 0 /\ calls' = calls + 1 /\ attempts' = attempts /\ text' \in Text
        /\ mode \in Mode /\ at' \in {"delivered", "scout", "research"} /\ mode # "none"
    BY <1>1, <2>1 DEF AskHermes, Call, Go, FirstStage, RunShape, Mode, Text
  <2>8. RunShape'
    BY <1>b, <2>2, ProviderAssumption DEF RunShape
  <2>9. WithinBudget'
    BY <1>s, <1>b, <2>2 DEF RunShape, WithinBudget
  <2> QED BY <2>8, <2>9
<1>2. ASSUME NEW ok \in BOOLEAN, AskScout(ok) PROVE ProviderSafe'
  <2>1. \/ round < ScoutContinuations /\ round' = round + 1 /\ at' = at
        \/ round' = 0 /\ at' = "research"
    BY <1>2 DEF AskScout, Go
  <2>2. at = "scout" /\ calls' = calls + 1 /\ attempts' = attempts /\ text' = text
    BY <1>2 DEF AskScout, Call
  <2>3. ScoutRounds = ScoutContinuations + 1 /\ ScoutContinuations \in Nat
    BY ProviderAssumption DEF ScoutRounds
  <2>8. RunShape'
    BY <1>b, <2>1, <2>2, <2>3 DEF RunShape
  <2>9. WithinBudget'
    BY <1>s, <1>b, <2>1, <2>2, <2>3 DEF RunShape, WithinBudget
  <2> QED BY <2>8, <2>9
<1>3. ASSUME NEW t \in Text, RepairJson(t) \/ RepairBrief(t) PROVE ProviderSafe'
  <2>1. /\ at \in {"repair", "check"} /\ calls' = calls + 1 /\ round' = 0 /\ attempts' = attempts
        /\ text' \in Text
        /\ at = "repair" => at' \in {"check", "failed"}
        /\ at = "check" => at' \in {"delivered", "failed"}
    BY <1>3 DEF RepairJson, RepairBrief, Call, Go, Text, RunShape
  <2>8. RunShape'
    BY <1>b, <2>1 DEF RunShape
  <2>9. WithinBudget'
    BY <1>s, <1>b, <2>1 DEF RunShape, WithinBudget
  <2> QED BY <2>8, <2>9
<1>4. ASSUME NEW t \in Text, NEW pauses \in BOOLEAN, AskResearch(pauses, t)
      PROVE  ProviderSafe'
  <2>1. /\ at = "research" /\ calls' = calls + 1 /\ mode \in Mode /\ mode # "none"
        /\ text' \in Text
        /\ \/ round < MaxContinuations[mode] /\ round' = round + 1 /\ at' = at
              /\ attempts' = attempts
           \/ round' = 0 /\ at' = "parse" /\ attempts' = attempts + 1
    BY <1>4 DEF AskResearch, Call, Go, RunShape
  <2>2. LoopRounds = MaxContinuations[mode] + 1
    BY DEF LoopRounds
  <2>8. RunShape'
    BY <1>b, <2>1, <2>2 DEF RunShape
  <2>9. WithinBudget'
    BY <1>s, <1>b, <2>1, <2>2 DEF RunShape, WithinBudget
  <2> QED BY <2>8, <2>9
<1>5. CASE ParseText
  <2>1. /\ at = "parse" /\ round' = 0 /\ UNCHANGED <<attempts, calls>>
        /\ at' \in {"research", "failed", "repair", "check"} /\ text' = text
        /\ at' = "research" => attempts = 1
    BY <1>5 DEF ParseText, Go, Retries, Text, RunShape
  <2>8. RunShape'
    BY <1>b, <2>1 DEF RunShape
  <2>9. WithinBudget'
    BY <1>s, <1>b, <2>1 DEF RunShape, WithinBudget
  <2> QED BY <2>8, <2>9
<1>6. CASE FakeBrief \/ NoKey \/ Accept \/ CallThrows
  <2>1. /\ at' \in {"delivered", "failed"} /\ round' = 0
        /\ attempts' \in {attempts, 1} /\ mode # "none" /\ text' \in Text
        /\ \/ calls' = calls
           \/ calls' = calls + 1 /\ at \in {"research", "triage", "scan"}
    BY <1>6 DEF FakeBrief, NoKey, Accept, CallThrows, DirectStart, Call, Go, FirstStage, RunShape, Text
  <2>8. RunShape'
    BY <1>b, <2>1 DEF RunShape
  <2>9. WithinBudget'
    BY <1>s, <1>b, <2>1 DEF RunShape, WithinBudget, LoopRounds
  <2> QED BY <2>8, <2>9
<1> QED BY <1>1, <1>2, <1>3, <1>4, <1>5, <1>6

(* The two loops of a monitor check. *)
LEMMA CheckKeeps ==
  ASSUME ProviderSafe, NEW stop, NEW answer \in {"silent", "new", "nothing", "hollow", "oversized"},
         Triage(answer, stop) \/ Scan(answer, stop)
  PROVE  ProviderSafe'
<1>1. /\ mode' = mode /\ UNCHANGED <<text, attempts>> /\ calls' = calls + 1
      /\ at \in {"triage", "scan"} /\ mode = "monitor"
  BY DEF Triage, Scan, Call, ProviderSafe, RunShape
<1>2. /\ MostCalls' = MostCalls /\ MostCalls = 2 * CheckIterations
      /\ CheckIterations \in Nat \ {0} /\ mode \notin Mode
  BY <1>1, SameMode, BoundsAreNumbers DEF Mode
<1>3. CASE Triage(answer, stop)
  <2>1. /\ at = "triage"
        /\ \/ at' \in {"scan", "nothing"} /\ round' = 0
           \/ at' = at /\ round < CheckIterations - 1 /\ round' = round + 1
    BY <1>3 DEF Triage, Go, AfterTriage, Undecided
  <2> QED BY <1>1, <1>2, <2>1 DEF ProviderSafe, RunShape, WithinBudget
<1>4. CASE Scan(answer, stop)
  <2>1. /\ at = "scan"
        /\ \/ at' \in {"updates", "nothing", "failed"} /\ round' = 0
           \/ at' = at /\ round < CheckIterations - 1 /\ round' = round + 1
    BY <1>4 DEF Scan, Go, ExtractFindings
  <2> QED BY <1>1, <1>2, <2>1 DEF ProviderSafe, RunShape, WithinBudget
<1> QED BY <1>3, <1>4

LEMMA ProviderStep == ProviderSafe /\ [ProviderNext]_providerVars => ProviderSafe'
<1> SUFFICES ASSUME ProviderSafe, [ProviderNext]_providerVars PROVE ProviderSafe'
  OBVIOUS
<1>1. CASE UNCHANGED providerVars
  BY <1>1
  DEF providerVars, ProviderSafe, RunShape, WithinBudget, MostCalls, LoopRounds, ScoutRounds
<1>2. ASSUME NEW m \in Mode \union {"monitor"}, Begin(m) PROVE ProviderSafe'
  BY <1>2, BeginKeeps
<1>3. ASSUME NEW stop \in {"pause_turn", "tool_use", "end_turn"},
             NEW answer \in {"silent", "new", "nothing", "hollow", "oversized"},
             Triage(answer, stop) \/ Scan(answer, stop)
      PROVE  ProviderSafe'
  BY <1>3, CheckKeeps
<1>4. ASSUME \/ \E ok \in BOOLEAN : AskHermes(ok) \/ AskScout(ok)
             \/ \E t \in Text : \/ RepairJson(t) \/ RepairBrief(t)
                                \/ \E pauses \in BOOLEAN : AskResearch(pauses, t)
             \/ FakeBrief \/ NoKey \/ ParseText \/ Accept \/ CallThrows
      PROVE  ProviderSafe'
  <2>1. mode' = mode
    BY <1>4
    DEF AskHermes, AskScout, RepairJson, RepairBrief, AskResearch, FakeBrief, NoKey, ParseText,
        Accept, CallThrows
  <2> QED BY <1>4, <2>1, StagesKeep
<1> QED BY <1>1, <1>2, <1>3, <1>4 DEF ProviderNext

(* Whatever the provider answers, a job makes no more calls than its settings *)
(* allow: the continuations of the loops, the one retry of a text that was    *)
(* cut off and the two repairs (runResearchPipeline, runMonitorCheck) are all *)
(* the calls there are.                                                       *)
THEOREM CallsBounded == ProviderSpec => []CallsAreBounded
<1>1. ProviderSafe => CallsAreBounded
  BY DEF ProviderSafe, WithinBudget, CallsAreBounded
<1> QED BY <1>1, ProviderStart, ProviderStep, PTL DEF ProviderSpec

------------------------------------------------------------------------------
(* The discussion of a brief *)

Row == DOMAIN commentRows

RowsOK ==
  /\ commentRows \in Seq(CommentRow) /\ Len(commentRows) \in 0..MaxRows
  /\ \A c \in Row : "machine" \in commentRows[c].words => commentRows[c].ai
  /\ RepliesAreAnchored

(* A listing may be old, but the rows it lists are there, on the same side of *)
(* the mark and below the same comment.                                       *)
ListingOK(list) ==
  /\ list \in Seq(CommentRow) /\ DOMAIN list \subseteq Row
  /\ \A c \in DOMAIN list :
       /\ list[c].ai = commentRows[c].ai /\ list[c].parent = commentRows[c].parent
       /\ "machine" \in list[c].words => list[c].ai

SectionRecord ==
  [shown : Seq(CommentRow), text : SUBSET Word, ai : BOOLEAN, parent : Nat, editing : Nat,
   edit : SUBSET Word, link : Nat, landed : BOOLEAN]

SectionOK ==
  /\ section \in SectionRecord
  /\ ListingOK(section.shown)
  /\ "machine" \in section.text => section.ai
  /\ section.parent \in {Top} \union Row
  /\ section.editing # Top =>
       /\ section.editing \in Row
       /\ "machine" \in section.edit => commentRows[section.editing].ai
  /\ LinkIsReached

(* The requests on their way carry words and rows that were checked earlier.  *)
PostOK ==
  posting.stage = "sent" =>
    /\ posting.words \in SUBSET Word /\ posting.ai \in BOOLEAN
    /\ posting.parent \in {Top} \union Row
    /\ "machine" \in posting.words => posting.ai
PatchOK ==
  patching.stage \in {"sent", "checked"} =>
    /\ patching \in [stage : {"sent", "checked"}, id : Row, words : SUBSET Word]
    /\ "machine" \in patching.words => commentRows[patching.id].ai
LoadsOK ==
  /\ loads = [asked |-> loads.asked, listings |-> loads.listings]
  /\ \A list \in loads.listings : ListingOK(list)

DiscussionSafe == RowsOK /\ SectionOK /\ PostOK /\ PatchOK /\ LoadsOK

(* What no statement does to a row that is there: remove it, move it, or take *)
(* the mark of the machine from it.                                           *)
RowsKept ==
  /\ Row \subseteq Row'
  /\ \A c \in Row : /\ commentRows'[c].ai = commentRows[c].ai
                    /\ commentRows'[c].parent = commentRows[c].parent

LEMMA RowIndex ==
  ASSUME RowsOK
  PROVE  /\ Row = 1..Len(commentRows) /\ Len(commentRows) \in Nat
         /\ \A c \in Row : c \in Nat \ {0} /\ c \in CommentIndex /\ commentRows[c] \in CommentRow
<1>1. Row = 1..Len(commentRows) /\ Len(commentRows) \in 0..MaxRows /\ MaxRows \in Nat
  BY LenProperties, CommentAssumption DEF RowsOK, Row
<1>2. \A c \in Row : commentRows[c] \in CommentRow
  BY <1>1, ElementOfSeq DEF RowsOK
<1> QED BY <1>1, <1>2 DEF CommentIndex

(* Whatever keeps the rows keeps the listings of them, and the requests.      *)
LEMMA KeptListing ==
  ASSUME RowsKept, NEW list, ListingOK(list)
  PROVE  ListingOK(list)'
  BY DEF RowsKept, ListingOK, Row

LEMMA KeptHolders ==
  ASSUME RowsKept, SectionOK, section' = section
  PROVE  SectionOK'
<1>1. ListingOK(section.shown)'
  BY KeptListing DEF SectionOK, ListingOK
<1> QED BY <1>1 DEF SectionOK, RowsKept, LinkIsReached, SectionRecord

LEMMA KeptRequests ==
  ASSUME RowsKept
  PROVE  /\ PostOK /\ posting' = posting => PostOK'
         /\ PatchOK /\ patching' = patching => PatchOK'
         /\ LoadsOK /\ loads' = loads => LoadsOK'
<1>1. LoadsOK /\ loads' = loads => LoadsOK'
  BY KeptListing DEF LoadsOK, ListingOK
<1> QED BY <1>1 DEF PostOK, PatchOK, RowsKept

LEMMA SameRows ==
  ASSUME RowsOK, commentRows' = commentRows
  PROVE  RowsOK' /\ RowsKept
  BY DEF RowsOK, RowsKept, RepliesAreAnchored, Row

------------------------------------------------------------------------------
(* What happens to the rows *)

LEMMA InsertKeeps ==
  ASSUME RowsOK, NEW author \in {Myself, Another}, NEW parent \in {Top} \union Row,
         NEW words \in SUBSET Word, NEW ai \in BOOLEAN,
         "machine" \in words => ai,
         Insert(author, parent, words, ai)
  PROVE  RowsOK' /\ RowsKept
<1> DEFINE above == Anchor(parent)
           new == [author |-> author, parent |-> above, words |-> words, ai |-> ai,
                   recent |-> TRUE, deleted |-> FALSE]
           n == Len(commentRows)
<1>1. Row = 1..n /\ n \in Nat /\ n < MaxRows /\ MaxRows \in Nat
  BY RowIndex, CommentAssumption DEF Insert
<1>2. /\ above \in {Top} \union Row
      /\ above # Top => commentRows[above].parent = Top
  <2>1. CASE parent = Top
    BY <2>1 DEF Anchor
  <2>2. CASE parent # Top /\ commentRows[parent].parent = Top
    BY <2>2 DEF Anchor
  <2>3. CASE parent # Top /\ commentRows[parent].parent # Top
    <3>1. above = commentRows[parent].parent /\ parent \in Row
      BY <2>3 DEF Anchor
    <3>2. above \in CommentIndex /\ above < parent /\ commentRows[above].parent = Top
      BY <2>3, <3>1, RowIndex DEF RowsOK, RepliesAreAnchored, CommentRow, Row
    <3> QED BY <1>1, <3>1, <3>2 DEF CommentIndex
  <2> QED BY <2>1, <2>2, <2>3
<1> HIDE DEF above
<1>3. new \in CommentRow
  BY <1>2, RowIndex DEF CommentRow
<1>4. commentRows' = Append(commentRows, new)
  BY DEF Insert, Added, above
<1> HIDE DEF new
<1>5. /\ commentRows' \in Seq(CommentRow) /\ Len(commentRows') = n + 1
      /\ \A c \in 1..n : commentRows'[c] = commentRows[c]
      /\ commentRows'[n + 1] = new
  BY <1>3, <1>4, AppendProperties DEF RowsOK
<1>6. Row' = 1..(n + 1)
  BY <1>5, LenProperties DEF Row
<1>7. RowsKept
  BY <1>1, <1>5, <1>6 DEF RowsKept
<1>8. RepliesAreAnchored'
  <2> SUFFICES ASSUME NEW c \in Row', commentRows'[c].parent # Top
               PROVE  /\ commentRows'[c].parent < c
                      /\ commentRows'[commentRows'[c].parent].parent = Top
    BY DEF RepliesAreAnchored, Row
  <2>1. CASE c = n + 1
    <3>1. commentRows'[c].parent = above /\ above \in 1..n
      BY <1>1, <1>2, <1>5, <2>1 DEF new
    <3> QED BY <1>1, <1>2, <1>5, <2>1, <3>1
  <2>2. CASE c # n + 1
    <3>1. c \in 1..n /\ commentRows'[c] = commentRows[c]
      BY <1>1, <1>5, <1>6, <2>2
    <3>2. /\ commentRows[c].parent < c /\ commentRows[commentRows[c].parent].parent = Top
          /\ commentRows[c].parent \in Nat \ {0}
      BY <1>1, <3>1, RowIndex DEF RowsOK, RepliesAreAnchored, CommentRow, CommentIndex, Row
    <3>3. commentRows[c].parent \in 1..n
      BY <1>1, <3>1, <3>2
    <3> QED BY <1>5, <3>1, <3>2, <3>3
  <2> QED BY <2>1, <2>2
<1>9. ASSUME NEW c \in Row' PROVE "machine" \in commentRows'[c].words => commentRows'[c].ai
  <2>1. CASE c = n + 1
    BY <1>5, <2>1 DEF new
  <2>2. CASE c # n + 1
    BY <1>1, <1>5, <1>6, <2>2 DEF RowsOK
  <2> QED BY <2>1, <2>2
<1>10. Len(commentRows') \in 0..MaxRows
  BY <1>1, <1>5
<1> QED BY <1>5, <1>7, <1>8, <1>9, <1>10 DEF RowsOK

(* One row changes, but neither its author, its mark nor its place.           *)
LEMMA RowChanges ==
  ASSUME RowsOK, NEW c \in Row, NEW new \in CommentRow,
         new.ai = commentRows[c].ai, new.parent = commentRows[c].parent,
         "machine" \in new.words => new.ai,
         commentRows' = [commentRows EXCEPT ![c] = new]
  PROVE  RowsOK' /\ RowsKept
<1>1. Row = 1..Len(commentRows)
  BY RowIndex
<1>2. /\ commentRows' \in Seq(CommentRow) /\ Len(commentRows') = Len(commentRows)
      /\ \A k \in Row : commentRows'[k] = IF k = c THEN new ELSE commentRows[k]
  BY <1>1, ExceptSeq DEF RowsOK
<1>3. Row' = Row
  BY <1>1, <1>2, LenProperties DEF Row
<1>4. RowsKept
  BY <1>2, <1>3 DEF RowsKept
<1>5. \A k \in Row : commentRows[k].parent # Top => commentRows[k].parent \in Row
  <2> SUFFICES ASSUME NEW k \in Row, commentRows[k].parent # Top
               PROVE  commentRows[k].parent \in Row
    OBVIOUS
  <2>1. commentRows[k].parent \in Nat \ {0} /\ commentRows[k].parent < k
    BY RowIndex DEF RowsOK, RepliesAreAnchored, CommentRow, CommentIndex, Row
  <2> QED BY <1>1, <2>1, RowIndex
<1>6. RepliesAreAnchored'
  BY <1>2, <1>3, <1>5 DEF RepliesAreAnchored, RowsOK, Row
<1>7. \A k \in Row' : "machine" \in commentRows'[k].words => commentRows'[k].ai
  BY <1>2, <1>3 DEF RowsOK
<1> QED BY <1>2, <1>4, <1>6, <1>7 DEF RowsOK

LEMMA RowEditsKeep ==
  ASSUME RowsOK, NEW c \in Row,
         \/ Mark(c)
         \/ commentRows' = [commentRows EXCEPT ![c].recent = FALSE]
         \/ \E words \in SUBSET Word : /\ commentRows' = [commentRows EXCEPT ![c].words = words]
                                       /\ "machine" \in words => commentRows[c].ai
  PROVE  RowsOK' /\ RowsKept
<1>1. commentRows[c] \in CommentRow /\ ("machine" \in commentRows[c].words => commentRows[c].ai)
  BY RowIndex DEF RowsOK
<1>2. CASE Mark(c)
  <2> DEFINE new == [commentRows[c] EXCEPT !.deleted = TRUE]
  <2>1. commentRows' = [commentRows EXCEPT ![c] = new]
    BY <1>2 DEF Mark
  <2>2. /\ new \in CommentRow /\ new.ai = commentRows[c].ai
        /\ new.parent = commentRows[c].parent /\ new.words = commentRows[c].words
    BY <1>1 DEF CommentRow
  <2> HIDE DEF new
  <2> QED BY <1>1, <2>1, <2>2, RowChanges
<1>3. CASE commentRows' = [commentRows EXCEPT ![c].recent = FALSE]
  <2> DEFINE new == [commentRows[c] EXCEPT !.recent = FALSE]
  <2>1. commentRows' = [commentRows EXCEPT ![c] = new]
    BY <1>3
  <2>2. /\ new \in CommentRow /\ new.ai = commentRows[c].ai
        /\ new.parent = commentRows[c].parent /\ new.words = commentRows[c].words
    BY <1>1 DEF CommentRow
  <2> HIDE DEF new
  <2> QED BY <1>1, <2>1, <2>2, RowChanges
<1>4. ASSUME NEW words \in SUBSET Word, commentRows' = [commentRows EXCEPT ![c].words = words],
             "machine" \in words => commentRows[c].ai
      PROVE  RowsOK' /\ RowsKept
  <2> DEFINE new == [commentRows[c] EXCEPT !.words = words]
  <2>1. commentRows' = [commentRows EXCEPT ![c] = new]
    BY <1>4
  <2>2. /\ new \in CommentRow /\ new.ai = commentRows[c].ai
        /\ new.parent = commentRows[c].parent /\ new.words = words
    BY <1>1 DEF CommentRow
  <2> HIDE DEF new
  <2> QED BY <1>4, <2>1, <2>2, RowChanges
<1> QED BY <1>2, <1>3, <1>4

LEMMA OthersKeep ==
  ASSUME DiscussionSafe,
         \/ \E c \in {Top} \union Row : OthersPost(c)
         \/ \E c \in Row : OthersDelete(c) \/ WindowCloses(c)
  PROVE  DiscussionSafe'
<1>1. UNCHANGED <<section, posting, drafting, patching, loads>>
  BY DEF OthersPost, OthersDelete, WindowCloses
<1>2. RowsOK' /\ RowsKept
  <2>1. ASSUME NEW c \in {Top} \union Row, OthersPost(c) PROVE RowsOK' /\ RowsKept
    <3>1. Insert(Another, c, {"own"}, FALSE) /\ {"own"} \in SUBSET Word /\ "machine" \notin {"own"}
      BY <2>1 DEF OthersPost, Word
    <3> QED BY <3>1, InsertKeeps DEF DiscussionSafe
  <2>2. ASSUME NEW c \in Row, OthersDelete(c) \/ WindowCloses(c) PROVE RowsOK' /\ RowsKept
    BY <2>2, RowEditsKeep DEF OthersDelete, WindowCloses, DiscussionSafe
  <2> QED BY <2>1, <2>2
<1> QED
  BY <1>1, <1>2, KeptHolders, KeptRequests DEF DiscussionSafe

------------------------------------------------------------------------------
(* Loads *)

LEMMA FreshListing ==
  ASSUME RowsOK
  PROVE  ListingOK(ListComments)
<1>1. Row = 1..Len(commentRows) /\ Len(commentRows) \in Nat
  BY RowIndex
<1>2. /\ DOMAIN ListComments = Row
      /\ \A c \in Row : ListComments[c] = AuthenticatedDto(commentRows[c])
  BY DEF ListComments, Row
<1>3. ASSUME NEW c \in Row
      PROVE  /\ AuthenticatedDto(commentRows[c]) \in CommentRow
             /\ AuthenticatedDto(commentRows[c]).ai = commentRows[c].ai
             /\ AuthenticatedDto(commentRows[c]).parent = commentRows[c].parent
             /\ "machine" \in AuthenticatedDto(commentRows[c]).words => commentRows[c].ai
  BY RowIndex DEF AuthenticatedDto, CommentRow, RowsOK
<1>4. ListComments \in [1..Len(commentRows) -> CommentRow]
  <2>1. ListComments = [c \in 1..Len(commentRows) |-> AuthenticatedDto(commentRows[c])]
    BY <1>1 DEF ListComments, Row
  <2> QED BY <1>1, <1>3, <2>1
<1>5. ListComments \in Seq(CommentRow)
  BY <1>1, <1>4, SeqDef
<1> QED BY <1>2, <1>3, <1>5 DEF ListingOK

LEMMA LoadActionsKeep ==
  ASSUME DiscussionSafe,
         ReadList \/ ListFails \/ \E rows \in loads.listings : ListArrives(rows)
  PROVE  DiscussionSafe'
<1>1. commentRows' = commentRows /\ patching' = patching
  BY DEF ReadList, ListFails, ListArrives
<1>2. RowsOK' /\ RowsKept /\ PatchOK'
  BY <1>1, SameRows, KeptRequests DEF DiscussionSafe
<1>3. PostOK'
  <2>1. posting' = posting \/ posting' = Nothing
    BY DEF ReadList, ListFails, ListArrives, Waited
  <2> QED BY <1>2, <2>1, KeptRequests DEF DiscussionSafe, PostOK, Nothing
<1>4. LoadsOK'
  <2>1. CASE ReadList
    <3>1. ListingOK(ListComments) /\ loads' = [asked |-> FALSE, listings |-> loads.listings \union {ListComments}]
      BY <2>1, FreshListing DEF DiscussionSafe, ReadList
    <3>2. \A list \in loads.listings \union {ListComments} : ListingOK(list)'
      BY <1>2, <3>1, KeptListing DEF DiscussionSafe, LoadsOK
    <3> QED BY <3>1, <3>2 DEF LoadsOK, ListingOK
  <2>2. CASE ListFails \/ \E rows \in loads.listings : ListArrives(rows)
    <3>1. /\ loads' = [asked |-> loads'.asked, listings |-> loads'.listings]
          /\ loads'.listings \subseteq loads.listings
      BY <2>2 DEF ListFails, ListArrives, DiscussionSafe, LoadsOK
    <3>2. \A list \in loads.listings : ListingOK(list)'
      BY <1>2, KeptListing DEF DiscussionSafe, LoadsOK
    <3> QED BY <3>1, <3>2 DEF LoadsOK, ListingOK
  <2> QED BY <2>1, <2>2
<1>5. SectionOK'
  <2>1. CASE section' = section
    BY <1>2, <2>1, KeptHolders DEF DiscussionSafe
  <2>2. ASSUME NEW rows \in loads.listings, ListArrives(rows) PROVE SectionOK'
    <3>1. section' = [section EXCEPT !.shown = rows, !.landed = @ \/ section.link \in DOMAIN rows]
      BY <2>2 DEF ListArrives, Show
    <3>2. ListingOK(rows) /\ ListingOK(rows)' /\ rows \in Seq(CommentRow)
      BY <1>2, KeptListing DEF DiscussionSafe, LoadsOK, ListingOK
    <3>3. PICK b \in BOOLEAN : b = (section.landed \/ section.link \in DOMAIN rows)
      OBVIOUS
    <3>4. section' = [section EXCEPT !.shown = rows, !.landed = b]
      BY <3>1, <3>3 DEF DiscussionSafe, SectionOK, SectionRecord
    <3>5. /\ section' \in SectionRecord /\ section'.shown = rows
          /\ section'.landed = b /\ section'.link = section.link
          /\ section'.text = section.text /\ section'.ai = section.ai
          /\ section'.parent = section.parent /\ section'.editing = section.editing
          /\ section'.edit = section.edit
      BY <3>2, <3>4 DEF DiscussionSafe, SectionOK, SectionRecord
    <3>6. ListingOK(section.shown)'
      BY <3>2, <3>5 DEF ListingOK
    <3>7. LinkIsReached'
      BY <3>3, <3>5 DEF LinkIsReached
    <3> QED
      BY <1>2, <3>5, <3>6, <3>7 DEF DiscussionSafe, SectionOK, RowsKept
  <2> QED BY <2>1, <2>2 DEF ReadList, ListFails
<1> QED BY <1>2, <1>3, <1>4, <1>5 DEF DiscussionSafe

------------------------------------------------------------------------------
(* What the reader does *)

(* A change of the section that leaves the rows and what is listed alone.     *)
LEMMA SectionChanges ==
  ASSUME DiscussionSafe, commentRows' = commentRows, section' \in SectionRecord,
         section'.shown = section.shown,
         "machine" \in section'.text => section'.ai,
         section'.parent \in {Top} \union Row,
         section'.editing # Top =>
           /\ section'.editing \in Row
           /\ "machine" \in section'.edit => commentRows[section'.editing].ai,
         section'.link \in DOMAIN section'.shown => section'.landed
  PROVE  SectionOK'
<1>1. RowsKept /\ Row' = Row
  BY SameRows DEF DiscussionSafe, Row
<1>2. ListingOK(section.shown)'
  BY <1>1, KeptListing DEF DiscussionSafe, SectionOK, ListingOK
<1>3. LinkIsReached'
  BY DEF LinkIsReached
<1> QED BY <1>1, <1>2, <1>3 DEF SectionOK, RowsKept

LEMMA SectionIsRecord ==
  ASSUME DiscussionSafe
  PROVE  /\ section \in SectionRecord
         /\ "machine" \in section.text => section.ai
         /\ section.parent \in {Top} \union Row
         /\ section.editing # Top =>
              /\ section.editing \in Row
              /\ "machine" \in section.edit => commentRows[section.editing].ai
         /\ section.link \in DOMAIN section.shown => section.landed
         /\ \A c \in Row : c \in Nat \ {0}
  BY RowIndex DEF DiscussionSafe, SectionOK, LinkIsReached

LEMMA ComposingKeeps ==
  ASSUME DiscussionSafe,
         \/ Compose \/ CancelReply \/ TypeEdit \/ CancelEdit
         \/ \E c \in CommentIndex : FollowLink(c)
         \/ \E c \in DOMAIN section.shown : ReplyTo(c) \/ StartEdit(c)
  PROVE  SectionOK' /\ UNCHANGED <<commentRows, posting, patching, loads>>
<1> USE SectionIsRecord DEF SectionRecord
<1>1. UNCHANGED <<commentRows, posting, patching, loads>>
  BY DEF Compose, CancelReply, TypeEdit, CancelEdit, FollowLink, ReplyTo, StartEdit
<1>2. CASE Compose
  <2>1. PICK words \in {section.text \union {"own"}, {}} :
          section' = [section EXCEPT !.text = words, !.ai = @ /\ words # {}]
    BY <1>2 DEF Compose, Composed
  <2>2. PICK b \in BOOLEAN : b = (section.ai /\ words # {})
    OBVIOUS
  <2>3. words \in SUBSET Word /\ ("machine" \in words => b)
    BY <2>1, <2>2 DEF Word
  <2>4. section' = [section EXCEPT !.text = words, !.ai = b]
    BY <2>1, <2>2
  <2> QED BY <1>1, <2>3, <2>4, SectionChanges
<1>3. CASE CancelReply
  BY <1>1, <1>3, SectionChanges DEF CancelReply, Top
<1>4. CASE TypeEdit
  <2>1. PICK words \in {section.edit \union {"own"}, {}} : section' = [section EXCEPT !.edit = words]
    BY <1>4 DEF TypeEdit
  <2>2. words \in SUBSET Word /\ ("machine" \in words => "machine" \in section.edit)
    BY <2>1 DEF Word
  <2> QED BY <1>1, <2>1, <2>2, SectionChanges
<1>5. CASE CancelEdit
  BY <1>1, <1>5, SectionChanges DEF CancelEdit, EditEnds, Top
<1>6. ASSUME NEW c \in CommentIndex, FollowLink(c) PROVE SectionOK'
  <2>1. PICK b \in {TRUE, FALSE} : b <=> c \in DOMAIN section.shown
    <3>1. CASE c \in DOMAIN section.shown
      BY <3>1
    <3>2. CASE c \notin DOMAIN section.shown
      BY <3>2
    <3> QED BY <3>1, <3>2
  <2>2. section' = [section EXCEPT !.link = c, !.landed = c \in DOMAIN section.shown]
    BY <1>6 DEF FollowLink
  <2>3. section' = [section EXCEPT !.link = c, !.landed = b]
    <3>1. b = (c \in DOMAIN section.shown)
      BY <2>1, Zenon
    <3> QED BY <2>2, <3>1, Zenon
  <2>4. c \in Nat
    BY CommentAssumption DEF CommentIndex
  <2> QED BY <1>1, <2>1, <2>3, <2>4, SectionChanges
<1>7. ASSUME NEW c \in DOMAIN section.shown, ReplyTo(c) \/ StartEdit(c) PROVE SectionOK'
  <2>1. /\ c \in Row /\ section.shown[c].parent = commentRows[c].parent
        /\ section.shown[c].ai = commentRows[c].ai
        /\ "machine" \in section.shown[c].words => section.shown[c].ai
    BY DEF DiscussionSafe, SectionOK, ListingOK
  <2>2. section.shown[c] \in CommentRow
    BY LenProperties, ElementOfSeq
  <2>3. commentRows[c].parent \in {Top} \union Row
    <3>1. \/ commentRows[c].parent = Top
          \/ commentRows[c].parent \in Nat \ {0} /\ commentRows[c].parent < c
      BY <2>1, RowIndex DEF DiscussionSafe, RowsOK, RepliesAreAnchored, CommentRow, CommentIndex, Row
    <3>2. Row = 1..Len(commentRows) /\ Len(commentRows) \in Nat
      BY RowIndex DEF DiscussionSafe
    <3> QED BY <2>1, <3>1, <3>2
  <2>4. CASE ReplyTo(c)
    <3>1. PICK above \in {Top} \union Row : section' = [section EXCEPT !.parent = above]
      BY <2>1, <2>3, <2>4 DEF ReplyTo
    <3> QED BY <1>1, <3>1, SectionChanges DEF Top
  <2>5. CASE StartEdit(c)
    <3>1. section' = [section EXCEPT !.editing = c, !.edit = section.shown[c].words]
      BY <2>5 DEF StartEdit
    <3>2. section.shown[c].words \in SUBSET Word
      BY <2>2 DEF CommentRow
    <3> QED BY <1>1, <2>1, <3>1, <3>2, SectionChanges
  <2> QED BY <1>7, <2>4, <2>5
<1> QED BY <1>1, <1>2, <1>3, <1>4, <1>5, <1>6, <1>7

LEMMA PostingKeeps ==
  ASSUME DiscussionSafe, Submit \/ PostComment \/ PostAnswered \/ PostFails
  PROVE  DiscussionSafe'
<1>1. PatchOK /\ patching' = patching
  BY DEF Submit, PostComment, PostAnswered, PostFails, DiscussionSafe
<1>2. CASE PostComment
  <2>1. /\ posting.words \in SUBSET Word /\ posting.ai \in BOOLEAN
        /\ posting.parent \in {Top} \union Row
        /\ "machine" \in posting.words => posting.ai
        /\ Insert(Myself, posting.parent, posting.words, posting.ai)
        /\ posting' = [stage |-> "posted"] /\ UNCHANGED <<section, loads>>
    BY <1>2 DEF PostComment, DiscussionSafe, PostOK
  <2>2. RowsOK' /\ RowsKept
    BY <2>1, InsertKeeps DEF DiscussionSafe
  <2> QED
    BY <1>1, <2>1, <2>2, KeptHolders, KeptRequests DEF DiscussionSafe, PostOK
<1>3. CASE Submit
  <2>1. /\ UNCHANGED <<commentRows, section, loads>>
        /\ posting' = [stage |-> "sent", words |-> section.text, parent |-> section.parent,
                       ai |-> section.ai]
    BY <1>3 DEF Submit
  <2>2. RowsOK' /\ RowsKept /\ Row' = Row
    BY <2>1, SameRows DEF DiscussionSafe, Row
  <2>3. PostOK'
    BY <2>1, <2>2, SectionIsRecord DEF PostOK, SectionRecord
  <2> QED BY <1>1, <2>1, <2>2, <2>3, KeptHolders, KeptRequests DEF DiscussionSafe
<1>4. CASE PostFails
  <2>1. UNCHANGED <<commentRows, section, loads>> /\ posting' = Nothing
    BY <1>4 DEF PostFails
  <2>2. RowsOK' /\ RowsKept
    BY <2>1, SameRows DEF DiscussionSafe
  <2> QED
    BY <1>1, <2>1, <2>2, KeptHolders, KeptRequests DEF DiscussionSafe, PostOK, Nothing
<1>5. CASE PostAnswered
  <2>1. /\ commentRows' = commentRows /\ posting' = [stage |-> "loading"]
        /\ section' = [section EXCEPT !.text = {}, !.parent = Top, !.ai = FALSE]
        /\ loads' = [loads EXCEPT !.asked = TRUE]
    BY <1>5 DEF PostAnswered, LoadComments
  <2>2. RowsOK' /\ RowsKept
    BY <2>1, SameRows DEF DiscussionSafe
  <2>3. SectionOK'
    BY <2>1, SectionIsRecord, SectionChanges DEF SectionRecord, Top
  <2>4. PostOK'
    BY <2>1 DEF PostOK
  <2>5. LoadsOK'
    BY <2>1, <2>2, KeptListing DEF DiscussionSafe, LoadsOK, ListingOK
  <2> QED BY <1>1, <2>2, <2>3, <2>4, <2>5, KeptRequests DEF DiscussionSafe
<1> QED BY <1>2, <1>3, <1>4, <1>5

LEMMA AssistKeeps ==
  ASSUME DiscussionSafe, AskAssistant \/ RunAssist \/ AssistAnswered \/ AssistFails
  PROVE  DiscussionSafe'
<1>1. UNCHANGED <<commentRows, posting, patching, loads>>
  BY DEF AskAssistant, RunAssist, AssistAnswered, AssistFails
<1>2. RowsOK' /\ RowsKept
  BY <1>1, SameRows DEF DiscussionSafe
<1>3. SectionOK'
  <2>1. CASE section' = section
    BY <1>2, <2>1, KeptHolders DEF DiscussionSafe
  <2>2. CASE section' = [section EXCEPT !.text = {"machine"}, !.ai = TRUE]
    BY <1>1, <2>2, SectionIsRecord, SectionChanges DEF SectionRecord, Word
  <2> QED BY <2>1, <2>2 DEF AskAssistant, RunAssist, AssistAnswered, AssistFails
<1> QED BY <1>1, <1>2, <1>3, KeptRequests DEF DiscussionSafe

(* An edit is checked on one row and written on the same one: what it may put *)
(* there of the machine's was listed with the mark, and the mark is there.    *)
LEMMA EditingKeeps ==
  ASSUME DiscussionSafe, SaveEdit \/ CheckEdit \/ WriteEdit \/ EditAnswered \/ EditFails
  PROVE  DiscussionSafe'
<1>1. PostOK /\ posting' = posting
  BY DEF SaveEdit, CheckEdit, WriteEdit, EditAnswered, EditFails, DiscussionSafe
<1>2. CASE WriteEdit
  <2>1. /\ patching.id \in Row /\ patching.words \in SUBSET Word
        /\ "machine" \in patching.words => commentRows[patching.id].ai
        /\ commentRows' = [commentRows EXCEPT ![patching.id].words = patching.words]
        /\ patching' = [stage |-> "written"] /\ UNCHANGED <<section, loads>>
    BY <1>2 DEF WriteEdit, DiscussionSafe, PatchOK
  <2>2. RowsOK' /\ RowsKept
    BY <2>1, RowEditsKeep DEF DiscussionSafe
  <2>3. PatchOK'
    BY <2>1 DEF PatchOK
  <2> QED BY <1>1, <2>1, <2>2, <2>3, KeptHolders, KeptRequests DEF DiscussionSafe
<1>3. CASE SaveEdit
  <2>1. /\ UNCHANGED <<commentRows, section, loads>>
        /\ patching' = [stage |-> "sent", id |-> section.editing, words |-> section.edit]
        /\ section.editing # Top
    BY <1>3 DEF SaveEdit
  <2>2. RowsOK' /\ RowsKept /\ Row' = Row
    BY <2>1, SameRows DEF DiscussionSafe, Row
  <2>3. PatchOK'
    BY <2>1, <2>2, SectionIsRecord DEF PatchOK, SectionRecord
  <2> QED BY <1>1, <2>1, <2>2, <2>3, KeptHolders, KeptRequests DEF DiscussionSafe
<1>4. CASE CheckEdit \/ EditFails
  <2>1. UNCHANGED <<commentRows, section, loads>>
    BY <1>4 DEF CheckEdit, EditFails
  <2>2. RowsOK' /\ RowsKept /\ Row' = Row
    BY <2>1, SameRows DEF DiscussionSafe, Row
  <2>3. PatchOK'
    <3>1. CASE patching' = Nothing
      BY <3>1 DEF PatchOK, Nothing
    <3>2. CASE patching' = [patching EXCEPT !.stage = "checked"] /\ patching.stage = "sent"
      BY <2>1, <2>2, <3>2 DEF DiscussionSafe, PatchOK
    <3> QED BY <1>4, <3>1, <3>2 DEF CheckEdit, EditFails
  <2> QED BY <1>1, <2>1, <2>2, <2>3, KeptHolders, KeptRequests DEF DiscussionSafe
<1>5. CASE EditAnswered
  <2>1. /\ commentRows' = commentRows /\ patching' = Nothing
        /\ section' = [section EXCEPT !.editing = Top, !.edit = {}]
        /\ loads' = [loads EXCEPT !.asked = TRUE]
    BY <1>5 DEF EditAnswered, EditEnds, LoadComments
  <2>2. RowsOK' /\ RowsKept
    BY <2>1, SameRows DEF DiscussionSafe
  <2>3. SectionOK'
    BY <2>1, SectionIsRecord, SectionChanges DEF SectionRecord, Top
  <2>4. PatchOK'
    BY <2>1 DEF PatchOK, Nothing
  <2>5. LoadsOK'
    BY <2>1, <2>2, KeptListing DEF DiscussionSafe, LoadsOK, ListingOK
  <2> QED BY <1>1, <2>2, <2>3, <2>4, <2>5, KeptRequests DEF DiscussionSafe
<1> QED BY <1>2, <1>3, <1>4, <1>5

LEMMA SoftDeleteKeeps ==
  ASSUME DiscussionSafe, NEW c \in DOMAIN section.shown, SoftDelete(c)
  PROVE  DiscussionSafe'
<1>1. c \in Row /\ UNCHANGED <<section, posting, patching>>
  BY DEF SoftDelete, DiscussionSafe, SectionOK, ListingOK
<1>2. RowsOK' /\ RowsKept
  <2>1. Mark(c) \/ commentRows' = commentRows
    BY DEF SoftDelete
  <2> QED BY <1>1, <2>1, RowEditsKeep, SameRows DEF DiscussionSafe
<1>3. LoadsOK'
  <2>1. loads' = loads \/ loads' = [loads EXCEPT !.asked = TRUE]
    BY DEF SoftDelete, LoadComments
  <2> QED BY <1>2, <2>1, KeptListing, KeptRequests DEF DiscussionSafe, LoadsOK, ListingOK
<1> QED BY <1>1, <1>2, <1>3, KeptHolders, KeptRequests DEF DiscussionSafe

LEMMA DiscussionStart == CommentInit => DiscussionSafe
<1> SUFFICES ASSUME CommentInit PROVE DiscussionSafe
  OBVIOUS
<1>1. RowsOK
  BY CommentAssumption DEF CommentInit, RowsOK, RepliesAreAnchored, Row
<1>2. SectionOK
  <2>1. << >> \in Seq(CommentRow) /\ DOMAIN << >> = {}
    OBVIOUS
  <2>2. section \in SectionRecord
    BY <2>1 DEF CommentInit, SectionRecord, Top
  <2> QED BY <2>1, <2>2 DEF CommentInit, SectionOK, ListingOK, LinkIsReached, Top
<1>3. PostOK /\ PatchOK
  BY DEF CommentInit, PostOK, PatchOK, Nothing
<1>4. LoadsOK
  BY DEF CommentInit, LoadsOK
<1> QED BY <1>1, <1>2, <1>3, <1>4 DEF DiscussionSafe

LEMMA DiscussionStep == DiscussionSafe /\ [CommentNext]_commentVars => DiscussionSafe'
<1> SUFFICES ASSUME DiscussionSafe, [CommentNext]_commentVars PROVE DiscussionSafe'
  OBVIOUS
<1>1. CASE UNCHANGED commentVars
  <2>1. UNCHANGED <<commentRows, section, posting, patching, loads>>
    BY <1>1 DEF commentVars
  <2> QED BY <2>1, SameRows, KeptHolders, KeptRequests DEF DiscussionSafe
<1>2. ASSUME \/ \E c \in {Top} \union Row : OthersPost(c)
             \/ \E c \in Row : OthersDelete(c) \/ WindowCloses(c)
      PROVE  DiscussionSafe'
  BY <1>2, OthersKeep
<1>3. ASSUME ReadList \/ ListFails \/ \E rows \in loads.listings : ListArrives(rows)
      PROVE  DiscussionSafe'
  BY <1>3, LoadActionsKeep
<1>4. ASSUME \/ Compose \/ CancelReply \/ TypeEdit \/ CancelEdit
             \/ \E c \in CommentIndex : FollowLink(c)
             \/ \E c \in DOMAIN section.shown : ReplyTo(c) \/ StartEdit(c)
      PROVE  DiscussionSafe'
  BY <1>4, ComposingKeeps, SameRows, KeptRequests DEF DiscussionSafe
<1>5. ASSUME Submit \/ PostComment \/ PostAnswered \/ PostFails PROVE DiscussionSafe'
  BY <1>5, PostingKeeps
<1>6. ASSUME AskAssistant \/ RunAssist \/ AssistAnswered \/ AssistFails PROVE DiscussionSafe'
  BY <1>6, AssistKeeps
<1>7. ASSUME SaveEdit \/ CheckEdit \/ WriteEdit \/ EditAnswered \/ EditFails PROVE DiscussionSafe'
  BY <1>7, EditingKeeps
<1>8. ASSUME \E c \in DOMAIN section.shown : SoftDelete(c) PROVE DiscussionSafe'
  BY <1>8, SoftDeleteKeeps
<1> QED
  BY <1>1, <1>2, <1>3, <1>4, <1>5, <1>6, <1>7, <1>8 DEF CommentNext, Row

(* Words of the machine carry its mark in every row, in what the section      *)
(* shows and in the text being composed, replies hang from a comment on top,  *)
(* and a link that is followed is reached, although listings are old,         *)
(* requests overlap and an edit is written after its check                    *)
(* (CommentsSection.tsx, comments/route.ts).                                  *)
THEOREM DiscussionHolds == CommentSpec => []DiscussionIsHonest
<1>1. DiscussionSafe => DiscussionIsHonest
  BY DEF DiscussionSafe, RowsOK, SectionOK, ListingOK, DiscussionIsHonest, MachineIsMarked, Row
<1> QED BY <1>1, DiscussionStart, DiscussionStep, PTL DEF CommentSpec

------------------------------------------------------------------------------
(* The review queue of the Canvas *)

(* Natural numbers, one after the other. *)
LEMMA OneByOne ==
  ASSUME NEW S, 0 \in S, \A n \in Nat : n \in S => n + 1 \in S
  PROVE  Nat \subseteq S
<1> DEFINE Lt == {ss \in Nat \X Nat : ss[1] < ss[2]}
<1>1. IsWellFoundedOn(Lt, Nat)
  BY NatLessThanWellFounded DEF OpToRel
<1> SUFFICES ASSUME Nat \ S # {} PROVE FALSE
  OBVIOUS
<1>2. PICK x \in Nat \ S : \A y \in Nat \ S : <<y, x>> \notin Lt
  BY <1>1, WFMin
<1>3. x # 0 /\ x - 1 \in Nat /\ x - 1 < x
  BY <1>2
<1>4. x - 1 \in S
  BY <1>2, <1>3
<1> QED  BY <1>2, <1>3, <1>4

(* A turn exists, and each of its steps handles one action. *)
LEMMA HandleSteps ==
  ASSUME NEW r, Len(r.actions) \in Nat
  PROVE  \E turn : /\ turn[0] = Begun /\ Handle(r) = turn[Len(r.actions)]
                   /\ \A k \in 1 .. Len(r.actions) : turn[k] = HandleAction(turn[k - 1], r, k)
<1> DEFINE IsTurn(f, n) ==
             f = [k \in 0 .. n |-> IF k = 0 THEN Begun ELSE HandleAction(f[k - 1], r, k)]
           S == {n \in Nat : \E f : IsTurn(f, n)}
           n == Len(r.actions)
<1>1. 0 \in S
  <2> DEFINE f == [k \in 0 .. 0 |-> Begun]
  <2>1. IsTurn(f, 0)
    OBVIOUS
  <2> HIDE DEF f, IsTurn
  <2> QED  BY <2>1
<1>2. ASSUME NEW m \in Nat, m \in S PROVE m + 1 \in S
  <2>1. PICK f : IsTurn(f, m)
    BY <1>2
  <2> DEFINE g == [k \in 0 .. m + 1 |-> IF k = m + 1 THEN HandleAction(f[m], r, k) ELSE f[k]]
  <2>2. \A k \in 0 .. m : f[k] = IF k = 0 THEN Begun ELSE HandleAction(f[k - 1], r, k)
    BY <2>1
  <2>3. \A k \in 0 .. m + 1 : g[k] = IF k = 0 THEN Begun ELSE HandleAction(g[k - 1], r, k)
    <3> TAKE k \in 0 .. m + 1
    <3>1. CASE k = 0
      BY <2>2, <3>1
    <3>2. CASE k \in 1 .. m
      BY <2>2, <3>2
    <3>3. CASE k = m + 1
      BY <3>3
    <3> QED  BY <3>1, <3>2, <3>3
  <2>4. DOMAIN g = 0 .. m + 1 /\ g = [k \in 0 .. m + 1 |-> g[k]]
    OBVIOUS
  <2> HIDE DEF g
  <2>5. IsTurn(g, m + 1)
    BY <2>3, <2>4
  <2> HIDE DEF IsTurn
  <2> QED  BY <2>5
<1>3. n \in S
  <2> HIDE DEF S, n
  <2>1. Nat \subseteq S
    BY <1>1, <1>2, OneByOne
  <2> QED  BY <2>1 DEF n
<1> DEFINE turn == CHOOSE f : IsTurn(f, n)
<1>4. IsTurn(turn, n)
  <2> HIDE DEF IsTurn
  <2> QED  BY <1>3
<1>5. Handle(r) = turn[n]
  BY DEF Handle
<1> HIDE DEF turn
<1>6. turn[0] = Begun /\ \A k \in 1 .. n : turn[k] = HandleAction(turn[k - 1], r, k)
  <2>1. \A k \in 0 .. n : turn[k] = IF k = 0 THEN Begun ELSE HandleAction(turn[k - 1], r, k)
    BY <1>4
  <2>2. n \in Nat
    OBVIOUS
  <2> HIDE DEF n, IsTurn
  <2>3. 0 \in 0 .. n /\ \A k \in 1 .. n : k \in 0 .. n /\ k # 0
    BY <2>2
  <2> QED  BY <2>1, <2>3
<1> QED  BY <1>5, <1>6

(* A canvas and a document have the form the code gives them. *)
DocForm(d) == d = [version |-> d.version, nodes |-> d.nodes] /\ d.version \in Nat
CanvasForm(c) ==
  /\ c = [first |-> c.first, version |-> c.version, doc |-> c.doc]
  /\ {c.first, c.version} \subseteq Nat /\ DocForm(c.doc)

(* Each version has one applied proposal that names it, and no proposal names *)
(* a version still to come.                                                   *)
Names(p, v) == p.status \in Applied /\ p.after = v
Accounted(c, ps) ==
  /\ \A v \in c.first + 1 .. c.version :
       \E i \in DOMAIN ps : Names(ps[i], v) /\ \A j \in DOMAIN ps : Names(ps[j], v) => j = i
  /\ \A i \in DOMAIN ps : ps[i].status \in Applied => ps[i].after \in 0 .. c.version

(* An open proposal that could be approved holds what its action makes of the *)
(* present document.  A document ahead of its row is never saved over.        *)
Makes(doc, p) ==
  LET reduced == ReduceCanvasAction(doc, p.action) IN reduced.ok /\ p.doc.nodes = reduced.doc.nodes
IsAhead(c) == c.doc.version > c.version
RowForm(p) ==
  p = [request |-> p.request, index |-> p.index, action |-> p.action, status |-> p.status,
       before |-> p.before, after |-> p.after, doc |-> p.doc]
Current(c, p) ==
  /\ RowForm(p) /\ p.before \in Nat /\ DocForm(p.doc)
  /\ ~IsAhead(c) => p.before <= c.version
  /\ p.status = "queued" /\ p.before = c.doc.version /\ p.before = c.version => Makes(c.doc, p)
QueueCurrent(c, ps) == \A i \in DOMAIN ps : Current(c, ps[i])

CanvasSafe ==
  /\ CanvasForm(canvas) /\ \E S : proposals \in Seq(S)
  /\ Accounted(canvas, proposals) /\ QueueCurrent(canvas, proposals)

(* A turn: it knows the nodes of the row, and has added to both lists only.   *)
TurnSafe(t) ==
  /\ t = [canvas |-> t.canvas, proposals |-> t.proposals, capability |-> t.capability,
          known |-> t.known, thrown |-> t.thrown]
  /\ CanvasForm(t.canvas) /\ \E S : t.proposals \in Seq(S)
  /\ Accounted(t.canvas, t.proposals) /\ QueueCurrent(t.canvas, t.proposals)
  /\ DocForm(t.known) /\ t.known.nodes = t.canvas.doc.nodes
  /\ IF IsAhead(t.canvas) THEN t.known.version > t.canvas.version
                          ELSE t.known.version <= t.canvas.version
  /\ DOMAIN proposals \subseteq DOMAIN t.proposals
  /\ \A i \in DOMAIN proposals : t.proposals[i] = proposals[i]
  /\ canvas.doc.nodes \subseteq t.canvas.doc.nodes

LEMMA TurnBegins == ASSUME CanvasSafe PROVE TurnSafe(Begun)
BY DEF CanvasSafe, TurnSafe, Begun, CanvasForm, DocForm, IsAhead

(* What an action makes of a document. *)
LEMMA ReduceForm ==
  ASSUME NEW doc, DocForm(doc), NEW a, ReduceCanvasAction(doc, a).ok
  PROVE  LET next == ReduceCanvasAction(doc, a).doc IN
           /\ DocForm(next) /\ next.version = doc.version + 1
           /\ a.kind = "create" => next.nodes = doc.nodes \cup {a.node}
<1> DEFINE Next(nodes) == [version |-> doc.version + 1, nodes |-> nodes]
<1>1. \/ a.kind = "replace" /\ ReduceCanvasAction(doc, a).doc = Next(a.nodes)
      \/ a.kind \in {"place", "create"} /\ ReduceCanvasAction(doc, a).doc = Next(doc.nodes \cup {a.node})
      \/ a.kind = "remove" /\ ReduceCanvasAction(doc, a).doc = Next(doc.nodes \ {a.node})
  BY DEF ReduceCanvasAction
<1>2. \A nodes : DocForm(Next(nodes)) /\ Next(nodes).version = doc.version + 1 /\ Next(nodes).nodes = nodes
  BY DEF DocForm
<1> HIDE DEF Next
<1> QED  BY <1>1, <1>2

LEMMA ReduceNodes ==
  ASSUME NEW d, NEW e, DocForm(d), DocForm(e), d.version = e.version, d.nodes = e.nodes
  PROVE  d = e
BY DEF DocForm

(* The lists of proposals that a turn may leave. *)
Extended(c, ps, qs) ==
  /\ \E S : qs \in Seq(S)
  /\ Accounted(c, qs) /\ QueueCurrent(c, qs)
  /\ DOMAIN ps \subseteq DOMAIN qs /\ \A i \in DOMAIN ps : qs[i] = ps[i]

(* A row that is not applied. *)
LEMMA RowIsAdded ==
  ASSUME NEW c, NEW ps, NEW p, \E S : ps \in Seq(S),
         Accounted(c, ps), QueueCurrent(c, ps), p.status \notin Applied, Current(c, p)
  PROVE  Extended(c, ps, InsertProposal(ps, p))
<1> DEFINE qs == InsertProposal(ps, p)
<1>1. CASE qs = ps
  BY <1>1 DEF Extended
<1>2. CASE qs = Append(ps, p)
  <2>1. PICK S : ps \in Seq(S)
    OBVIOUS
  <2>2. ps \in Seq(S \cup {p}) /\ p \in S \cup {p}
    BY <2>1, SeqMonotonic
  <2> HIDE DEF qs
  <2>3. /\ qs \in Seq(S \cup {p}) /\ Len(ps) \in Nat /\ DOMAIN ps = 1 .. Len(ps)
        /\ DOMAIN qs = 1 .. Len(ps) + 1
        /\ \A i \in 1 .. Len(ps) : qs[i] = ps[i]
        /\ qs[Len(ps) + 1] = p
    BY <1>2, <2>2, AppendProperties, LenProperties
  <2>4. /\ \A i \in DOMAIN qs : i \in DOMAIN ps \/ qs[i] = p
        /\ DOMAIN ps \subseteq DOMAIN qs /\ \A i \in DOMAIN ps : qs[i] = ps[i]
    BY <2>3
  <2>5. QueueCurrent(c, qs)
    BY <2>4 DEF QueueCurrent
  <2>6. \A v : ~Names(p, v)
    BY DEF Names
  <2>7. ASSUME NEW v \in c.first + 1 .. c.version
        PROVE  \E i \in DOMAIN qs : Names(qs[i], v) /\ \A j \in DOMAIN qs : Names(qs[j], v) => j = i
    <3>1. PICK i \in DOMAIN ps : Names(ps[i], v) /\ \A j \in DOMAIN ps : Names(ps[j], v) => j = i
      BY <2>7 DEF Accounted
    <3>2. \A j \in DOMAIN qs : Names(qs[j], v) => j = i
      BY <2>4, <2>6, <3>1
    <3> QED  BY <2>4, <3>1, <3>2
  <2>8. \A i \in DOMAIN qs : qs[i].status \in Applied => qs[i].after \in 0 .. c.version
    BY <2>4 DEF Accounted
  <2>9. Accounted(c, qs)
    BY <2>7, <2>8 DEF Accounted
  <2> QED  BY <2>3, <2>4, <2>5, <2>9 DEF Extended, qs
<1> QED  BY <1>1, <1>2 DEF InsertProposal

(* A row that is applied with the save of the next version. *)
LEMMA AppliedIsAdded ==
  ASSUME NEW c, NEW e, NEW ps, NEW p, \E S : ps \in Seq(S), CanvasForm(c), CanvasForm(e),
         e.first = c.first, e.version = c.version + 1, e.doc.version <= e.version,
         Accounted(c, ps), QueueCurrent(c, ps), ~IsAhead(c),
         p.status \in Applied, p.after = e.version, p.before \in 0 .. c.version, DocForm(p.doc),
         RowForm(p)
  PROVE  Extended(e, ps, Append(ps, p))
<1> DEFINE qs == Append(ps, p)
<1>1. PICK S : ps \in Seq(S)
  OBVIOUS
<1>2. ps \in Seq(S \cup {p}) /\ p \in S \cup {p}
  BY <1>1, SeqMonotonic
<1>3. /\ qs \in Seq(S \cup {p}) /\ Len(ps) \in Nat /\ DOMAIN ps = 1 .. Len(ps)
      /\ DOMAIN qs = 1 .. Len(ps) + 1
      /\ \A i \in 1 .. Len(ps) : qs[i] = ps[i]
      /\ qs[Len(ps) + 1] = p
  BY <1>2, AppendProperties, LenProperties
<1> HIDE DEF qs
<1>4. /\ \A i \in DOMAIN qs : i \in DOMAIN ps \/ i = Len(ps) + 1
      /\ Len(ps) + 1 \in DOMAIN qs
      /\ DOMAIN ps \subseteq DOMAIN qs /\ \A i \in DOMAIN ps : qs[i] = ps[i]
  BY <1>3
<1>5. {c.first, c.version, e.version} \subseteq Nat
  BY DEF CanvasForm
<1>6. QueueCurrent(e, qs)
  <2>1. ASSUME NEW i \in DOMAIN ps PROVE Current(e, ps[i])
    BY <1>5, <2>1 DEF QueueCurrent, Current, IsAhead
  <2>2. Current(e, p)
    BY <1>5 DEF Current, IsAhead, Applied
  <2> QED  BY <1>3, <1>4, <2>1, <2>2 DEF QueueCurrent
<1>7. \A i \in DOMAIN ps : ~Names(ps[i], e.version)
  BY <1>5 DEF Accounted, Names
<1>8. \A v : Names(p, v) <=> v = e.version
  BY DEF Names
<1>9. ASSUME NEW v \in e.first + 1 .. e.version
      PROVE  \E i \in DOMAIN qs : Names(qs[i], v) /\ \A j \in DOMAIN qs : Names(qs[j], v) => j = i
  <2>1. CASE v = e.version
    <3>1. Names(qs[Len(ps) + 1], v)
      BY <1>3, <1>8, <2>1
    <3>2. \A j \in DOMAIN qs : Names(qs[j], v) => j = Len(ps) + 1
      BY <1>4, <1>7, <2>1
    <3> QED  BY <1>4, <3>1, <3>2
  <2>2. CASE v \in c.first + 1 .. c.version
    <3>1. PICK i \in DOMAIN ps : Names(ps[i], v) /\ \A j \in DOMAIN ps : Names(ps[j], v) => j = i
      BY <2>2 DEF Accounted
    <3>2. v # e.version
      BY <1>5, <2>2
    <3>3. \A j \in DOMAIN qs : Names(qs[j], v) => j = i
      BY <1>3, <1>4, <1>8, <3>1, <3>2
    <3> QED  BY <1>4, <3>1, <3>3
  <2>3. v = e.version \/ v \in c.first + 1 .. c.version
    BY <1>5, <1>9
  <2> QED  BY <2>1, <2>2, <2>3
<1>10. ASSUME NEW i \in DOMAIN qs, qs[i].status \in Applied PROVE qs[i].after \in 0 .. e.version
  <2>1. CASE i \in DOMAIN ps
    BY <1>4, <1>5, <1>10, <2>1 DEF Accounted
  <2>2. CASE i = Len(ps) + 1
    BY <1>3, <1>5, <2>2
  <2> QED  BY <1>4, <2>1, <2>2
<1>11. Accounted(e, qs)
  BY <1>9, <1>10 DEF Accounted
<1> QED  BY <1>3, <1>4, <1>6, <1>11 DEF Extended, qs

(* The rows of a turn may be extended, with the same canvas or a later one. *)
LEMMA TurnExtends ==
  ASSUME NEW t, TurnSafe(t), NEW c, NEW d, NEW qs, CanvasForm(c),
         Extended(c, t.proposals, qs), DocForm(d), d.nodes = c.doc.nodes,
         IF IsAhead(c) THEN d.version > c.version ELSE d.version <= c.version,
         t.canvas.doc.nodes \subseteq c.doc.nodes
  PROVE  TurnSafe([t EXCEPT !.canvas = c, !.known = d, !.proposals = qs])
<1> DEFINE e == [t EXCEPT !.canvas = c, !.known = d, !.proposals = qs]
<1>1. /\ e = [canvas |-> c, proposals |-> qs, capability |-> t.capability,
              known |-> d, thrown |-> t.thrown]
  <2>1. PICK c0, p0, d0, k0, b0 : t = [canvas |-> c0, proposals |-> p0, capability |-> k0,
                                       known |-> d0, thrown |-> b0]
    BY DEF TurnSafe
  <2>2. PICK u : u = [t EXCEPT !.canvas = c]
    OBVIOUS
  <2>3. PICK v : v = [u EXCEPT !.known = d]
    OBVIOUS
  <2>4. e = [v EXCEPT !.proposals = qs]
    BY <2>2, <2>3
  <2>5. u = [canvas |-> c, proposals |-> p0, capability |-> k0, known |-> d0, thrown |-> b0]
    BY <2>1, <2>2
  <2>6. v = [canvas |-> c, proposals |-> p0, capability |-> k0, known |-> d, thrown |-> b0]
    BY <2>3, <2>5
  <2>7. [v EXCEPT !.proposals = qs] = [canvas |-> c, proposals |-> qs, capability |-> t.capability,
                                       known |-> d, thrown |-> t.thrown]
    BY <2>1, <2>6
  <2> QED  BY <2>4, <2>7
<1>2. /\ e.canvas = c /\ e.proposals = qs /\ e.known = d
      /\ e = [canvas |-> e.canvas, proposals |-> e.proposals, capability |-> e.capability,
              known |-> e.known, thrown |-> e.thrown]
  BY <1>1
<1> HIDE DEF e
<1>3. DOMAIN proposals \subseteq DOMAIN qs /\ \A i \in DOMAIN proposals : qs[i] = proposals[i]
  BY DEF TurnSafe, Extended
<1>4. canvas.doc.nodes \subseteq c.doc.nodes
  BY DEF TurnSafe
<1>5. TurnSafe(e)
  BY <1>2, <1>3, <1>4 DEF TurnSafe, Extended
<1> QED  BY <1>5 DEF e

LEMMA RowsExtend ==
  ASSUME NEW t, TurnSafe(t), NEW qs, Extended(t.canvas, t.proposals, qs)
  PROVE  TurnSafe([t EXCEPT !.proposals = qs])
<1>1. [t EXCEPT !.proposals = qs] = [t EXCEPT !.canvas = t.canvas, !.known = t.known, !.proposals = qs]
  <2>1. PICK c0, p0, d0, k0, b0 : t = [canvas |-> c0, proposals |-> p0, capability |-> k0,
                                       known |-> d0, thrown |-> b0]
    BY DEF TurnSafe
  <2>2. PICK u : u = [t EXCEPT !.canvas = t.canvas]
    OBVIOUS
  <2>3. PICK v : v = [u EXCEPT !.known = t.known]
    OBVIOUS
  <2>4. [t EXCEPT !.canvas = t.canvas, !.known = t.known, !.proposals = qs] = [v EXCEPT !.proposals = qs]
    BY <2>2, <2>3
  <2>5. u = t
    BY <2>1, <2>2
  <2>6. v = t
    BY <2>1, <2>3, <2>5
  <2> QED  BY <2>4, <2>6
<1> DEFINE c == t.canvas
           d == t.known
<1>2. /\ CanvasForm(c) /\ DocForm(d) /\ d.nodes = c.doc.nodes
      /\ IF IsAhead(c) THEN d.version > c.version ELSE d.version <= c.version
      /\ Extended(c, t.proposals, qs) /\ t.canvas.doc.nodes \subseteq c.doc.nodes
  BY DEF TurnSafe
<1> HIDE DEF c, d
<1>3. TurnSafe([t EXCEPT !.canvas = c, !.known = d, !.proposals = qs])
  BY <1>2, TurnExtends
<1> QED  BY <1>1, <1>3 DEF c, d

LEMMA HandleKeeps ==
  ASSUME NEW t, TurnSafe(t), NEW r \in Response, NEW index \in DOMAIN r.actions
  PROVE  TurnSafe(HandleAction(t, r, index))
<1> DEFINE a == r.actions[index]
           reduced == ReduceCanvasAction(t.known, a)
           ok == a.kind # "bad" /\ CanSourcePropose(r.from, a.kind) /\ reduced.ok
           expected == IF t.known.version = 0 THEN t.canvas.version ELSE t.known.version
           next == SaveCanvasState(t.canvas, reduced.doc)
           after == [reduced.doc EXCEPT !.version = next.version]
           P(status, doc) == Proposal(r, index, a, status, t.known, doc)
           NewRow(status, doc) == InsertProposal(t.proposals, P(status, doc))
<1>0. /\ CanvasForm(t.canvas) /\ DocForm(t.known) /\ t.known.nodes = t.canvas.doc.nodes
      /\ (\E S : t.proposals \in Seq(S))
      /\ Accounted(t.canvas, t.proposals) /\ QueueCurrent(t.canvas, t.proposals)
      /\ IF IsAhead(t.canvas) THEN t.known.version > t.canvas.version
                              ELSE t.known.version <= t.canvas.version
  BY DEF TurnSafe
<1>1. \A status, doc : /\ RowForm(P(status, doc)) /\ P(status, doc).status = status /\ P(status, doc).before = t.known.version
                       /\ P(status, doc).doc = doc /\ P(status, doc).action = a
                       /\ P(status, doc).request = r.request
                       /\ status # "failed" => P(status, doc).after = doc.version
  BY DEF Proposal, RowForm
<1>2. reduced.ok => /\ DocForm(reduced.doc) /\ reduced.doc.version = t.known.version + 1
                    /\ a.kind = "create" => reduced.doc.nodes = t.known.nodes \cup {a.node}
  BY <1>0, ReduceForm
<1>3. \/ HandleAction(t, r, index) = t
      \/ HandleAction(t, r, index) = [t EXCEPT !.capability[a.node] = InsertCapability(@)]
      \/ ok /\ AutoApplies(a) /\ ~MaySave(t.canvas, expected)
         /\ HandleAction(t, r, index) = [t EXCEPT !.thrown = TRUE]
      \/ ok /\ AutoApplies(a) /\ MaySave(t.canvas, expected)
         /\ HandleAction(t, r, index)
              = [t EXCEPT !.canvas = next, !.known = after, !.proposals = NewRow("auto_applied", after)]
      \/ ok /\ HandleAction(t, r, index) = [t EXCEPT !.proposals = NewRow("queued", reduced.doc)]
      \/ HandleAction(t, r, index) = [t EXCEPT !.proposals = NewRow("failed", t.known)]
  BY DEF HandleAction
<1> HIDE DEF P, ok, expected, next, after
<1>4. CASE HandleAction(t, r, index) = [t EXCEPT !.capability[a.node] = InsertCapability(@)]
  BY <1>4 DEF TurnSafe
<1>5. CASE HandleAction(t, r, index) = [t EXCEPT !.thrown = TRUE]
  BY <1>5 DEF TurnSafe
<1>6. CASE /\ ok /\ AutoApplies(a) /\ MaySave(t.canvas, expected)
           /\ HandleAction(t, r, index)
                = [t EXCEPT !.canvas = next, !.known = after, !.proposals = NewRow("auto_applied", after)]
  <2>1. r.request = NoRequest
    BY <1>6, CanvasAssumption
  <2>2. NewRow("auto_applied", after) = Append(t.proposals, P("auto_applied", after))
    BY <1>1, <2>1 DEF InsertProposal, Duplicate
  <2>3. /\ next = [first |-> t.canvas.first, version |-> t.canvas.version + 1, doc |-> reduced.doc]
        /\ {t.canvas.first, t.canvas.version} \subseteq Nat
    <3>1. PICK f0, v0, d0 : t.canvas = [first |-> f0, version |-> v0, doc |-> d0]
      BY <1>0 DEF CanvasForm
    <3>2. PICK u : u = [t.canvas EXCEPT !.version = @ + 1]
      OBVIOUS
    <3>3. next = [u EXCEPT !.doc = reduced.doc]
      BY <3>2 DEF next, SaveCanvasState
    <3>4. u = [first |-> f0, version |-> v0 + 1, doc |-> d0]
      BY <3>1, <3>2
    <3>5. [u EXCEPT !.doc = reduced.doc] = [first |-> f0, version |-> v0 + 1, doc |-> reduced.doc]
      BY <3>4
    <3>6. {t.canvas.first, t.canvas.version} \subseteq Nat
      BY <1>0 DEF CanvasForm
    <3> QED  BY <3>1, <3>3, <3>5, <3>6
  <2>4. DocForm(reduced.doc) /\ reduced.doc.version = t.known.version + 1
    BY <1>2, <1>6 DEF ok
  <2>5. after = [version |-> t.canvas.version + 1, nodes |-> reduced.doc.nodes]
    BY <2>3, <2>4 DEF after, DocForm
  <2>6. a.kind = "create"
    BY <1>6 DEF AutoApplies, ActionLayer
  <2>7. ~IsAhead(t.canvas) /\ t.known.version <= t.canvas.version /\ t.known.version \in Nat
    BY <1>0, <1>6, <2>3 DEF expected, MaySave, DocForm
  <2>8. CanvasForm(next) /\ next.first = t.canvas.first /\ next.version = t.canvas.version + 1
        /\ next.doc = reduced.doc /\ next.doc.version <= next.version
    BY <2>3, <2>4, <2>7 DEF CanvasForm
  <2>9. DocForm(after) /\ after.version = next.version /\ after.nodes = next.doc.nodes
    BY <2>3, <2>5 DEF DocForm
  <2> DEFINE p == P("auto_applied", after)
  <2>10. /\ RowForm(p) /\ p.status \in Applied /\ p.after = next.version /\ DocForm(p.doc)
         /\ p.before \in 0 .. t.canvas.version
    BY <1>1, <2>3, <2>7, <2>9 DEF Applied
  <2> HIDE DEF p
  <2>11. Extended(next, t.proposals, Append(t.proposals, p))
    BY <1>0, <2>7, <2>8, <2>10, AppliedIsAdded
  <2>12. t.canvas.doc.nodes \subseteq next.doc.nodes
    BY <1>0, <1>2, <1>6, <2>6, <2>8 DEF ok
  <2>13. ~IsAhead(next) /\ after.version <= next.version
    <3>1. after.version = next.version /\ next.version \in Nat /\ next.doc.version \in Nat
      BY <2>8, <2>9 DEF CanvasForm, DocForm
    <3> QED  BY <2>8, <3>1 DEF IsAhead
  <2>14. TurnSafe([t EXCEPT !.canvas = next, !.known = after,
                            !.proposals = Append(t.proposals, p)])
    BY <2>8, <2>9, <2>11, <2>12, <2>13, TurnExtends
  <2> QED  BY <1>6, <2>2, <2>14 DEF p
<1>7. CASE ok /\ HandleAction(t, r, index) = [t EXCEPT !.proposals = NewRow("queued", reduced.doc)]
  <2> DEFINE p == P("queued", reduced.doc)
  <2>1. RowForm(p) /\ p.status = "queued" /\ p.before = t.known.version /\ p.doc = reduced.doc /\ p.action = a
    BY <1>1
  <2>2. DocForm(p.doc) /\ p.before \in Nat
    BY <1>0, <1>2, <1>7, <2>1 DEF ok, DocForm
  <2>3. ASSUME p.before = t.canvas.doc.version PROVE Makes(t.canvas.doc, p)
    <3>1. t.known = t.canvas.doc
      BY <1>0, <2>1, <2>3, ReduceNodes DEF CanvasForm
    <3> QED  BY <1>7, <2>1, <3>1 DEF Makes, ok
  <2>4. Current(t.canvas, p)
    BY <1>0, <2>1, <2>2, <2>3 DEF Current
  <2>5. p.status \notin Applied
    BY <2>1 DEF Applied
  <2> HIDE DEF p
  <2>6. Extended(t.canvas, t.proposals, InsertProposal(t.proposals, p))
    BY <1>0, <2>4, <2>5, RowIsAdded
  <2>7. TurnSafe([t EXCEPT !.proposals = InsertProposal(t.proposals, p)])
    BY <2>6, RowsExtend
  <2> QED  BY <1>7, <2>7 DEF p
<1>8. CASE HandleAction(t, r, index) = [t EXCEPT !.proposals = NewRow("failed", t.known)]
  <2> DEFINE p == P("failed", t.known)
  <2>1. RowForm(p) /\ p.status = "failed" /\ p.before = t.known.version /\ p.doc = t.known
    BY <1>1
  <2>2. Current(t.canvas, p) /\ p.status \notin Applied
    BY <1>0, <2>1 DEF Current, DocForm, Applied
  <2> HIDE DEF p
  <2>3. Extended(t.canvas, t.proposals, InsertProposal(t.proposals, p))
    BY <1>0, <2>2, RowIsAdded
  <2>4. TurnSafe([t EXCEPT !.proposals = InsertProposal(t.proposals, p)])
    BY <2>3, RowsExtend
  <2> QED  BY <1>8, <2>4 DEF p
<1> QED  BY <1>3, <1>4, <1>5, <1>6, <1>7, <1>8

(* A whole response. *)
LEMMA ResponseKeeps ==
  ASSUME CanvasSafe, NEW r \in Response
  PROVE  TurnSafe(Handle(r))
<1> DEFINE n == Len(r.actions)
<1>1. n \in Nat /\ DOMAIN r.actions = 1 .. n
  BY CanvasAssumption
<1>2. PICK turn : /\ turn[0] = Begun /\ Handle(r) = turn[n]
                  /\ \A k \in 1 .. n : turn[k] = HandleAction(turn[k - 1], r, k)
  BY <1>1, HandleSteps
<1> DEFINE S == {k \in Nat : k <= n => TurnSafe(turn[k])}
<1> HIDE DEF n
<1>3. 0 \in S
  BY <1>2, TurnBegins
<1>4. ASSUME NEW k \in Nat, k \in S PROVE k + 1 \in S
  <2>1. CASE k + 1 <= n
    <3>1. k + 1 \in 1 .. n /\ TurnSafe(turn[k]) /\ (k + 1) - 1 = k
      BY <1>1, <1>4, <2>1
    <3>2. TurnSafe(HandleAction(turn[k], r, k + 1))
      BY <1>1, <3>1, HandleKeeps
    <3>3. TurnSafe(turn[k + 1])
      BY <1>2, <3>1, <3>2
    <3> QED  BY <3>3
  <2>2. CASE ~(k + 1 <= n)
    BY <2>2
  <2> QED  BY <2>1, <2>2
<1>5. Nat \subseteq S
  <2> HIDE DEF S
  <2> QED  BY <1>3, <1>4, OneByOne
<1>6. TurnSafe(turn[n])
  BY <1>1, <1>5
<1> QED  BY <1>2, <1>6

LEMMA IngestKeeps ==
  ASSUME CanvasSafe, NEW r \in Response, Ingest(r)
  PROVE  CanvasSafe' /\ TurnSafe(Handle(r))
<1> DEFINE end == Handle(r)
<1>1. TurnSafe(end)
  BY ResponseKeeps
<1>2. canvas' = end.canvas /\ proposals' = end.proposals
  BY DEF Ingest
<1> HIDE DEF end
<1>3. CanvasSafe'
  BY <1>1, <1>2 DEF CanvasSafe, TurnSafe
<1> QED  BY <1>1, <1>3 DEF end

(* A decision on one row of the queue. *)
LEMMA RowDecides ==
  ASSUME NEW p, RowForm(p), NEW s, NEW v
  PROVE  /\ [p EXCEPT !.status = s]
              = [request |-> p.request, index |-> p.index, action |-> p.action, status |-> s,
                 before |-> p.before, after |-> p.after, doc |-> p.doc]
         /\ [p EXCEPT !.status = s, !.after = v]
              = [request |-> p.request, index |-> p.index, action |-> p.action, status |-> s,
                 before |-> p.before, after |-> v, doc |-> p.doc]
<1>1. PICK a, b, c, d, e, f, g : p = [request |-> a, index |-> b, action |-> c, status |-> d,
                                      before |-> e, after |-> f, doc |-> g]
  BY DEF RowForm
<1>2. PICK q : q = [p EXCEPT !.status = s]
  OBVIOUS
<1>3. q = [request |-> a, index |-> b, action |-> c, status |-> s,
           before |-> e, after |-> f, doc |-> g]
  BY <1>1, <1>2
<1>4. [q EXCEPT !.after = v] = [request |-> a, index |-> b, action |-> c, status |-> s,
                                before |-> e, after |-> v, doc |-> g]
  BY <1>3
<1>5. [p EXCEPT !.status = s, !.after = v] = [q EXCEPT !.after = v]
  BY <1>2
<1> QED  BY <1>1, <1>2, <1>3, <1>4, <1>5

LEMMA DecisionKeeps ==
  ASSUME NEW c, NEW ps, NEW i \in DOMAIN ps, NEW q, \E S : ps \in Seq(S), RowForm(q),
         QueueCurrent(c, ps), q.before = ps[i].before, q.doc = ps[i].doc, q.status # "queued"
  PROVE  LET qs == [ps EXCEPT ![i] = q] IN
           /\ \E S : qs \in Seq(S)
           /\ DOMAIN qs = DOMAIN ps /\ qs[i] = q /\ \A j \in DOMAIN ps \ {i} : qs[j] = ps[j]
           /\ QueueCurrent(c, qs)
<1> DEFINE qs == [ps EXCEPT ![i] = q]
<1>1. PICK S : ps \in Seq(S)
  OBVIOUS
<1>2. ps \in Seq(S \cup {q}) /\ q \in S \cup {q}
  BY <1>1, SeqMonotonic
<1>3. qs \in Seq(S \cup {q}) /\ DOMAIN qs = DOMAIN ps /\ qs[i] = q
      /\ \A j \in DOMAIN ps \ {i} : qs[j] = ps[j]
  BY <1>2, ExceptSeq, LenProperties
<1> HIDE DEF qs
<1>4. QueueCurrent(c, qs)
  BY <1>3 DEF QueueCurrent, Current
<1> QED  BY <1>3, <1>4 DEF qs

LEMMA RejectionKeeps ==
  ASSUME CanvasSafe, NEW i \in DOMAIN proposals, RejectProposal(i)
  PROVE  CanvasSafe'
<1>1. CASE proposals' = proposals
  BY <1>1 DEF RejectProposal, CanvasSafe
<1>2. CASE proposals[i].status = "queued" /\ proposals' # proposals
  <2> DEFINE q == [proposals[i] EXCEPT !.status = "rejected"]
  <2>1. proposals' = [proposals EXCEPT ![i] = q] /\ canvas' = canvas
    BY <1>2 DEF RejectProposal
  <2>2. RowForm(proposals[i])
    BY DEF CanvasSafe, QueueCurrent, Current
  <2>3. q = [request |-> proposals[i].request, index |-> proposals[i].index,
             action |-> proposals[i].action, status |-> "rejected",
             before |-> proposals[i].before, after |-> proposals[i].after, doc |-> proposals[i].doc]
    BY <2>2, RowDecides
  <2>4. RowForm(q) /\ q.before = proposals[i].before /\ q.doc = proposals[i].doc
        /\ q.status # "queued" /\ q.status \notin Applied
    BY <2>3 DEF RowForm, Applied
  <2> HIDE DEF q
  <2>5. /\ \E S : proposals' \in Seq(S)
        /\ DOMAIN proposals' = DOMAIN proposals /\ proposals'[i] = q
        /\ \A j \in DOMAIN proposals \ {i} : proposals'[j] = proposals[j]
        /\ QueueCurrent(canvas, proposals')
    BY <2>1, <2>4, DecisionKeeps DEF CanvasSafe
  <2>6. proposals[i].status \notin Applied
    BY <1>2 DEF Applied
  <2>7. \A v, j : j \in DOMAIN proposals => (Names(proposals'[j], v) <=> Names(proposals[j], v))
    BY <2>4, <2>5, <2>6 DEF Names
  <2>8. \A j \in DOMAIN proposals' : proposals'[j].status \in Applied => proposals'[j] = proposals[j]
    BY <2>4, <2>5
  <2>9. Accounted(canvas, proposals')
    BY <2>5, <2>7, <2>8 DEF CanvasSafe, Accounted
  <2> QED  BY <2>1, <2>5, <2>9 DEF CanvasSafe
<1> QED  BY <1>1, <1>2 DEF RejectProposal

(* What an approval does. *)
ApprovedBy(i) ==
  /\ proposals'[i].status = "applied" /\ Makes(canvas.doc, proposals[i]) /\ canvas'.doc.nodes = proposals[i].doc.nodes
  /\ DOMAIN proposals' = DOMAIN proposals
  /\ \A j \in DOMAIN proposals \ {i} : proposals'[j] = proposals[j]

LEMMA ApprovalKeeps ==
  ASSUME CanvasSafe, NEW i \in DOMAIN proposals, ApproveProposal(i)
  PROVE  CanvasSafe' /\ ApprovedBy(i)
<1> DEFINE p == proposals[i]
           n == canvas.version + 1
           doc == [p.doc EXCEPT !.version = n]
           q == [p EXCEPT !.status = "applied", !.after = n]
<1>1. /\ CanvasForm(canvas) /\ Accounted(canvas, proposals) /\ QueueCurrent(canvas, proposals)
      /\ Current(canvas, p) /\ RowForm(p) /\ DocForm(p.doc)
  BY DEF CanvasSafe, QueueCurrent, Current
<1>2. canvas.version \in Nat /\ canvas.first \in Nat /\ n \in Nat
  BY <1>1 DEF CanvasForm
<1>3. p.status = "queued" /\ canvas.doc.version = p.before /\ canvas.version = p.before
  BY DEF ApproveProposal, Approvable
<1>4. Makes(canvas.doc, p)
  BY <1>1, <1>3 DEF Current
<1>5. doc = [version |-> n, nodes |-> p.doc.nodes]
  BY <1>1 DEF DocForm
<1>6. DocForm(doc) /\ doc.version = n /\ doc.nodes = p.doc.nodes
  BY <1>2, <1>5 DEF DocForm
<1>7. SaveCanvasState(canvas, doc) = [first |-> canvas.first, version |-> n, doc |-> doc]
  <2> HIDE DEF doc
  <2>1. PICK f0, v0, d0 : canvas = [first |-> f0, version |-> v0, doc |-> d0]
    BY <1>1 DEF CanvasForm
  <2>2. PICK u : u = [canvas EXCEPT !.version = @ + 1]
    OBVIOUS
  <2>3. SaveCanvasState(canvas, doc) = [u EXCEPT !.doc = doc]
    BY <2>2 DEF SaveCanvasState
  <2>4. u = [first |-> f0, version |-> v0 + 1, doc |-> d0]
    BY <2>1, <2>2
  <2>5. [u EXCEPT !.doc = doc] = [first |-> f0, version |-> v0 + 1, doc |-> doc]
    BY <2>4
  <2> QED  BY <2>1, <2>3, <2>5
<1>8. /\ canvas' = SaveCanvasState(canvas, doc)
      /\ proposals' = [proposals EXCEPT ![i].status = "applied",
                                        ![i].after = SaveCanvasState(canvas, doc).version]
  BY DEF ApproveProposal
<1>9. canvas' = [first |-> canvas.first, version |-> n, doc |-> doc]
  BY <1>7, <1>8
<1>10. proposals' = [proposals EXCEPT ![i].status = "applied", ![i].after = n]
  <2>1. SaveCanvasState(canvas, doc).version = n
    BY <1>7
  <2> HIDE DEF doc, n
  <2> QED  BY <1>8, <2>1
<1>11. proposals' = [proposals EXCEPT ![i] = q]
  BY <1>10
<1>12. q = [request |-> p.request, index |-> p.index, action |-> p.action, status |-> "applied",
            before |-> p.before, after |-> n, doc |-> p.doc]
  <2> HIDE DEF p, n
  <2> QED  BY <1>1, RowDecides
<1>13. RowForm(q) /\ q.before = p.before /\ q.doc = p.doc /\ q.after = n /\ q.status = "applied"
  BY <1>12 DEF RowForm
<1> HIDE DEF q, doc
<1>14. /\ \E S : proposals' \in Seq(S)
       /\ DOMAIN proposals' = DOMAIN proposals /\ proposals'[i] = q
       /\ \A j \in DOMAIN proposals \ {i} : proposals'[j] = proposals[j]
       /\ QueueCurrent(canvas, proposals')
  BY <1>1, <1>11, <1>13, DecisionKeeps DEF CanvasSafe
<1>15. /\ canvas'.version = n /\ canvas'.first = canvas.first /\ canvas'.doc = doc
       /\ CanvasForm(canvas')
  BY <1>2, <1>6, <1>9 DEF CanvasForm
<1>16. QueueCurrent(canvas', proposals')
  <2>1. ASSUME NEW j \in DOMAIN proposals' PROVE Current(canvas', proposals'[j])
    <3>1. Current(canvas, proposals'[j])
      BY <1>14 DEF QueueCurrent
    <3>2. proposals'[j].before <= canvas.version /\ proposals'[j].before \in Nat
      BY <1>2, <1>3, <3>1 DEF Current, IsAhead
    <3> HIDE DEF n
    <3> QED  BY <1>2, <1>15, <3>1, <3>2 DEF Current, n
  <2> QED  BY <2>1 DEF QueueCurrent
<1>17. ASSUME NEW j \in DOMAIN proposals PROVE ~Names(proposals[j], n)
  BY <1>1, <1>2 DEF Accounted, Names
<1>18. \A v : ~Names(p, v)
  BY <1>3 DEF Names, Applied
<1>19. \A v : Names(q, v) <=> v = n
  BY <1>13 DEF Names, Applied
<1>20. ASSUME NEW v \in canvas'.first + 1 .. canvas'.version
       PROVE  \E k \in DOMAIN proposals' : /\ Names(proposals'[k], v)
                /\ \A j \in DOMAIN proposals' : Names(proposals'[j], v) => j = k
  <2>1. CASE v = n
    <3>1. Names(proposals'[i], v)
      BY <1>14, <1>19, <2>1
    <3>2. \A j \in DOMAIN proposals' : Names(proposals'[j], v) => j = i
      BY <1>14, <1>17, <2>1
    <3> QED  BY <1>14, <3>1, <3>2
  <2>2. CASE v \in canvas.first + 1 .. canvas.version
    <3>1. PICK k \in DOMAIN proposals : /\ Names(proposals[k], v)
            /\ \A j \in DOMAIN proposals : Names(proposals[j], v) => j = k
      BY <1>1, <2>2 DEF Accounted
    <3>2. k # i
      BY <1>18, <3>1
    <3>3. v # n
      BY <1>2, <2>2
    <3>4. \A j \in DOMAIN proposals' : Names(proposals'[j], v) => j = k
      BY <1>14, <1>19, <3>1, <3>3
    <3>5. Names(proposals'[k], v)
      BY <1>14, <3>1, <3>2
    <3> QED  BY <1>14, <3>1, <3>4, <3>5
  <2>3. v = n \/ v \in canvas.first + 1 .. canvas.version
    BY <1>2, <1>15, <1>20
  <2> QED  BY <2>1, <2>2, <2>3
<1>21. ASSUME NEW j \in DOMAIN proposals', proposals'[j].status \in Applied
       PROVE  proposals'[j].after \in 0 .. canvas'.version
  <2>1. CASE j = i
    BY <1>2, <1>13, <1>14, <1>15, <2>1
  <2>2. CASE j # i
    <3>1. proposals'[j] = proposals[j] /\ j \in DOMAIN proposals
      BY <1>14, <2>2
    <3>2. proposals[j].after \in 0 .. canvas.version
      BY <1>1, <1>21, <3>1 DEF Accounted
    <3> QED  BY <1>2, <1>15, <3>1, <3>2
  <2> QED  BY <2>1, <2>2
<1>22. Accounted(canvas', proposals')
  BY <1>20, <1>21 DEF Accounted
<1>23. CanvasSafe'
  BY <1>14, <1>15, <1>16, <1>22 DEF CanvasSafe
<1>24. ApprovedBy(i)
  BY <1>4, <1>6, <1>13, <1>14, <1>15 DEF ApprovedBy
<1> QED  BY <1>23, <1>24

LEMMA CanvasBegins == ASSUME ProposalsInit PROVE CanvasSafe
<1>1. PICK c \in FirstCanvas : canvas = [first |-> c.version, version |-> c.version, doc |-> c.doc]
  BY DEF ProposalsInit
<1>2. {c.version, c.doc.version} \subseteq Nat /\ c.doc = [version |-> c.doc.version, nodes |-> c.doc.nodes]
  BY CanvasAssumption
<1>3. CanvasForm(canvas) /\ canvas.first = canvas.version /\ canvas.version \in Nat
  BY <1>1, <1>2 DEF CanvasForm, DocForm
<1>4. proposals = << >> /\ DOMAIN proposals = {} /\ proposals \in Seq({})
  BY DEF ProposalsInit
<1>5. Accounted(canvas, proposals) /\ QueueCurrent(canvas, proposals)
  BY <1>3, <1>4 DEF Accounted, QueueCurrent
<1> QED  BY <1>3, <1>4, <1>5 DEF CanvasSafe

(* What each step of the desk is. *)
LEMMA DeskSteps ==
  ASSUME CanvasSafe, [ProposalsNext]_proposalVars
  PROVE  \/ \E r \in Response : Ingest(r)
         \/ \E i \in DOMAIN proposals : ApproveProposal(i)
         \/ \E i \in DOMAIN proposals : RejectProposal(i)
         \/ UNCHANGED <<canvas, proposals>>
<1>1. 1 .. Len(proposals) = DOMAIN proposals
  BY LenProperties DEF CanvasSafe
<1>2. ASSUME NEW r \in Reviewer, NEW i \in 1 .. Len(proposals), NEW what, ServePress(r, i, what)
      PROVE  \/ ApproveProposal(i) \/ RejectProposal(i) \/ UNCHANGED <<canvas, proposals>>
  BY <1>2 DEF ServePress
<1>3. ASSUME NEW r, Refresh(r) PROVE UNCHANGED <<canvas, proposals>>
  BY <1>3 DEF Refresh
<1>4. ASSUME NEW r, NEW i, NEW what, Press(r, i, what) PROVE UNCHANGED <<canvas, proposals>>
  BY <1>4 DEF Press
<1>5. ASSUME NEW r, NEW k, MarkPromoted(r, k) \/ Withdraw(r, k) PROVE UNCHANGED <<canvas, proposals>>
  BY <1>5 DEF MarkPromoted, Withdraw
<1> QED  BY <1>1, <1>2, <1>3, <1>4, <1>5 DEF ProposalsNext, proposalVars

LEMMA CanvasStep ==
  ASSUME CanvasSafe, [ProposalsNext]_proposalVars
  PROVE  CanvasSafe'
<1>1. ASSUME UNCHANGED <<canvas, proposals>> PROVE CanvasSafe'
  BY <1>1 DEF CanvasSafe
<1> QED  BY <1>1, DeskSteps, IngestKeeps, ApprovalKeeps, RejectionKeeps

LEMMA CanvasInvariant == ProposalsSpec => []CanvasSafe
<1>1. ProposalsInit => CanvasSafe
  BY CanvasBegins
<1>2. CanvasSafe /\ [ProposalsNext]_proposalVars => CanvasSafe'
  BY CanvasStep
<1> QED  BY <1>1, <1>2, PTL DEF ProposalsSpec

(* Each version saved since the start has exactly one applied proposal that   *)
(* names it (canvas_version_after).                                           *)
THEOREM VersionsHold == ProposalsSpec => []VersionsAreAccounted
<1>1. CanvasSafe => VersionsAreAccounted
  <2> SUFFICES ASSUME CanvasSafe, NEW v \in canvas.first + 1 .. canvas.version
               PROVE  Cardinality({i \in DOMAIN proposals :
                        proposals[i].status \in Applied /\ proposals[i].after = v}) = 1
    BY DEF VersionsAreAccounted
  <2>1. PICK k \in DOMAIN proposals : /\ Names(proposals[k], v)
          /\ \A j \in DOMAIN proposals : Names(proposals[j], v) => j = k
    BY DEF CanvasSafe, Accounted
  <2>2. {i \in DOMAIN proposals : proposals[i].status \in Applied /\ proposals[i].after = v} = {k}
    BY <2>1 DEF Names
  <2> QED  BY <2>2, FS_Singleton
<1> QED  BY <1>1, CanvasInvariant, PTL

(* An approval changes the canvas of now by the action of the proposal, and a *)
(* response only adds to it.                                                  *)
LEMMA ChangeStep ==
  ASSUME CanvasSafe, [ProposalsNext]_proposalVars
  PROVE  IF \E i \in Open(proposals) : proposals'[i].status = "applied"
         THEN \A i \in Open(proposals) : proposals'[i].status = "applied" =>
                LET reduced == ReduceCanvasAction(canvas.doc, proposals[i].action)
                IN reduced.ok /\ canvas'.doc.nodes = reduced.doc.nodes
         ELSE canvas.doc.nodes \subseteq canvas'.doc.nodes
<1> DEFINE Decided == \E i \in Open(proposals) : proposals'[i].status = "applied"
<1>0. \A i \in Open(proposals) : i \in DOMAIN proposals /\ proposals[i].status = "queued"
  BY DEF Open
<1>1. ASSUME NEW r \in Response, Ingest(r)
      PROVE  ~Decided /\ canvas.doc.nodes \subseteq canvas'.doc.nodes
  <2>1. TurnSafe(Handle(r))
    BY <1>1, IngestKeeps
  <2>2. canvas' = Handle(r).canvas /\ proposals' = Handle(r).proposals
    BY <1>1 DEF Ingest
  <2>3. \A i \in DOMAIN proposals : proposals'[i] = proposals[i]
    BY <2>1, <2>2 DEF TurnSafe
  <2> QED  BY <1>0, <2>1, <2>2, <2>3 DEF TurnSafe
<1>2. ASSUME NEW k \in DOMAIN proposals, ApproveProposal(k)
      PROVE  /\ k \in Open(proposals) /\ proposals'[k].status = "applied"
             /\ \A i \in Open(proposals) : proposals'[i].status = "applied" => i = k
             /\ Makes(canvas.doc, proposals[k]) /\ canvas'.doc.nodes = proposals[k].doc.nodes
  <2>1. ApprovedBy(k) /\ CanvasSafe'
    BY <1>2, ApprovalKeeps
  <2>2. k \in Open(proposals)
    BY <1>2 DEF ApproveProposal, Approvable, Open
  <2>3. \A i \in Open(proposals) : proposals'[i].status = "applied" => i = k
    BY <1>0, <2>1 DEF ApprovedBy
  <2> QED  BY <2>1, <2>2, <2>3 DEF ApprovedBy
<1>3. ASSUME NEW k \in DOMAIN proposals, RejectProposal(k)
      PROVE  ~Decided /\ canvas.doc.nodes \subseteq canvas'.doc.nodes
  <2>1. canvas' = canvas
    BY <1>3 DEF RejectProposal
  <2>2. CASE proposals' = proposals
    BY <1>0, <2>1, <2>2
  <2>3. CASE proposals' = [proposals EXCEPT ![k].status = "rejected"]
    <3>1. RowForm(proposals[k])
      BY DEF CanvasSafe, QueueCurrent, Current
    <3>2. [proposals[k] EXCEPT !.status = "rejected"].status = "rejected"
      BY <3>1, RowDecides
    <3>3. \A i \in DOMAIN proposals : proposals'[i].status \in {"rejected", proposals[i].status}
      BY <2>3, <3>2
    <3> QED  BY <1>0, <2>1, <3>3
  <2> QED  BY <1>3, <2>2, <2>3 DEF RejectProposal
<1>4. ASSUME UNCHANGED <<canvas, proposals>>
      PROVE  ~Decided /\ canvas.doc.nodes \subseteq canvas'.doc.nodes
  BY <1>0, <1>4
<1>5. CASE ~Decided /\ canvas.doc.nodes \subseteq canvas'.doc.nodes
  BY <1>5
<1>6. CASE \E k \in DOMAIN proposals : ApproveProposal(k)
  BY <1>2, <1>6 DEF Makes
<1> HIDE DEF Decided
<1> QED  BY <1>1, <1>3, <1>4, <1>5, <1>6, DeskSteps

THEOREM ChangesHold == ProposalsSpec => ChangesAreKept
<1>1. CanvasSafe /\ [ProposalsNext]_proposalVars =>
        [IF \E i \in Open(proposals) : proposals'[i].status = "applied"
         THEN \A i \in Open(proposals) : proposals'[i].status = "applied" =>
                LET reduced == ReduceCanvasAction(canvas.doc, proposals[i].action)
                IN reduced.ok /\ canvas'.doc.nodes = reduced.doc.nodes
         ELSE canvas.doc.nodes \subseteq canvas'.doc.nodes]_proposalVars
  BY ChangeStep
<1> QED  BY <1>1, CanvasInvariant, PTL DEF ProposalsSpec, ChangesAreKept

------------------------------------------------------------------------------
(* The canvas of a brief *)

(* Places in order: each of them once. *)
LEMMA Ordered ==
  ASSUME NEW S, S \subseteq Nat, IsFiniteSet(S), NEW key, \A j \in S : key[j] \in Nat
  PROVE  LET order == InOrder(S, key) IN
         /\ Cardinality(S) \in Nat /\ DOMAIN order = 1 .. Cardinality(S)
         /\ order = [k \in DOMAIN order |-> order[k]]
         /\ \A k \in DOMAIN order : order[k] \in S
         /\ \A j \in S : \E k \in DOMAIN order : order[k] = j
         /\ \A k, l \in DOMAIN order : order[k] = order[l] => k = l
<1> DEFINE before(j) == {i \in S : key[i] < key[j] \/ (key[i] = key[j] /\ i <= j)}
           rank == [j \in S |-> Cardinality(before(j))]
           ranked == {<<Cardinality(before(j)), j>> : j \in S}
           n == Cardinality(S)
<1>1. n \in Nat
  BY FS_CardinalityType
<1>2. ASSUME NEW j \in S
      PROVE  IsFiniteSet(before(j)) /\ Cardinality(before(j)) \in 1 .. n
  <2>1. before(j) \in SUBSET S /\ j \in before(j)
    BY <1>2
  <2> HIDE DEF before
  <2>2. IsFiniteSet(before(j)) /\ Cardinality(before(j)) <= Cardinality(S)
    BY <2>1, FS_Subset
  <2>3. Cardinality(before(j)) \in Nat /\ Cardinality(before(j)) # 0
    BY <2>1, <2>2, FS_CardinalityType, FS_EmptySet
  <2> QED  BY <1>1, <2>2, <2>3
<1>3. ASSUME NEW j \in S, NEW l \in S, key[j] < key[l] \/ (key[j] = key[l] /\ j < l)
      PROVE  Cardinality(before(j)) # Cardinality(before(l))
  <2>1. before(j) \in SUBSET before(l) /\ l \in before(l) /\ l \notin before(j)
    <3>1. \A i \in S : i \in Nat /\ key[i] \in Nat
      OBVIOUS
    <3>2. \A i \in S : key[i] < key[j] \/ (key[i] = key[j] /\ i <= j)
                       => key[i] < key[l] \/ (key[i] = key[l] /\ i <= l)
      BY <1>3, <3>1
    <3>3. key[l] = key[l] /\ l <= l
      BY <3>1
    <3>4. ~(key[l] < key[j] \/ (key[l] = key[j] /\ l <= j))
      BY <1>3, <3>1
    <3> QED  BY <3>2, <3>3, <3>4
  <2> HIDE DEF before
  <2>2. Cardinality(before(j)) < Cardinality(before(l))
    BY <1>2, <2>1, FS_Subset
  <2> QED  BY <1>2, <2>2
<1> HIDE DEF before
<1>4. rank \in [S -> 1 .. n] /\ \A j, l \in S : rank[j] = rank[l] => j = l
  <2>1. rank \in [S -> 1 .. n]
    BY <1>2
  <2>2. ASSUME NEW j \in S, NEW l \in S, j # l PROVE Cardinality(before(j)) # Cardinality(before(l))
    <3>1. j \in Nat /\ l \in Nat /\ key[j] \in Nat /\ key[l] \in Nat
      OBVIOUS
    <3>2. \/ key[j] < key[l] \/ (key[j] = key[l] /\ j < l)
          \/ key[l] < key[j] \/ (key[l] = key[j] /\ l < j)
      BY <2>2, <3>1
    <3> QED  BY <1>3, <3>2
  <2> QED  BY <2>1, <2>2
<1>5. \A k \in 1 .. n : \E j \in S : rank[j] = k
  <2>1. rank \in Injection(S, 1 .. n)
    BY <1>4 DEF Injection, IsInjective
  <2>2. IsFiniteSet(1 .. n) /\ Cardinality(1 .. n) = n
    BY <1>1, FS_Interval
  <2> HIDE DEF rank
  <2>3. rank \in Surjection(S, 1 .. n)
    BY <2>1, <2>2, FS_Injection
  <2> QED  BY <2>3 DEF Surjection
<1>6. \A k \in 1 .. n : (CHOOSE p \in ranked : p[1] = k)[2] \in S
                        /\ rank[(CHOOSE p \in ranked : p[1] = k)[2]] = k
  <2> TAKE k \in 1 .. n
  <2>1. PICK j \in S : rank[j] = k
    BY <1>5
  <2>2. <<Cardinality(before(j)), j>> \in ranked /\ <<Cardinality(before(j)), j>>[1] = k
    BY <2>1
  <2>3. \A p \in ranked : p[2] \in S /\ p[1] = rank[p[2]]
    OBVIOUS
  <2> HIDE DEF ranked, rank
  <2>4. (CHOOSE p \in ranked : p[1] = k) \in ranked /\ (CHOOSE p \in ranked : p[1] = k)[1] = k
    BY <2>2
  <2> QED  BY <2>3, <2>4
<1>7. InOrder(S, key) = [k \in 1 .. n |-> (CHOOSE p \in ranked : p[1] = k)[2]]
  BY DEF InOrder, before
<1> DEFINE order == InOrder(S, key)
<1> HIDE DEF ranked
<1>8. /\ DOMAIN order = 1 .. n /\ order = [k \in DOMAIN order |-> order[k]]
      /\ \A k \in 1 .. n : order[k] \in S /\ rank[order[k]] = k
  BY <1>6, <1>7
<1> HIDE DEF order, rank
<1>9. \A j \in S : \E k \in 1 .. n : order[k] = j
  <2> TAKE j \in S
  <2>1. rank[j] \in 1 .. n
    BY <1>4
  <2>2. order[rank[j]] = j
    BY <1>4, <1>8, <2>1
  <2> QED  BY <2>1, <2>2
<1> QED  BY <1>1, <1>8, <1>9 DEF order

(* A function on the first n numbers is a list.                               *)
LEMMA IsAList ==
  ASSUME NEW n \in Nat, NEW f, f = [k \in 1 .. n |-> f[k]]
  PROVE  Len(f) = n /\ DOMAIN f = 1 .. n
<1>1. f \in Seq({f[k] : k \in 1 .. n})
  BY IsASeq
<1> QED  BY <1>1

(* A list of tiles that fit the grid's width.                                 *)
Sized(ws) ==
  /\ Len(ws) \in Nat /\ DOMAIN ws = 1 .. Len(ws)
  /\ \A i \in DOMAIN ws : ws[i].w \in 1 .. GridCols /\ ws[i].h \in Nat

(* The packer's walk. *)
LEMMA PackSteps ==
  ASSUME NEW ws, Len(ws) \in Nat
  PROVE  \E after : /\ after[0] = [x |-> 0, y |-> 0, high |-> 0, spots |-> << >>]
                    /\ Pack(ws) = after[Len(ws)].spots
                    /\ \A k \in 1 .. Len(ws) : after[k] = Placed(after[k - 1], ws[k])
<1> DEFINE start == [x |-> 0, y |-> 0, high |-> 0, spots |-> << >>]
           IsWalk(f, n) == f = [k \in 0 .. n |-> IF k = 0 THEN start ELSE Placed(f[k - 1], ws[k])]
           S == {n \in Nat : \E f : IsWalk(f, n)}
           n == Len(ws)
<1> DEFINE after == CHOOSE f : IsWalk(f, n)
<1>5. Pack(ws) = after[n].spots
  BY DEF Pack
<1> HIDE DEF start
<1>1. 0 \in S
  <2> DEFINE f == [k \in 0 .. 0 |-> start]
  <2>1. IsWalk(f, 0)
    OBVIOUS
  <2> HIDE DEF f, IsWalk
  <2> QED  BY <2>1
<1>2. ASSUME NEW m \in Nat, m \in S PROVE m + 1 \in S
  <2>1. PICK f : IsWalk(f, m)
    BY <1>2
  <2> DEFINE g == [k \in 0 .. m + 1 |-> IF k = m + 1 THEN Placed(f[m], ws[k]) ELSE f[k]]
  <2>2. \A k \in 0 .. m : f[k] = IF k = 0 THEN start ELSE Placed(f[k - 1], ws[k])
    BY <2>1
  <2>3. \A k \in 0 .. m + 1 : g[k] = IF k = 0 THEN start ELSE Placed(g[k - 1], ws[k])
    <3> TAKE k \in 0 .. m + 1
    <3>1. CASE k = 0
      BY <2>2, <3>1
    <3>2. CASE k \in 1 .. m
      BY <2>2, <3>2
    <3>3. CASE k = m + 1
      BY <3>3
    <3> QED  BY <3>1, <3>2, <3>3
  <2>4. g = [k \in 0 .. m + 1 |-> g[k]]
    OBVIOUS
  <2> HIDE DEF g
  <2>5. IsWalk(g, m + 1)
    BY <2>3, <2>4
  <2> HIDE DEF IsWalk
  <2> QED  BY <2>5
<1>3. n \in S
  <2> HIDE DEF S, n
  <2>1. Nat \subseteq S
    BY <1>1, <1>2, OneByOne
  <2> QED  BY <2>1 DEF n
<1>4. IsWalk(after, n)
  <2> HIDE DEF IsWalk
  <2> QED  BY <1>3
<1> HIDE DEF after
<1>6. after[0] = start /\ \A k \in 1 .. n : after[k] = Placed(after[k - 1], ws[k])
  <2>1. \A k \in 0 .. n : after[k] = IF k = 0 THEN start ELSE Placed(after[k - 1], ws[k])
    BY <1>4
  <2>2. n \in Nat
    OBVIOUS
  <2> HIDE DEF n, IsWalk
  <2>3. 0 \in 0 .. n /\ \A k \in 1 .. n : k \in 0 .. n /\ k # 0
    BY <2>2
  <2> QED  BY <2>1, <2>3
<1> QED  BY <1>5, <1>6 DEF start

(* What has been placed when n tiles have: none overlap, and each is left of  *)
(* what is free in the row being filled, or above that row.                   *)
Spot == [x : Nat, y : Nat]
Apart(ws, s, i, j) ==
  \/ s[i].x + ws[i].w <= s[j].x \/ s[j].x + ws[j].w <= s[i].x
  \/ s[i].y + ws[i].h <= s[j].y \/ s[j].y + ws[j].h <= s[i].y
Packed(ws, row, n) ==
  /\ row.x \in 0 .. GridCols /\ row.y \in Nat /\ row.high \in Nat
  /\ row.spots \in Seq(Spot) /\ Len(row.spots) = n
  /\ \A i \in 1 .. n :
       /\ row.spots[i].x + ws[i].w <= GridCols
       /\ \/ row.spots[i].y = row.y /\ row.spots[i].x + ws[i].w <= row.x /\ ws[i].h <= row.high
          \/ row.spots[i].y + ws[i].h <= row.y
  /\ \A i, j \in 1 .. n : i # j => Apart(ws, row.spots, i, j)

(* What was placed is still in the row, or above it. *)
LEMMA InTheRow ==
  ASSUME NEW sx \in Nat, NEW sy \in Nat, NEW w \in Nat, NEW h \in Nat,
         NEW rx \in Nat, NEW ry \in Nat, NEW rh \in Nat,
         NEW x \in Nat, NEW y \in Nat, NEW high \in Nat,
         (sy = ry /\ sx + w <= rx /\ h <= rh) \/ sy + h <= ry,
         (y = ry /\ x = rx /\ rh <= high) \/ y = ry + rh
  PROVE  (sy = y /\ sx + w <= x /\ h <= high) \/ sy + h <= y
OBVIOUS

(* One more tile. *)
LEMMA PackStep ==
  ASSUME NEW ws, Sized(ws), NEW n \in Nat, n < Len(ws), NEW row, Packed(ws, row, n)
  PROVE  Packed(ws, Placed(row, ws[n + 1]), n + 1)
<1> DEFINE w == ws[n + 1]
           wraps == row.x + w.w > GridCols
           x == IF wraps THEN 0 ELSE row.x
           y == IF wraps THEN row.y + row.high ELSE row.y
           high == IF wraps \/ w.h > row.high THEN w.h ELSE row.high
           more == Append(row.spots, [x |-> x, y |-> y])
           next == Placed(row, w)
<1>1. next.x = x + w.w /\ next.y = y /\ next.high = high /\ next.spots = more
  BY DEF Placed
<1>2. /\ w.w \in 1 .. GridCols /\ w.w \in Nat /\ w.h \in Nat
      /\ row.x \in 0 .. GridCols /\ row.y \in Nat /\ row.high \in Nat
      /\ GridCols = 12
      /\ \A i \in 1 .. n : ws[i].w \in Nat /\ ws[i].h \in Nat
  <2>1. Len(ws) \in Nat /\ \A i \in 1 .. Len(ws) : ws[i].w \in 1 .. 12 /\ ws[i].h \in Nat
    BY DEF Sized, GridCols
  <2>2. n + 1 \in 1 .. Len(ws) /\ \A i \in 1 .. n : i \in 1 .. Len(ws)
    BY <2>1
  <2>3. row.x \in 0 .. GridCols /\ row.y \in Nat /\ row.high \in Nat
    BY DEF Packed
  <2>4. w.w \in 1 .. 12 /\ w.h \in Nat
    BY <2>1, <2>2
  <2>5. ASSUME NEW i \in 1 .. n PROVE ws[i].w \in Nat /\ ws[i].h \in Nat
    <3>1. i \in 1 .. Len(ws)
      BY <2>2
    <3>2. ws[i].w \in 1 .. 12 /\ ws[i].h \in Nat
      BY <2>1, <3>1
    <3> QED  BY <3>2
  <2> HIDE DEF w
  <2> QED  BY <2>3, <2>4, <2>5 DEF GridCols
<1>3. /\ x \in Nat /\ y \in Nat /\ high \in Nat /\ x + w.w \in 0 .. GridCols /\ w.h <= high
      /\ \/ y = row.y /\ x = row.x /\ row.high <= high
         \/ y = row.y + row.high
  <2> HIDE DEF w
  <2>0. PICK W \in 1 .. 12, H \in Nat, rx \in 0 .. 12, ry \in Nat, rh \in Nat :
           w.w = W /\ w.h = H /\ row.x = rx /\ row.y = ry /\ row.high = rh
    BY <1>2
  <2>1. CASE rx + W > 12
    <3>1. wraps /\ x = 0 /\ y = ry + rh /\ high = H
      BY <1>2, <2>0, <2>1
    <3> HIDE DEF wraps, x, y, high
    <3> QED  BY <1>2, <2>0, <3>1
  <2>2. CASE ~(rx + W > 12)
    <3>1. ~wraps /\ x = rx /\ y = ry /\ high = IF H > rh THEN H ELSE rh
      BY <1>2, <2>0, <2>2
    <3> HIDE DEF wraps, x, y, high
    <3> QED  BY <1>2, <2>0, <2>2, <3>1
  <2> QED  BY <2>1, <2>2
<1> HIDE DEF w, wraps, x, y, high, next
<1>5. /\ more \in Seq(Spot) /\ Len(more) = n + 1
      /\ \A i \in 1 .. n : more[i] = row.spots[i]
      /\ more[n + 1].x = x /\ more[n + 1].y = y
  <2>1. [x |-> x, y |-> y] \in Spot
    BY <1>3 DEF Spot
  <2> QED  BY <2>1, AppendProperties DEF Packed
<1> HIDE DEF more
<1>6. \A i \in 1 .. n : more[i].x \in Nat /\ more[i].y \in Nat
  <2>1. \A i \in 1 .. n : more[i] \in Spot
    BY <1>5
  <2> QED  BY <2>1 DEF Spot
<1>7. ASSUME NEW i \in 1 .. n
      PROVE  /\ more[i].x + ws[i].w <= GridCols
             /\ \/ more[i].y = y /\ more[i].x + ws[i].w <= x /\ ws[i].h <= high
                \/ more[i].y + ws[i].h <= y
  <2>1. /\ more[i].x + ws[i].w <= GridCols
        /\ \/ more[i].y = row.y /\ more[i].x + ws[i].w <= row.x /\ ws[i].h <= row.high
           \/ more[i].y + ws[i].h <= row.y
    BY <1>5 DEF Packed
  <2>2. more[i].x \in Nat /\ more[i].y \in Nat /\ ws[i].w \in Nat /\ ws[i].h \in Nat
    BY <1>2, <1>6
  <2>3. row.x \in Nat /\ row.y \in Nat /\ row.high \in Nat
    BY <1>2
  <2>4. x \in Nat /\ y \in Nat /\ high \in Nat
    BY <1>3
  <2>5. (y = row.y /\ x = row.x /\ row.high <= high) \/ y = row.y + row.high
    BY <1>3
  <2>6. \/ more[i].y = y /\ more[i].x + ws[i].w <= x /\ ws[i].h <= high
        \/ more[i].y + ws[i].h <= y
    <3>1. \/ more[i].y = row.y /\ more[i].x + ws[i].w <= row.x /\ ws[i].h <= row.high
          \/ more[i].y + ws[i].h <= row.y
      BY <2>1
    <3> HIDE <2>1, <1>1, <1>2, <1>3, <1>5, <1>6
    <3> QED  BY <2>2, <2>3, <2>4, <2>5, <3>1, InTheRow, SMTT(30)
  <2> QED  BY <2>1, <2>6
<1>8. \A i \in 1 .. n + 1 : i \in 1 .. n \/ i = n + 1
  OBVIOUS
<1>9. ASSUME NEW i \in 1 .. n + 1
      PROVE  /\ more[i].x + ws[i].w <= GridCols
             /\ \/ more[i].y = y /\ more[i].x + ws[i].w <= x + w.w /\ ws[i].h <= high
                \/ more[i].y + ws[i].h <= y
  <2>1. CASE i \in 1 .. n
    <3>1. /\ more[i].x + ws[i].w <= GridCols
          /\ \/ more[i].y = y /\ more[i].x + ws[i].w <= x /\ ws[i].h <= high
             \/ more[i].y + ws[i].h <= y
      BY <1>7, <2>1
    <3>2. more[i].x \in Nat /\ ws[i].w \in Nat
      BY <1>2, <1>6, <2>1
    <3>3. x \in Nat /\ w.w \in Nat
      <4>1. x \in Nat
        BY <1>3
      <4>2. w.w \in Nat
        BY <1>2
      <4> QED  BY <4>1, <4>2
    <3> QED  BY <3>1, <3>2, <3>3
  <2>2. CASE i = n + 1
    <3>1. more[i].x = x /\ more[i].y = y /\ ws[i] = w
      BY <1>5, <2>2 DEF w
    <3>2. x + w.w \in Nat /\ x + w.w <= GridCols /\ w.h <= high
      <4>1. GridCols = 12 /\ x + w.w \in 0 .. GridCols /\ w.h <= high
        BY <1>2, <1>3
      <4> HIDE DEF GridCols
      <4> QED  BY <4>1
    <3> QED  BY <3>1, <3>2
  <2> QED  BY <1>8, <2>1, <2>2
<1>10. ASSUME NEW i \in 1 .. n + 1, NEW j \in 1 .. n + 1, i # j
       PROVE  Apart(ws, more, i, j)
  <2>1. CASE i \in 1 .. n /\ j \in 1 .. n
    <3>1. Apart(ws, row.spots, i, j)
      BY <1>10, <2>1 DEF Packed
    <3> QED  BY <1>5, <2>1, <3>1 DEF Apart
  <2>2. CASE i \in 1 .. n /\ j = n + 1
    BY <1>5, <1>7, <2>2 DEF Apart
  <2>3. CASE i = n + 1 /\ j \in 1 .. n
    BY <1>5, <1>7, <2>3 DEF Apart
  <2> QED  BY <1>8, <1>10, <2>1, <2>2, <2>3
<1>11. Packed(ws, next, n + 1)
  BY <1>1, <1>3, <1>5, <1>9, <1>10 DEF Packed
<1> QED  BY <1>11 DEF next, w

(* The packer keeps every tile on the grid, and no two overlap.               *)
LEMMA PackFits ==
  ASSUME NEW ws, Sized(ws)
  PROVE  /\ DOMAIN Pack(ws) = DOMAIN ws
         /\ \A i \in DOMAIN ws : Pack(ws)[i].x + ws[i].w <= GridCols
         /\ \A i, j \in DOMAIN ws : i # j => Apart(ws, Pack(ws), i, j)
<1>0. Len(ws) \in Nat /\ DOMAIN ws = 1 .. Len(ws)
  BY DEF Sized
<1>1. PICK after : /\ after[0] = [x |-> 0, y |-> 0, high |-> 0, spots |-> << >>]
                   /\ Pack(ws) = after[Len(ws)].spots
                   /\ \A k \in 1 .. Len(ws) : after[k] = Placed(after[k - 1], ws[k])
  BY <1>0, PackSteps
<1> DEFINE S == {n \in Nat : n <= Len(ws) => Packed(ws, after[n], n)}
<1>2. 0 \in S
  <2>1. after[0].x = 0 /\ after[0].y = 0 /\ after[0].high = 0 /\ after[0].spots = << >>
    BY <1>1
  <2>2. << >> \in Seq(Spot) /\ Len(<< >>) = 0
    OBVIOUS
  <2>3. Packed(ws, after[0], 0)
    BY <2>1, <2>2 DEF Packed, GridCols
  <2> QED  BY <2>3
<1>3. ASSUME NEW n \in Nat, n \in S PROVE n + 1 \in S
  <2> SUFFICES ASSUME n + 1 <= Len(ws) PROVE Packed(ws, after[n + 1], n + 1)
    OBVIOUS
  <2>1. n < Len(ws) /\ n + 1 \in 1 .. Len(ws) /\ n <= Len(ws) /\ (n + 1) - 1 = n
    BY <1>0
  <2>2. after[n + 1] = Placed(after[n], ws[n + 1])
    BY <1>1, <2>1
  <2>3. Packed(ws, after[n], n)
    BY <1>3, <2>1
  <2> QED  BY <2>1, <2>2, <2>3, PackStep
<1>4. Packed(ws, after[Len(ws)], Len(ws))
  <2>1. Nat \subseteq S
    <3> HIDE DEF S
    <3> QED  BY <1>2, <1>3, OneByOne
  <2> QED  BY <1>0, <2>1
<1>5. DOMAIN Pack(ws) = 1 .. Len(ws)
  BY <1>1, <1>4, LenProperties DEF Packed
<1> QED  BY <1>0, <1>1, <1>4, <1>5 DEF Packed

(* Each widget past the action is in the top cluster, the tail or below.       *)
LEMMA AdmittedPlaces ==
  ASSUME NEW ws, Len(ws) \in Nat, DOMAIN ws = 1 .. Len(ws)
  PROVE  \A i \in DOMAIN ws : Admitted(ws)[i] \in Nat
<1> DEFINE start == [top |-> 0, bars |-> 0, places |-> << >>]
           n == Len(ws)
           IsWalk(f, m) == f = [k \in 0 .. m |-> IF k = 0 THEN start ELSE Admit(f[k - 1], ws[k])]
           T == {m \in Nat : \E f : IsWalk(f, m)}
           after == CHOOSE f : IsWalk(f, n)
<1>1. Admitted(ws) = after[n].places
  BY DEF Admitted
<1>2. start.places = << >> /\ << >> \in Seq(Nat) /\ Len(<< >>) = 0
  OBVIOUS
<1> HIDE DEF start
<1>3. ASSUME NEW acc, NEW w, acc.places \in Seq(Nat)
      PROVE  Admit(acc, w).places \in Seq(Nat) /\ Len(Admit(acc, w).places) = Len(acc.places) + 1
  <2>1. PICK p \in Nat : Admit(acc, w).places = Append(acc.places, p)
    BY DEF Admit
  <2> QED  BY <1>3, <2>1, AppendProperties
<1>4. 0 \in T
  <2> DEFINE f == [k \in 0 .. 0 |-> start]
  <2>1. IsWalk(f, 0) /\ f[0] = start
    OBVIOUS
  <2> HIDE DEF f, IsWalk
  <2> QED  BY <1>2, <2>1
<1>5. ASSUME NEW m \in Nat, m \in T PROVE m + 1 \in T
  <2>1. PICK f : IsWalk(f, m)
    BY <1>5
  <2> DEFINE g == [k \in 0 .. m + 1 |-> IF k = m + 1 THEN Admit(f[m], ws[k]) ELSE f[k]]
  <2>2. \A k \in 0 .. m : f[k] = IF k = 0 THEN start ELSE Admit(f[k - 1], ws[k])
    BY <2>1
  <2>3. \A k \in 0 .. m + 1 : g[k] = IF k = 0 THEN start ELSE Admit(g[k - 1], ws[k])
    <3> TAKE k \in 0 .. m + 1
    <3>1. CASE k = 0
      BY <2>2, <3>1
    <3>2. CASE k \in 1 .. m
      BY <2>2, <3>2
    <3>3. CASE k = m + 1
      BY <3>3
    <3> QED  BY <3>1, <3>2, <3>3
  <2>4. g = [k \in 0 .. m + 1 |-> g[k]]
    OBVIOUS
  <2> HIDE DEF g
  <2>5. IsWalk(g, m + 1)
    BY <2>3, <2>4
  <2> HIDE DEF IsWalk
  <2> QED  BY <2>5
<1>6. n \in T
  <2> HIDE DEF T, n
  <2>1. Nat \subseteq T
    BY <1>4, <1>5, OneByOne
  <2> QED  BY <2>1 DEF n
<1>7. IsWalk(after, n)
  <2> HIDE DEF IsWalk
  <2> QED  BY <1>6
<1> HIDE DEF after
<1>8. \A k \in 0 .. n : after[k] = IF k = 0 THEN start ELSE Admit(after[k - 1], ws[k])
  BY <1>7
<1> DEFINE S == {m \in Nat : m <= n => after[m].places \in Seq(Nat) /\ Len(after[m].places) = m}
<1>9. 0 \in S
  <2>1. 0 \in 0 .. n
    OBVIOUS
  <2> HIDE DEF n, IsWalk
  <2> QED  BY <1>2, <1>8, <2>1
<1>10. ASSUME NEW m \in Nat, m \in S PROVE m + 1 \in S
  <2> SUFFICES ASSUME m + 1 <= n
               PROVE  after[m + 1].places \in Seq(Nat) /\ Len(after[m + 1].places) = m + 1
    OBVIOUS
  <2>1. m + 1 \in 0 .. n /\ m + 1 # 0 /\ (m + 1) - 1 = m /\ m <= n
    OBVIOUS
  <2> HIDE DEF n, IsWalk
  <2>2. after[m + 1] = Admit(after[m], ws[m + 1])
    BY <1>8, <2>1
  <2>3. after[m].places \in Seq(Nat) /\ Len(after[m].places) = m
    BY <1>10, <2>1
  <2> QED  BY <1>3, <2>2, <2>3
<1>11. Nat \subseteq S
  <2> HIDE DEF S
  <2> QED  BY <1>9, <1>10, OneByOne
<1>12. after[n].places \in Seq(Nat) /\ Len(after[n].places) = n
  <2>1. n \in Nat /\ n <= n
    OBVIOUS
  <2> HIDE DEF n
  <2> QED  BY <1>11, <2>1
<1> QED  BY <1>1, <1>12

(* What is emitted are tiles that fit the grid's width. *)
IsTile(r) == r.w \in 1 .. GridCols /\ r.h \in Nat
AreTiles(s) == \E S : s \in Seq(S) /\ \A r \in S : IsTile(r)

(* One list of tiles after another. *)
LEMMA ConcatTiles ==
  ASSUME NEW s, NEW t, AreTiles(s), AreTiles(t)
  PROVE  AreTiles(s \o t)
<1>1. PICK S : s \in Seq(S) /\ \A r \in S : IsTile(r)
  BY DEF AreTiles
<1>2. PICK T : t \in Seq(T) /\ \A r \in T : IsTile(r)
  BY DEF AreTiles
<1>3. s \in Seq(S \cup T) /\ t \in Seq(S \cup T)
  BY <1>1, <1>2
<1>4. s \o t \in Seq(S \cup T)
  BY <1>3, ConcatProperties
<1> QED  BY <1>1, <1>2, <1>4 DEF AreTiles

(* A tile of a width of the grid. *)
LEMMA OneTile ==
  ASSUME NEW id, NEW kind, NEW key, NEW empty, NEW w \in 1 .. 12, NEW h \in Nat
  PROVE  IsTile(Tile(id, kind, key, empty, w, h))
BY DEF Tile, IsTile, GridCols

(* The sections and the insights are tiles. *)
LEMMA TileOf ==
  ASSUME NEW b, NEW id, NEW key, NEW w \in 1 .. 12, NEW h \in Nat
  PROVE  IsTile(Section(b, id, key, w, h)) /\ IsTile(Insight(b, id, key, w, h))
BY OneTile DEF Section, Insight

(* A row of the canvas is a list of tiles. *)
LEMMA TilesOf ==
  ASSUME NEW S, \A r \in S : IsTile(r), NEW a \in S, NEW b \in S, NEW c \in S, NEW d \in S,
         NEW e \in S, NEW f \in S, NEW g \in S
  PROVE  /\ AreTiles(<< >>) /\ AreTiles(<<a>>) /\ AreTiles(<<a, b, c, d>>)
         /\ AreTiles(<<a, b, c, d, e>>) /\ AreTiles(<<a, b, c, d, e, f, g>>)
<1>1. << >> \in Seq(S) /\ <<a>> \in Seq(S)
  OBVIOUS
<1>2. <<a, b, c, d>> \in Seq(S) /\ <<a, b, c, d, e>> \in Seq(S)
  OBVIOUS
<1>3. <<a, b, c, d, e, f, g>> \in Seq(S)
  OBVIOUS
<1> QED  BY <1>1, <1>2, <1>3 DEF AreTiles

(* The rows of the canvas, whatever their tiles. *)
LEMMA FewTiles ==
  /\ AreTiles(<< >>)
  /\ \A a : IsTile(a) => AreTiles(<<a>>)
  /\ \A a, b, c, d : IsTile(a) /\ IsTile(b) /\ IsTile(c) /\ IsTile(d) => AreTiles(<<a, b, c, d>>)
  /\ \A a, b, c, d, e : IsTile(a) /\ IsTile(b) /\ IsTile(c) /\ IsTile(d) /\ IsTile(e)
       => AreTiles(<<a, b, c, d, e>>)
  /\ \A a, b, c, d, e, f, g :
       IsTile(a) /\ IsTile(b) /\ IsTile(c) /\ IsTile(d) /\ IsTile(e) /\ IsTile(f) /\ IsTile(g)
       => AreTiles(<<a, b, c, d, e, f, g>>)
<1>1. ASSUME NEW a, IsTile(a) PROVE AreTiles(<< >>) /\ AreTiles(<<a>>)
  <2> DEFINE S == {a}
  <2>1. a \in S /\ \A r \in S : IsTile(r)
    BY <1>1
  <2> HIDE DEF S
  <2> QED  BY <2>1, TilesOf
<1>2. ASSUME NEW a, NEW b, NEW c, NEW d, IsTile(a), IsTile(b), IsTile(c), IsTile(d)
      PROVE  AreTiles(<<a, b, c, d>>)
  <2> DEFINE S == {a, b, c, d}
  <2>1. a \in S /\ b \in S /\ c \in S /\ d \in S /\ \A r \in S : IsTile(r)
    BY <1>2
  <2> HIDE DEF S
  <2> QED  BY <2>1, TilesOf
<1>3. ASSUME NEW a, NEW b, NEW c, NEW d, NEW e, IsTile(a), IsTile(b), IsTile(c), IsTile(d), IsTile(e)
      PROVE  AreTiles(<<a, b, c, d, e>>)
  <2> DEFINE S == {a, b, c, d, e}
  <2>1. a \in S /\ b \in S /\ c \in S /\ d \in S /\ e \in S /\ \A r \in S : IsTile(r)
    BY <1>3
  <2> HIDE DEF S
  <2> QED  BY <2>1, TilesOf
<1>4. ASSUME NEW a, NEW b, NEW c, NEW d, NEW e, NEW f, NEW g, IsTile(a), IsTile(b), IsTile(c), IsTile(d),
             IsTile(e), IsTile(f), IsTile(g)
      PROVE  AreTiles(<<a, b, c, d, e, f, g>>)
  <2> DEFINE S == {a, b, c, d, e, f, g}
  <2>1. /\ a \in S /\ b \in S /\ c \in S /\ d \in S /\ e \in S /\ f \in S /\ g \in S
        /\ \A r \in S : IsTile(r)
    BY <1>4
  <2> HIDE DEF S
  <2> QED  BY <2>1, TilesOf
<1>5. AreTiles(<< >>)
  <2>1. 1 \in 1 .. 12 /\ 1 \in Nat
    OBVIOUS
  <2>2. IsTile(Tile("", "", "", FALSE, 1, 1))
    BY <2>1, OneTile
  <2> QED  BY <1>1, <2>2
<1> QED  BY <1>1, <1>2, <1>3, <1>4, <1>5

(* What is emitted for a brief is a list of tiles. *)
LEMMA EmittedTiles ==
  ASSUME NEW b \in CanvasBrief
  PROVE  AreTiles(EmittedRows(b))
<1>1. 6 \in 1 .. 12 /\ 4 \in 1 .. 12 /\ 8 \in 1 .. 12 /\ 12 \in 1 .. 12
  OBVIOUS
<1>2. 2 \in Nat /\ 3 \in Nat /\ 4 \in Nat /\ 5 \in Nat
  OBVIOUS
<1>3. AreTiles(DecisionRows(b))
  BY <1>1, <1>2, TileOf, FewTiles DEF DecisionRows
<1>4. AreTiles(BuyingRow(b))
  BY <1>1, <1>2, TileOf, FewTiles DEF BuyingRow
<1>5. AreTiles(LandscapeRows(b))
  BY <1>1, <1>2, TileOf, FewTiles DEF LandscapeRows
<1>6. AreTiles(OpenQuestions(b))
  BY <1>1, <1>2, TileOf, FewTiles DEF OpenQuestions
<1>7. AreTiles(AccountRows(b))
  BY <1>1, <1>2, TileOf, FewTiles DEF AccountRows
<1> DEFINE more == [i \in DOMAIN b.extensions |-> ExtensionWidget(b.extensions[i])]
<1>8. AreTiles(more)
  <2>1. Len(b.extensions) \in Nat /\ DOMAIN b.extensions = 1 .. Len(b.extensions)
    <3> DEFINE Ext == [id : STRING, kind : {"card", "table", "list", "narrative"}, empty : BOOLEAN]
    <3>1. b.extensions \in Seq(Ext)
      BY CanvasBriefAssumption
    <3> HIDE DEF Ext
    <3> QED  BY <3>1, LenProperties
  <2>2. \A e : IsTile(ExtensionWidget(e))
    <3> TAKE e
    <3> DEFINE w == IF e.kind \in {"table", "narrative"} THEN 12 ELSE 6
               h == IF e.kind = "table" THEN 4 ELSE 3
    <3>1. w \in 1 .. 12 /\ h \in Nat
      <4>1. w = 12 \/ w = 6
        OBVIOUS
      <4>2. h = 4 \/ h = 3
        OBVIOUS
      <4> HIDE DEF w, h
      <4> QED  BY <4>1, <4>2
    <3>2. ExtensionWidget(e) = Tile(e.id, "extension", "", e.empty, w, h)
      BY DEF ExtensionWidget
    <3> HIDE DEF w, h
    <3> QED  BY <3>1, <3>2, OneTile
  <2> DEFINE S == {ExtensionWidget(b.extensions[i]) : i \in DOMAIN b.extensions}
  <2>3. more \in Seq(S)
    BY <2>1, IsASeq
  <2> QED  BY <2>2, <2>3 DEF AreTiles
<1> HIDE DEF more
<1>9. AreTiles(DecisionRows(b) \o BuyingRow(b))
  BY <1>3, <1>4, ConcatTiles
<1>10. AreTiles(DecisionRows(b) \o BuyingRow(b) \o LandscapeRows(b))
  BY <1>5, <1>9, ConcatTiles
<1>11. AreTiles(DecisionRows(b) \o BuyingRow(b) \o LandscapeRows(b) \o OpenQuestions(b))
  BY <1>6, <1>10, ConcatTiles
<1>12. AreTiles(DecisionRows(b) \o BuyingRow(b) \o LandscapeRows(b) \o OpenQuestions(b) \o more)
  BY <1>8, <1>11, ConcatTiles
<1> QED  BY <1>7, <1>12, ConcatTiles DEF EmittedRows, more

(* A list of widgets that holds each row emitted once.                         *)
Carries(ws, rows) ==
  /\ Len(ws) \in Nat /\ DOMAIN ws = 1 .. Len(ws)
  /\ \A i \in DOMAIN ws :
       /\ ws[i].at \in DOMAIN rows /\ ws[i].names = {}
       /\ ws[i].id = rows[ws[i].at].id /\ ws[i].kind = rows[ws[i].at].kind
       /\ ws[i].empty = rows[ws[i].at].empty
       /\ ws[i].w = rows[ws[i].at].w /\ ws[i].h = rows[ws[i].at].h
  /\ \A e \in DOMAIN rows : \E i \in DOMAIN ws : ws[i].at = e
  /\ \A i, j \in DOMAIN ws : ws[i].at = ws[j].at => i = j

(* The widgets emitted are the rows, one each. *)
LEMMA EmittedCarry ==
  ASSUME NEW b \in CanvasBrief, NEW forms
  PROVE  Carries(EmittedWidgets(b, forms), EmittedRows(b))
<1> DEFINE rows == EmittedRows(b)
           form(id) == IF id \in DOMAIN forms THEN forms[id] ELSE "default"
           ws == EmittedWidgets(b, forms)
<1>1. Len(rows) \in Nat /\ DOMAIN rows = 1 .. Len(rows)
  BY EmittedTiles, LenProperties DEF AreTiles
<1>2. ws = [i \in DOMAIN rows |-> Widget(rows[i], form(rows[i].id), i, {})]
  BY DEF EmittedWidgets
<1> HIDE DEF rows, ws
<1>3. Len(ws) = Len(rows) /\ DOMAIN ws = 1 .. Len(rows)
  BY <1>1, <1>2, IsAList
<1>4. ASSUME NEW i \in DOMAIN rows
      PROVE  /\ ws[i].at = i /\ ws[i].names = {} /\ ws[i].id = rows[i].id /\ ws[i].kind = rows[i].kind
             /\ ws[i].empty = rows[i].empty /\ ws[i].w = rows[i].w /\ ws[i].h = rows[i].h
  BY <1>2 DEF Widget
<1> QED  BY <1>1, <1>3, <1>4 DEF Carries, rows, ws

(* Widgets that carry the rows fit the grid, as the rows do. *)
LEMMA CarriedAreSized ==
  ASSUME NEW b \in CanvasBrief, NEW ws, Carries(ws, EmittedRows(b))
  PROVE  Sized(ws)
<1>1. \A i \in DOMAIN EmittedRows(b) : IsTile(EmittedRows(b)[i])
  BY EmittedTiles, LenProperties, ElementOfSeq DEF AreTiles
<1>2. \A i \in DOMAIN ws : ws[i].w \in 1 .. GridCols /\ ws[i].h \in Nat
  BY <1>1 DEF Carries, IsTile
<1> QED  BY <1>2 DEF Carries, Sized

(* Another order of the same widgets.                                          *)
LEMMA ReorderedCarry ==
  ASSUME NEW ws, NEW rows, Carries(ws, rows), NEW key, \A i \in DOMAIN ws : key[i] \in Nat
  PROVE  Carries(Reordered(ws, key), rows)
<1> DEFINE order == InOrder(DOMAIN ws, key)
           new == Reordered(ws, key)
           n == Cardinality(DOMAIN ws)
<1>1. DOMAIN ws \subseteq Nat /\ IsFiniteSet(DOMAIN ws)
  <2>1. Len(ws) \in Nat /\ DOMAIN ws = 1 .. Len(ws)
    BY DEF Carries
  <2>2. IsFiniteSet(1 .. Len(ws))
    BY <2>1, FS_Interval
  <2> QED  BY <2>1, <2>2
<1>2. /\ n \in Nat /\ DOMAIN order = 1 .. n
      /\ \A k \in 1 .. n : order[k] \in DOMAIN ws
      /\ \A j \in DOMAIN ws : \E k \in 1 .. n : order[k] = j
      /\ \A k, l \in 1 .. n : order[k] = order[l] => k = l
  BY <1>1, Ordered
<1>3. new = [k \in 1 .. n |-> ws[order[k]]]
  BY <1>2 DEF Reordered
<1> HIDE DEF order, new, n
<1>4. Len(new) = n /\ DOMAIN new = 1 .. n /\ \A k \in 1 .. n : new[k] = ws[order[k]]
  BY <1>2, <1>3, IsAList
<1>5. \A e \in DOMAIN rows : \E k \in 1 .. n : new[k].at = e
  <2> TAKE e \in DOMAIN rows
  <2>1. PICK i \in DOMAIN ws : ws[i].at = e
    BY DEF Carries
  <2>2. PICK k \in 1 .. n : order[k] = i
    BY <1>2
  <2> QED  BY <1>4, <2>1, <2>2
<1>6. ASSUME NEW k \in 1 .. n, NEW l \in 1 .. n, new[k].at = new[l].at PROVE k = l
  <2>1. order[k] \in DOMAIN ws /\ order[l] \in DOMAIN ws
    BY <1>2
  <2>2. ws[order[k]].at = ws[order[l]].at
    BY <1>4, <1>6
  <2>3. order[k] = order[l]
    BY <2>1, <2>2 DEF Carries
  <2> QED  BY <1>2, <2>3
<1>7. ASSUME NEW k \in 1 .. n
      PROVE  /\ new[k].at \in DOMAIN rows /\ new[k].names = {}
             /\ new[k].id = rows[new[k].at].id /\ new[k].kind = rows[new[k].at].kind
             /\ new[k].empty = rows[new[k].at].empty
             /\ new[k].w = rows[new[k].at].w /\ new[k].h = rows[new[k].at].h
  <2> DEFINE i == order[k]
  <2>1. i \in DOMAIN ws /\ new[k] = ws[i]
    BY <1>2, <1>4
  <2> HIDE DEF i
  <2>2. /\ ws[i].at \in DOMAIN rows /\ ws[i].names = {}
        /\ ws[i].id = rows[ws[i].at].id /\ ws[i].kind = rows[ws[i].at].kind
        /\ ws[i].empty = rows[ws[i].at].empty
        /\ ws[i].w = rows[ws[i].at].w /\ ws[i].h = rows[ws[i].at].h
    BY <2>1 DEF Carries
  <2> QED  BY <2>1, <2>2
<1> QED  BY <1>2, <1>4, <1>5, <1>6, <1>7 DEF Carries, new

(* The planner arranges the widgets, and loses none. *)
LEMMA ArrangedCarry ==
  ASSUME NEW ws, NEW rows, Carries(ws, rows), NEW forms
  PROVE  Carries(Arranged(ws, forms), rows)
<1> DEFINE turn == [i \in DOMAIN ws |-> Turn(ws[i], forms)]
           ordered == Reordered(ws, turn)
<1>1. \A w : Turn(w, forms) \in Nat
  <2> TAKE w
  <2> DEFINE promoted == {k \in DOMAIN Candidates :
                            w.id = Candidates[k] /\ forms[w.id] # "default" /\ ~IsBar(w)}
  <2>1. DOMAIN Candidates = 1 .. 3 /\ Len(Candidates) = 3
    BY DEF Candidates
  <2>2. promoted \subseteq 1 .. 3
    BY <2>1
  <2>3. Turn(w, forms) = IF w.id = "action-next" THEN 0
          ELSE IF promoted # {} THEN CHOOSE k \in promoted : TRUE ELSE 1 + Len(Candidates)
    BY DEF Turn
  <2> HIDE DEF promoted
  <2>4. promoted # {} => (CHOOSE k \in promoted : TRUE) \in Nat
    <3> SUFFICES ASSUME promoted # {} PROVE (CHOOSE k \in promoted : TRUE) \in Nat
      OBVIOUS
    <3>1. (CHOOSE k \in promoted : TRUE) \in promoted
      OBVIOUS
    <3>2. 1 .. 3 \subseteq Nat
      OBVIOUS
    <3> QED  BY <2>2, <3>1, <3>2
  <2> QED  BY <2>1, <2>3, <2>4
<1>2. \A i \in DOMAIN ws : turn[i] \in Nat
  BY <1>1
<1> HIDE DEF turn
<1>3. Carries(ordered, rows)
  BY <1>2, ReorderedCarry
<1> HIDE DEF ordered
<1>4. \A i \in DOMAIN ordered : Admitted(ordered)[i] \in Nat
  BY <1>3, AdmittedPlaces DEF Carries
<1>5. Carries(Reordered(ordered, Admitted(ordered)), rows)
  BY <1>3, <1>4, ReorderedCarry
<1> QED  BY <1>5 DEF Arranged, ordered, turn

(* Two members or more. *)
LEMMA TwoOrMore ==
  ASSUME NEW S, IsFiniteSet(S)
  PROVE  Cardinality(S) >= 2 <=> \E x, y \in S : x # y
<1>1. ASSUME NEW x \in S, NEW y \in S, x # y PROVE Cardinality(S) >= 2
  <2>1. {x, y} \in SUBSET S
    OBVIOUS
  <2>2. IsFiniteSet({x}) /\ Cardinality({x}) = 1 /\ y \notin {x} /\ {x} \cup {y} = {x, y}
    BY <1>1, FS_Singleton
  <2>3. Cardinality({x, y}) = 2
    BY <2>2, FS_AddElement
  <2>4. Cardinality({x, y}) <= Cardinality(S)
    BY <2>1, FS_Subset
  <2> QED  BY <2>3, <2>4, FS_CardinalityType
<1>2. ASSUME ~\E x, y \in S : x # y PROVE ~(Cardinality(S) >= 2)
  <2>1. CASE S = {}
    BY <2>1, FS_EmptySet
  <2>2. CASE S # {}
    <3>1. PICK x \in S : TRUE
      BY <2>2
    <3>2. S = {x}
      BY <1>2, <3>1
    <3>3. Cardinality(S) = 1
      BY <3>2, FS_Singleton
    <3> QED  BY <3>3
  <2> QED  BY <2>1, <2>2
<1> QED  BY <1>1, <1>2

(* The first of some places. *)
LEMMA FirstOf ==
  ASSUME NEW S, S \subseteq Nat, S # {}
  PROVE  \E x \in S : \A y \in S : ~(y < x)
<1> DEFINE Lt == {ss \in Nat \X Nat : ss[1] < ss[2]}
<1>1. IsWellFoundedOn(Lt, Nat)
  BY NatLessThanWellFounded DEF OpToRel
<1>2. PICK x \in S : \A y \in S : <<y, x>> \notin Lt
  BY <1>1, WFMin
<1> QED  BY <1>2

(* Each row is shown once, as a widget or by the gap that stands for it.      *)
AllShown(ws, rows) ==
  /\ \A e \in DOMAIN rows :
       Cardinality({i \in DOMAIN ws : ws[i].at = e \/ e \in ws[i].names}) = 1
  /\ \A i \in DOMAIN ws : LET w == ws[i] IN
       IF w.names = {} THEN w.at \in DOMAIN rows /\ w.id = rows[w.at].id
       ELSE /\ Cardinality(w.names) > 1
            /\ \A e \in w.names : rows[e].empty /\ \A f \in w.names : TierOf(rows[f]) = TierOf(rows[e])

(* Widgets that carry the rows show each of them. *)
LEMMA CarriedAreShown ==
  ASSUME NEW ws, NEW rows, Carries(ws, rows)
  PROVE  AllShown(ws, rows)
<1>1. ASSUME NEW e \in DOMAIN rows
      PROVE  Cardinality({i \in DOMAIN ws : ws[i].at = e \/ e \in ws[i].names}) = 1
  <2>1. PICK k \in DOMAIN ws : ws[k].at = e
    BY DEF Carries
  <2>2. {i \in DOMAIN ws : ws[i].at = e \/ e \in ws[i].names} = {k}
    BY <2>1 DEF Carries
  <2> QED  BY <2>2, FS_Singleton
<1> QED  BY <1>1 DEF AllShown, Carries

(* A tier is read from the id and the kind. *)
LEMMA SameTier ==
  ASSUME NEW v, NEW w, v.id = w.id, v.kind = w.kind
  PROVE  TierOf(v) = TierOf(w)
BY DEF TierOf

(* The images of finitely many places are finitely many.                       *)
LEMMA FewImages ==
  ASSUME NEW S, IsFiniteSet(S), NEW f
  PROVE  IsFiniteSet({f[j] : j \in S})
<1> DEFINE T == {f[j] : j \in S}
           g == [j \in S |-> f[j]]
<1>1. g \in Surjection(S, T)
  BY DEF Surjection
<1> HIDE DEF g, T
<1>2. IsFiniteSet(T)
  BY <1>1, FS_Surjection
<1> QED  BY <1>2 DEF T

(* The widgets of a tier that are empty are finitely many, and so are their    *)
(* ids and the places of their rows.                                           *)
LEMMA FewEmpties ==
  ASSUME NEW ws, NEW rows, Carries(ws, rows), NEW t
  PROVE  /\ Empties(ws, t) \subseteq DOMAIN ws
         /\ IsFiniteSet({ws[j].at : j \in Empties(ws, t)})
         /\ IsFiniteSet({ws[j].id : j \in Empties(ws, t)})
<1> DEFINE E == Empties(ws, t)
           f == [j \in E |-> ws[j].at]
           g == [j \in E |-> ws[j].id]
<1>1. E \in SUBSET DOMAIN ws
  BY DEF Empties
<1>2. IsFiniteSet(DOMAIN ws)
  <2>1. Len(ws) \in Nat /\ DOMAIN ws = 1 .. Len(ws)
    BY DEF Carries
  <2> QED  BY <2>1, FS_Interval
<1> HIDE DEF E
<1>3. IsFiniteSet(E)
  BY <1>1, <1>2, FS_Subset
<1>4. {f[j] : j \in E} = {ws[j].at : j \in E} /\ {g[j] : j \in E} = {ws[j].id : j \in E}
  OBVIOUS
<1>5. IsFiniteSet({f[j] : j \in E}) /\ IsFiniteSet({g[j] : j \in E})
  <2> HIDE DEF f, g
  <2> QED  BY <1>3, FewImages
<1> QED  BY <1>1, <1>4, <1>5 DEF E

(* A gap stands for two rows or more.                                          *)
LEMMA AskedOfTwo ==
  ASSUME NEW ws, NEW rows, Carries(ws, rows), NEW i \in DOMAIN ws, Collapses(ws, i)
  PROVE  LET asked == {ws[j].at : j \in Empties(ws, TierOf(ws[i]))} IN
         IsFiniteSet(asked) /\ Cardinality(asked) \in Nat /\ Cardinality(asked) >= 2
<1> DEFINE E == Empties(ws, TierOf(ws[i]))
           asked == {ws[j].at : j \in E}
           ids == {ws[j].id : j \in E}
<1>1. E \subseteq DOMAIN ws /\ IsFiniteSet(asked) /\ IsFiniteSet(ids)
  BY FewEmpties
<1>2. Cardinality(ids) >= 2
  BY DEF Collapses
<1> HIDE DEF E
<1>3. PICK j \in E, l \in E : ws[j].id # ws[l].id
  <2>1. \E x, y \in ids : x # y
    <3> HIDE DEF ids
    <3> QED  BY <1>1, <1>2, TwoOrMore
  <2> QED  BY <2>1
<1>4. ws[j].at \in asked /\ ws[l].at \in asked /\ ws[j].at # ws[l].at
  <2>1. j \in DOMAIN ws /\ l \in DOMAIN ws /\ j # l
    BY <1>1, <1>3
  <2>2. ws[j].at = ws[l].at => j = l
    BY <2>1 DEF Carries
  <2>3. ws[j].at \in asked /\ ws[l].at \in asked
    OBVIOUS
  <2> QED  BY <2>1, <2>2, <2>3
<1> HIDE DEF asked
<1>5. Cardinality(asked) >= 2
  BY <1>1, <1>4, TwoOrMore
<1>6. Cardinality(asked) \in Nat
  BY <1>1, FS_CardinalityType
<1> QED  BY <1>1, <1>5, <1>6 DEF asked, E

(* What stands at a place after the collapse.                                  *)
LEMMA ShownOrGap ==
  ASSUME NEW ws, NEW rows, Carries(ws, rows), NEW i \in DOMAIN ws
  PROVE  LET asked == {ws[j].at : j \in Empties(ws, TierOf(ws[i]))} IN
         /\ ~Collapses(ws, i) => ShownAt(ws, i) = ws[i]
         /\ Collapses(ws, i) =>
              /\ ShownAt(ws, i).at = 0 /\ ShownAt(ws, i).names = asked
              /\ ShownAt(ws, i).w = 6 /\ ShownAt(ws, i).h \in Nat
              /\ Cardinality(asked) > 1 /\ asked # {}
<1> DEFINE t == TierOf(ws[i])
           asked == {ws[j].at : j \in Empties(ws, t)}
           n == Cardinality(asked)
<1>1. ~Collapses(ws, i) => ShownAt(ws, i) = ws[i]
  BY DEF ShownAt
<1>2. ASSUME Collapses(ws, i)
      PROVE  /\ ShownAt(ws, i).at = 0 /\ ShownAt(ws, i).names = asked
             /\ ShownAt(ws, i).w = 6 /\ ShownAt(ws, i).h \in Nat
             /\ n > 1 /\ asked # {}
  <2>1. ShownAt(ws, i) = Gap(t, asked)
    BY <1>2 DEF ShownAt
  <2>2. n \in Nat /\ n >= 2
    BY <1>2, AskedOfTwo
  <2> HIDE DEF t, asked
  <2>3. asked # {}
    BY <2>2, FS_EmptySet
  <2>4. /\ Gap(t, asked).at = 0 /\ Gap(t, asked).names = asked /\ Gap(t, asked).w = 6
        /\ Gap(t, asked).h = IF n < 3 THEN 3 ELSE IF n > 6 THEN 6 ELSE n
    BY DEF Gap, Widget, Tile
  <2> HIDE DEF n
  <2>5. Gap(t, asked).h \in Nat
    BY <2>2, <2>4
  <2> QED  BY <2>1, <2>2, <2>3, <2>4, <2>5
<1> QED  BY <1>1, <1>2

(* Each row has one place where it is shown or named after the collapse.       *)
LEMMA ShownBy ==
  ASSUME NEW ws, NEW rows, Carries(ws, rows), 0 \notin DOMAIN rows, NEW i \in DOMAIN ws
  PROVE  \E h \in DOMAIN ws : /\ ~Hides(ws, h)
           /\ \A l \in DOMAIN ws : ~Hides(ws, l) =>
                (ShownAt(ws, l).at = ws[i].at \/ ws[i].at \in ShownAt(ws, l).names <=> l = h)
<1> DEFINE t == TierOf(ws[i])
           E == Empties(ws, t)
           Shows(l) == ShownAt(ws, l).at = ws[i].at \/ ws[i].at \in ShownAt(ws, l).names
<1>1. ws[i].at \in DOMAIN rows /\ ws[i].at # 0
  BY DEF Carries
<1>2. ASSUME NEW l \in DOMAIN ws, Collapses(ws, l)
      PROVE  Shows(l) <=> i \in Empties(ws, TierOf(ws[l]))
  <2>1. /\ ShownAt(ws, l).at = 0
        /\ ShownAt(ws, l).names = {ws[j].at : j \in Empties(ws, TierOf(ws[l]))}
    BY <1>2 DEF ShownAt, Gap, Widget
  <2>2. ws[i].at \in {ws[j].at : j \in Empties(ws, TierOf(ws[l]))} <=> i \in Empties(ws, TierOf(ws[l]))
    <3>1. \A j \in DOMAIN ws : ws[j].at = ws[i].at => j = i
      BY DEF Carries
    <3>2. Empties(ws, TierOf(ws[l])) \subseteq DOMAIN ws
      BY FewEmpties
    <3> QED  BY <3>1, <3>2
  <2> QED  BY <1>1, <2>1, <2>2
<1>3. ASSUME NEW l \in DOMAIN ws, ~Collapses(ws, l) PROVE Shows(l) <=> l = i
  <2>1. ShownAt(ws, l) = ws[l]
    BY <1>3, ShownOrGap
  <2>2. ws[l].names = {} /\ (ws[l].at = ws[i].at <=> l = i)
    BY DEF Carries
  <2> QED  BY <2>1, <2>2
<1> HIDE DEF Shows
<1>4. CASE ~Collapses(ws, i)
  <2>1. ~Hides(ws, i)
    BY <1>4 DEF Hides
  <2>2. ASSUME NEW l \in DOMAIN ws, ~Hides(ws, l) PROVE Shows(l) <=> l = i
    <3>1. CASE ~Collapses(ws, l)
      BY <1>3, <3>1
    <3>2. CASE Collapses(ws, l)
      <4>1. i \notin Empties(ws, TierOf(ws[l]))
        <5> SUFFICES ASSUME i \in Empties(ws, TierOf(ws[l])) PROVE FALSE
          OBVIOUS
        <5>1. ws[i].empty /\ TierOf(ws[i]) = TierOf(ws[l])
          BY DEF Empties
        <5> QED  BY <1>4, <3>2, <5>1 DEF Collapses
      <4> QED  BY <1>2, <1>4, <3>2, <4>1
    <3> QED  BY <3>1, <3>2
  <2> QED  BY <2>1, <2>2 DEF Shows
<1>5. CASE Collapses(ws, i)
  <2>1. i \in E /\ E \subseteq DOMAIN ws /\ \A j \in E : ws[j].empty /\ TierOf(ws[j]) = t
    BY <1>5 DEF Collapses, Empties
  <2>2. DOMAIN ws \subseteq Nat
    BY DEF Carries
  <2>3. PICK h \in E : \A j \in E : ~(j < h)
    <3> HIDE DEF E
    <3> QED  BY <2>1, <2>2, FirstOf
  <2>4. ~Hides(ws, h)
    BY <2>1, <2>3 DEF Hides
  <2>5. ASSUME NEW l \in DOMAIN ws, ~Hides(ws, l) PROVE Shows(l) <=> l = h
    <3>1. CASE ~Collapses(ws, l)
      <4>1. ~Collapses(ws, l) /\ Collapses(ws, i) /\ Collapses(ws, h)
        BY <1>5, <2>1, <2>3, <3>1 DEF Collapses
      <4> QED  BY <1>3, <4>1
    <3>2. CASE Collapses(ws, l)
      <4>1. ASSUME Shows(l) PROVE l = h
        <5>1. i \in Empties(ws, TierOf(ws[l]))
          BY <1>2, <3>2, <4>1
        <5>2. TierOf(ws[l]) = t
          BY <5>1 DEF Empties
        <5>3. l \in E
          BY <3>2, <5>2 DEF Collapses, Empties
        <5>4. ~(h < l)
          BY <2>5, <2>3, <3>2, <5>2 DEF Hides
        <5>5. ~(l < h)
          BY <2>3, <5>3
        <5>6. l \in Nat /\ h \in Nat
          BY <2>1, <2>2, <2>3
        <5> QED  BY <5>4, <5>5, <5>6
      <4>2. ASSUME l = h PROVE Shows(l)
        <5>1. TierOf(ws[l]) = t
          BY <2>1, <2>3, <4>2
        <5>2. i \in Empties(ws, TierOf(ws[l]))
          BY <2>1, <5>1
        <5> QED  BY <1>2, <3>2, <5>2
      <4> QED  BY <4>1, <4>2
    <3> QED  BY <3>1, <3>2
  <2>6. h \in DOMAIN ws
    BY <2>1, <2>3
  <2> QED  BY <2>4, <2>5, <2>6 DEF Shows
<1> QED  BY <1>4, <1>5

(* The collapse shows every row once, or names it in one gap.                  *)
LEMMA CollapsedShow ==
  ASSUME NEW ws, NEW rows, Carries(ws, rows), 0 \notin DOMAIN rows, Sized(ws)
  PROVE  AllShown(Collapsed(ws), rows) /\ Sized(Collapsed(ws))
<1> DEFINE S == {i \in DOMAIN ws : ~Hides(ws, i)}
           key == [i \in DOMAIN ws |-> i]
           order == InOrder(S, key)
           new == Collapsed(ws)
           n == Cardinality(S)
<1>1. S \subseteq Nat /\ IsFiniteSet(S) /\ \A j \in S : key[j] \in Nat
  <2>1. Len(ws) \in Nat /\ DOMAIN ws = 1 .. Len(ws)
    BY DEF Carries
  <2>2. IsFiniteSet(1 .. Len(ws))
    BY <2>1, FS_Interval
  <2>3. S \in SUBSET (1 .. Len(ws))
    BY <2>1
  <2>4. \A j \in S : key[j] = j
    OBVIOUS
  <2> HIDE DEF S, key
  <2>5. IsFiniteSet(S)
    BY <2>2, <2>3, FS_Subset
  <2> QED  BY <2>1, <2>3, <2>4, <2>5
<1>2. Collapsed(ws) = [k \in DOMAIN order |-> ShownAt(ws, order[k])]
  BY DEF Collapsed
<1> HIDE DEF key
<1>3. /\ n \in Nat /\ DOMAIN order = 1 .. n
      /\ \A k \in 1 .. n : order[k] \in S
      /\ \A j \in S : \E k \in 1 .. n : order[k] = j
      /\ \A k, l \in 1 .. n : order[k] = order[l] => k = l
  <2> HIDE DEF S
  <2>1. LET o == InOrder(S, key) IN
        /\ Cardinality(S) \in Nat /\ DOMAIN o = 1 .. Cardinality(S)
        /\ \A k \in DOMAIN o : o[k] \in S
        /\ \A j \in S : \E k \in DOMAIN o : o[k] = j
        /\ \A k, l \in DOMAIN o : o[k] = o[l] => k = l
    BY <1>1, Ordered, SMTT(30)
  <2> QED  BY <2>1
<1>4. \A k \in 1 .. n : order[k] \in DOMAIN ws /\ ~Hides(ws, order[k])
  BY <1>3
<1>5. \A j \in DOMAIN ws : ~Hides(ws, j) => \E k \in 1 .. n : order[k] = j
  BY <1>3
<1> HIDE DEF S, order, n, new
<1>6. new = [k \in 1 .. n |-> ShownAt(ws, order[k])]
  BY <1>2, <1>3 DEF new
<1>7. Len(new) = n /\ DOMAIN new = 1 .. n /\ \A k \in 1 .. n : new[k] = ShownAt(ws, order[k])
  BY <1>3, <1>6, IsAList
<1>8. ASSUME NEW e \in DOMAIN rows
      PROVE  Cardinality({k \in DOMAIN new : new[k].at = e \/ e \in new[k].names}) = 1
  <2>1. PICK i \in DOMAIN ws : ws[i].at = e
    BY DEF Carries
  <2>2. PICK h \in DOMAIN ws : /\ ~Hides(ws, h)
          /\ \A l \in DOMAIN ws : ~Hides(ws, l) =>
                (ShownAt(ws, l).at = e \/ e \in ShownAt(ws, l).names <=> l = h)
    <3>1. \E h \in DOMAIN ws : /\ ~Hides(ws, h)
            /\ \A l \in DOMAIN ws : ~Hides(ws, l) =>
                 (ShownAt(ws, l).at = ws[i].at \/ ws[i].at \in ShownAt(ws, l).names <=> l = h)
      <4> HIDE <2>1
      <4> QED  BY ShownBy
    <3> QED  BY <2>1, <3>1
  <2>3. PICK k \in 1 .. n : order[k] = h
    BY <1>5, <2>2
  <2>4. \A l \in 1 .. n : (new[l].at = e \/ e \in new[l].names) <=> order[l] = h
    BY <1>4, <1>7, <2>2
  <2>5. {l \in DOMAIN new : new[l].at = e \/ e \in new[l].names} = {k}
    BY <1>3, <1>7, <2>3, <2>4
  <2> QED  BY <2>5, FS_Singleton
<1>9. ASSUME NEW k \in DOMAIN new
      PROVE  /\ new[k].w \in 1 .. GridCols /\ new[k].h \in Nat
             /\ IF new[k].names = {} THEN new[k].at \in DOMAIN rows /\ new[k].id = rows[new[k].at].id
                ELSE /\ Cardinality(new[k].names) > 1
                     /\ \A e \in new[k].names : rows[e].empty
                          /\ \A f \in new[k].names : TierOf(rows[f]) = TierOf(rows[e])
  <2> DEFINE i == order[k]
             asked == {ws[j].at : j \in Empties(ws, TierOf(ws[i]))}
  <2>1. i \in DOMAIN ws /\ new[k] = ShownAt(ws, i)
    BY <1>4, <1>7
  <2> HIDE DEF i
  <2>2. CASE ~Collapses(ws, i)
    <3>1. new[k] = ws[i]
      BY <2>1, <2>2, ShownOrGap
    <3> QED  BY <2>1, <3>1 DEF Carries, Sized
  <2>3. CASE Collapses(ws, i)
    <3>1. /\ new[k].names = asked /\ new[k].w = 6 /\ new[k].h \in Nat
          /\ Cardinality(asked) > 1 /\ asked # {}
      BY <2>1, <2>3, ShownOrGap
    <3>2. ASSUME NEW e \in asked PROVE rows[e].empty /\ TierOf(rows[e]) = TierOf(ws[i])
      <4>1. PICK j \in Empties(ws, TierOf(ws[i])) : ws[j].at = e
        OBVIOUS
      <4>2. j \in DOMAIN ws /\ ws[j].empty /\ TierOf(ws[j]) = TierOf(ws[i])
        BY DEF Empties
      <4>3. rows[e].empty = ws[j].empty /\ rows[e].id = ws[j].id /\ rows[e].kind = ws[j].kind
        BY <4>1, <4>2 DEF Carries
      <4>4. TierOf(rows[e]) = TierOf(ws[j])
        BY <4>3, SameTier
      <4> QED  BY <4>2, <4>3, <4>4
    <3> HIDE DEF asked
    <3>3. 6 \in 1 .. GridCols
      BY DEF GridCols
    <3> QED  BY <3>1, <3>2, <3>3
  <2> QED  BY <2>2, <2>3
<1>10. AllShown(new, rows)
  BY <1>8, <1>9 DEF AllShown
<1>11. Sized(new)
  BY <1>3, <1>7, <1>9 DEF Sized
<1> QED  BY <1>10, <1>11 DEF new

(* What is shown at each stage holds the rows of the brief.                   *)
CanvasStands ==
  /\ saved \in CanvasBrief /\ canvasStage \in {"saved", "emitted", "arranged", "shown"}
  /\ canvasStage \in {"emitted", "arranged"} => Carries(widgets, EmittedRows(saved))
  /\ NothingIsLost

(* The places of a new list of widgets. *)
LEMMA PackedTilesFit ==
  ASSUME NEW ws, Sized(ws), widgets' = ws, spots' = Pack(ws)
  PROVE  TilesFit'
BY PackFits DEF TilesFit, Apart

(* A brief that has no canvas yet. *)
LEMMA BuilderStarts == CanvasInit => CanvasStands
BY DEF CanvasInit, CanvasStands, NothingIsLost

(* The three passes over the widgets. *)
LEMMA BuilderKeeps == CanvasStands /\ [CanvasNext]_canvasVars => CanvasStands'
<1> SUFFICES ASSUME CanvasStands, [CanvasNext]_canvasVars PROVE CanvasStands'
  OBVIOUS
<1> DEFINE rows == EmittedRows(saved)
<1>1. saved \in CanvasBrief
  BY DEF CanvasStands
<1>2. CASE EmitCanvas
  <2>1. canvasStage' = "emitted" /\ saved' = saved /\ Carries(widgets', EmittedRows(saved))
    BY <1>1, <1>2, EmittedCarry DEF EmitCanvas
  <2> QED  BY <1>1, <2>1 DEF CanvasStands, NothingIsLost
<1>3. CASE ArrangeCanvas
  <2>1. Carries(widgets, rows)
    BY <1>3 DEF ArrangeCanvas, CanvasStands
  <2>2. Carries(widgets', rows)
    BY <1>3, <2>1, ArrangedCarry DEF ArrangeCanvas
  <2>3. Sized(widgets')
    BY <1>1, <2>2, CarriedAreSized
  <2>4. TilesFit'
    BY <1>3, <2>3, PackedTilesFit DEF ArrangeCanvas
  <2>5. AllShown(widgets', rows)
    BY <2>2, CarriedAreShown
  <2>6. saved' = saved /\ canvasStage' = "arranged"
    BY <1>3 DEF ArrangeCanvas
  <2>7. NothingIsLost'
    BY <2>4, <2>5, <2>6 DEF NothingIsLost, AllShown
  <2> QED  BY <1>1, <2>2, <2>6, <2>7 DEF CanvasStands
<1>4. CASE CollapseCanvas
  <2>1. Carries(widgets, rows)
    BY <1>4 DEF CollapseCanvas, CanvasStands
  <2>2. 0 \notin DOMAIN rows
    <3>1. Len(rows) \in Nat /\ DOMAIN rows = 1 .. Len(rows)
      BY <1>1, EmittedTiles, LenProperties DEF AreTiles
    <3> HIDE DEF rows
    <3> QED  BY <3>1
  <2>3. Sized(widgets)
    BY <1>1, <2>1, CarriedAreSized
  <2>4. AllShown(widgets', rows) /\ Sized(widgets')
    <3> HIDE DEF rows
    <3> QED  BY <1>4, <2>1, <2>2, <2>3, CollapsedShow DEF CollapseCanvas
  <2>5. TilesFit'
    BY <1>4, <2>4, PackedTilesFit DEF CollapseCanvas
  <2>6. saved' = saved /\ canvasStage' = "shown"
    BY <1>4 DEF CollapseCanvas
  <2>7. NothingIsLost'
    BY <2>4, <2>5, <2>6 DEF NothingIsLost, AllShown
  <2> QED  BY <1>1, <2>6, <2>7 DEF CanvasStands
<1>5. CASE UNCHANGED canvasVars
  BY <1>5 DEF canvasVars, CanvasStands, NothingIsLost, TilesFit
<1> QED  BY <1>2, <1>3, <1>4, <1>5 DEF CanvasNext

(* The canvas of every brief, however many extensions it has and whatever     *)
(* their ids: no tile leaves the grid or covers another, and no row is lost.   *)
THEOREM CanvasHolds == CanvasSpec => []NothingIsLost
<1>1. CanvasStands => NothingIsLost
  BY DEF CanvasStands
<1> QED  BY <1>1, BuilderStarts, BuilderKeeps, PTL DEF CanvasSpec
==============================================================================
