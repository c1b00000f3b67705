---------------------------- MODULE ResearchProofs ----------------------------
(***************************************************************************)
(* Proofs about the web process and the worker, for every number of users, *)
(* briefs and jobs, every limit and any number of crashes.                 *)
(*                                                                         *)
(* Types alone are not inductive: the worker writes jobs[cur] and reads    *)
(* briefs[target], which have a type only when cur is a job and the job    *)
(* has a brief.  That is JobInHand; Shape is the two together.  The lemmas *)
(* Admission, WebRows and WorkerRows say what a step may do to a row of    *)
(* research_jobs; each further invariant is inductive relative to Shape    *)
(* and, where it says so, to an earlier one.                               *)
(***************************************************************************)
EXTENDS ResearchProperties, FiniteSetTheorems, TLAPS

USE ConstantsAssumption, WorkerAssumption

Shape == SystemTypeOK /\ JobInHand

------------------------------------------------------------------------------
(* Rows and columns *)

LEMMA SomeUserIsUser == SomeUser \in User
BY DEF SomeUser

\* Writing a column keeps the type of a row ...
LEMMA JobColumn ==
  ASSUME NEW row \in JobRow, NEW s \in Status
  PROVE  [row EXCEPT !.status = s] \in JobRow
BY DEF JobRow

LEMMA BriefColumns ==
  ASSUME NEW row \in BriefRow
  PROVE  /\ \A x \in BOOLEAN : [row EXCEPT !.monitored = x] \in BriefRow
         /\ \A x \in SUBSET User : [row EXCEPT !.editors = x] \in BriefRow
         /\ \A x \in Content : [row EXCEPT !.content = x] \in BriefRow
BY DEF BriefRow

LEMMA BriefPairs ==
  ASSUME NEW row \in BriefRow, NEW e \in SUBSET User
  PROVE  /\ [row EXCEPT !.live = FALSE, !.editors = e] \in BriefRow
         /\ \A x \in User : [row EXCEPT !.owner = x, !.editors = e] \in BriefRow
         /\ \A x \in BOOLEAN :
              [row EXCEPT !.editors = e, !.monitored = x] \in BriefRow
BY DEF BriefRow

\* ... and of the table.
LEMMA JobsColumn ==
  ASSUME NEW t \in [JobId -> JobRow], NEW s \in Status, NEW j \in JobId
  PROVE  [t EXCEPT ![j].status = s] \in [JobId -> JobRow]
BY JobColumn

LEMMA BriefsColumns ==
  ASSUME NEW t \in [Brief -> BriefRow], NEW b \in Brief
  PROVE  /\ \A x \in BOOLEAN :
              [t EXCEPT ![b].monitored = x] \in [Brief -> BriefRow]
         /\ \A x \in SUBSET User :
              [t EXCEPT ![b].editors = x] \in [Brief -> BriefRow]
         /\ \A x \in Content :
              [t EXCEPT ![b].content = x] \in [Brief -> BriefRow]
BY BriefColumns

\* The handlers of the web process keep the types of the tables.
LEMMA WebTypes ==
  ASSUME TypeOK, WebNext
  PROVE  TypeOK'
<1>1. CASE SubmitJob
  <2>1. jobs' \in [JobId -> JobRow]
    BY <1>1 DEF SubmitJob, TypeOK, Enqueue, JobRow, Intent, Status, Request,
       NoReq
  <2>2. req' \in Request
    BY <1>1, SomeUserIsUser DEF SubmitJob, TypeOK, Request, Phase, NoReq
  <2> QED BY <1>1, <2>1, <2>2 DEF SubmitJob, TypeOK, tables, Enqueue
<1>2. CASE RefuseRequest
  <2>1. req' \in Request
    BY <1>2, SomeUserIsUser DEF RefuseRequest, TypeOK, Request, Phase, NoReq
  <2> QED BY <1>2, <2>1 DEF RefuseRequest, TypeOK, tables
<1>3. CASE ToggleApply
  <2>1. briefs' \in [Brief -> BriefRow]
    BY <1>3, BriefsColumns DEF ToggleApply, TypeOK, Request
  <2>2. req' \in Request
    BY <1>3, SomeUserIsUser DEF ToggleApply, TypeOK, Request, Phase, NoReq
  <2> QED BY <1>3, <2>1, <2>2 DEF ToggleApply, TypeOK, tables
<1>4. CASE ToggleEnqueue
  <2>1. jobs' \in [JobId -> JobRow]
    BY <1>4 DEF ToggleEnqueue, TypeOK, Enqueue, JobRow, Intent, Status,
       Request, NoReq
  <2>2. req' \in Request
    BY <1>4, SomeUserIsUser DEF ToggleEnqueue, TypeOK, Request, Phase, NoReq
  <2> QED BY <1>4, <2>1, <2>2 DEF ToggleEnqueue, TypeOK, tables, Enqueue
<1>5. CASE ToggleEnqueueThrows
  <2>1. req' \in Request
    BY <1>5, SomeUserIsUser DEF ToggleEnqueueThrows, TypeOK, Request, Phase,
       NoReq
  <2> QED BY <1>5, <2>1 DEF ToggleEnqueueThrows, TypeOK, tables
<1>6. CASE ToggleRollback
  <2>1. briefs' \in [Brief -> BriefRow]
    BY <1>6, BriefsColumns DEF ToggleRollback, TypeOK
  <2>2. req' \in Request
    BY <1>6, SomeUserIsUser DEF ToggleRollback, TypeOK, Request, Phase, NoReq
  <2> QED BY <1>6, <2>1, <2>2 DEF ToggleRollback, TypeOK, tables
<1>7. CASE ToggleCancel
  <2>1. jobs' \in [JobId -> JobRow]
    BY <1>7, JobColumn DEF ToggleCancel, TypeOK, Cancelled, Status
  <2>2. req' \in Request
    BY <1>7, SomeUserIsUser DEF ToggleCancel, TypeOK, Request, Phase, NoReq
  <2> QED BY <1>7, <2>1, <2>2 DEF ToggleCancel, TypeOK, tables
<1>8. CASE WebRestart
  <2>1. req' \in Request
    BY <1>8, SomeUserIsUser DEF WebRestart, TypeOK, Request, Phase, NoReq
  <2>2. provider' \in [{"web", "worker"} -> BOOLEAN]
    BY <1>8 DEF WebRestart, TypeOK
  <2> QED BY <1>8, <2>1, <2>2 DEF WebRestart, TypeOK, tables
<1>9. ASSUME NEW u \in User, AuthorizeCreate(u) PROVE TypeOK'
  <2>1. req' \in Request
    BY <1>9, SomeUserIsUser DEF AuthorizeCreate, TypeOK, Request, Phase, NoReq
  <2> QED BY <1>9, <2>1 DEF AuthorizeCreate, TypeOK, tables
<1>10. ASSUME NEW u \in User, NEW j \in JobId, CancelJob(u, j) PROVE TypeOK'
  <2>1. jobs' \in [JobId -> JobRow]
    BY <1>10, JobsColumn DEF CancelJob, TypeOK, Status
  <2> QED BY <1>10, <2>1 DEF CancelJob, TypeOK, tables
<1>11. ASSUME NEW u \in User, NEW j \in JobId, RetryJob(u, j) PROVE TypeOK'
  <2>1. jobs' \in [JobId -> JobRow]
    BY <1>11 DEF RetryJob, TypeOK, Enqueue, JobRow, Intent, Status
  <2> QED BY <1>11, <2>1 DEF RetryJob, TypeOK, tables, Enqueue
<1>12. ASSUME NEW u \in User, NEW v \in User, DisableUser(u, v) PROVE TypeOK'
  <2>1. account' \in [User -> Account]
    BY <1>12 DEF DisableUser, TypeOK, Account
  <2> QED BY <1>12, <2>1 DEF DisableUser, TypeOK, tables
<1>13. ASSUME NEW u \in User, NEW v \in User, EnableUser(u, v) PROVE TypeOK'
  <2>1. account' \in [User -> Account]
    BY <1>13 DEF EnableUser, TypeOK, Account
  <2> QED BY <1>13, <2>1 DEF EnableUser, TypeOK, tables
<1>14. ASSUME NEW u \in User, NEW v \in User, DeleteUser(u, v) PROVE TypeOK'
  <2>1. account' \in [User -> Account]
    BY <1>14 DEF DeleteUser, TypeOK, Account
  <2>2. briefs' \in [Brief -> BriefRow]
    <3> SUFFICES ASSUME NEW b \in Brief PROVE briefs'[b] \in BriefRow
      BY <1>14 DEF DeleteUser
    <3> DEFINE o == IF briefs[b].owner = v THEN u ELSE briefs[b].owner
               e == briefs[b].editors \ {v}
    <3>1. o \in User /\ e \in SUBSET User
      BY DEF TypeOK, BriefRow
    <3>2. briefs'[b] = [briefs[b] EXCEPT !.owner = o, !.editors = e]
      BY <1>14 DEF DeleteUser
    <3> HIDE DEF o, e
    <3>3. briefs[b] \in BriefRow
      BY DEF TypeOK
    <3>4. [briefs[b] EXCEPT !.owner = o, !.editors = e] \in BriefRow
      BY <3>1, <3>3, BriefPairs
    <3> QED BY <3>2, <3>4
  <2>3. jobs' \in [JobId -> JobRow]
    BY <1>14, JobColumn DEF DeleteUser, TypeOK, Status
  <2>4. made' \in [JobId -> [count : Nat, owner : User]]
    <3> SUFFICES ASSUME NEW j \in JobId
                 PROVE  made'[j] \in [count : Nat, owner : User]
      BY <1>14 DEF DeleteUser
    <3>1. made[j] \in [count : Nat, owner : User]
      BY DEF TypeOK
    <3> QED BY <1>14, <3>1 DEF DeleteUser
  <2> QED BY <1>14, <2>1, <2>2, <2>3, <2>4 DEF DeleteUser, TypeOK, tables
<1>15. ASSUME NEW u \in User, NEW v \in User, NEW r \in Role, SetRole(u, v, r)
   PROVE TypeOK'
  <2>1. role' \in [User -> Role]
    BY <1>15 DEF SetRole, TypeOK
  <2>2. briefs' \in [Brief -> BriefRow]
    <3> SUFFICES ASSUME NEW b \in Brief PROVE briefs'[b] \in BriefRow
      BY <1>15 DEF SetRole
    <3> DEFINE e == IF "viewer" \in {r, role[v]}
                    THEN briefs[b].editors \ {v} ELSE briefs[b].editors
               m == IF r = "viewer" /\ briefs[b].owner = v
                    THEN FALSE ELSE briefs[b].monitored
    <3>1. e \in SUBSET User /\ m \in BOOLEAN
      BY DEF TypeOK, BriefRow
    <3>2. briefs'[b] = [briefs[b] EXCEPT !.editors = e, !.monitored = m]
      BY <1>15 DEF SetRole
    <3> HIDE DEF e, m
    <3>3. briefs[b] \in BriefRow
      BY DEF TypeOK
    <3>4. [briefs[b] EXCEPT !.editors = e, !.monitored = m] \in BriefRow
      BY <3>1, <3>3, BriefPairs
    <3> QED BY <3>2, <3>4
  <2>3. jobs' \in [JobId -> JobRow]
    BY <1>15, JobColumn DEF SetRole, TypeOK, Cancelled, Status
  <2> QED BY <1>15, <2>1, <2>2, <2>3 DEF SetRole, TypeOK, tables
<1>16. ASSUME NEW u \in User, NEW b \in Brief, AuthorizeRefresh(u, b) PROVE
   TypeOK'
  <2>1. req' \in Request
    BY <1>16, SomeUserIsUser DEF AuthorizeRefresh, TypeOK, Request, Phase,
       NoReq
  <2> QED BY <1>16, <2>1 DEF AuthorizeRefresh, TypeOK, tables
<1>17. ASSUME NEW u \in User, NEW b \in Brief, CheckNow(u, b) PROVE TypeOK'
  <2>1. jobs' \in [JobId -> JobRow]
    BY <1>17 DEF CheckNow, TypeOK, Enqueue, JobRow, Intent, Status
  <2> QED BY <1>17, <2>1 DEF CheckNow, TypeOK, tables, Enqueue
<1>18. ASSUME NEW u \in User, NEW b \in Brief, DeleteBrief(u, b) PROVE TypeOK'
  <2>1. briefs' \in [Brief -> BriefRow]
    <3>1. [briefs[b] EXCEPT !.live = FALSE, !.editors = {}] \in BriefRow
      BY BriefPairs DEF TypeOK
    <3>2. briefs' = [briefs EXCEPT
                       ![b] = [briefs[b] EXCEPT !.live = FALSE, !.editors = {}]]
      BY <1>18 DEF TypeOK, DeleteBrief
    <3> QED BY <3>1, <3>2 DEF TypeOK
  <2>2. cands' \in [JobId -> Content \union {NoContent}]
    BY <1>18 DEF DeleteBrief, TypeOK
  <2>3. runs' \in [JobId -> [Outcome -> Nat]]
    BY <1>18 DEF DeleteBrief, TypeOK, NoRuns, Outcome
  <2> QED BY <1>18, <2>1, <2>2, <2>3 DEF DeleteBrief, TypeOK, tables
<1>19. ASSUME NEW u \in User, NEW b \in Brief, NEW on \in BOOLEAN,
   AuthorizeToggle(u, b, on) PROVE TypeOK'
  <2>1. req' \in Request
    BY <1>19, SomeUserIsUser DEF AuthorizeToggle, TypeOK, Request, Phase,
       NoReq
  <2> QED BY <1>19, <2>1 DEF AuthorizeToggle, TypeOK, tables
<1>20. ASSUME NEW u \in User, NEW b \in Brief, NEW c \in Content, RevertBrief(u,
   b, c) PROVE TypeOK'
  <2>1. briefs' \in [Brief -> BriefRow]
    BY <1>20, BriefsColumns DEF RevertBrief, TypeOK
  <2> QED BY <1>20, <2>1 DEF RevertBrief, TypeOK, tables
<1>21. ASSUME NEW v \in User, ShareBrief(v) PROVE TypeOK'
  <2>1. briefs' \in [Brief -> BriefRow]
    <3>1. CASE req.brief \in Brief
      <4>1. /\ briefs[req.brief].editors \union {v} \in SUBSET User
            /\ briefs[req.brief].editors \ {v} \in SUBSET User
        BY <3>1 DEF TypeOK, BriefRow
      <4>2. PICK e \in SUBSET User : briefs' = [briefs EXCEPT ![req.brief].editors = e]
        BY <1>21, <4>1 DEF ShareBrief
      <4>3. PICK b \in Brief : b = req.brief
        BY <3>1
      <4>4. briefs' = [briefs EXCEPT ![b].editors = e]
        BY <4>2, <4>3
      <4> QED BY <4>4, BriefsColumns DEF TypeOK
    <3>2. CASE req.brief \notin Brief
      BY <1>21, <3>2 DEF ShareBrief, TypeOK
    <3> QED BY <3>1, <3>2
  <2>2. req' \in Request
    BY <1>21, SomeUserIsUser DEF ShareBrief, TypeOK, Request, Phase, NoReq
  <2> QED BY <1>21, <2>1, <2>2 DEF ShareBrief, TypeOK, tables
<1>22. ASSUME NEW u \in User, NEW b \in Brief, NEW v \in User, UnshareBrief(u,
   b, v) PROVE TypeOK'
  <2>1. briefs' \in [Brief -> BriefRow]
    <3>1. briefs[b].editors \ {v} \in SUBSET User
      BY DEF TypeOK, BriefRow
    <3> QED BY <1>22, <3>1, BriefsColumns DEF UnshareBrief, TypeOK
  <2> QED BY <1>22, <2>1 DEF UnshareBrief, TypeOK, tables
<1>23. ASSUME NEW c \in Content, EditBrief(c) PROVE TypeOK'
  <2>1. briefs' \in [Brief -> BriefRow]
    BY <1>23, BriefsColumns DEF EditBrief, TypeOK, Request
  <2>2. req' \in Request
    BY <1>23, SomeUserIsUser DEF EditBrief, TypeOK, Request, Phase, NoReq
  <2> QED BY <1>23, <2>1, <2>2 DEF EditBrief, TypeOK, tables
<1>24. ASSUME NEW u \in User, NEW b \in Brief, NEW kind \in {"edit", "share"},
   AuthorizeChange(u, b, kind) PROVE TypeOK'
  <2>1. req' \in Request
    BY <1>24, SomeUserIsUser DEF AuthorizeChange, TypeOK, Request, Phase, NoReq
  <2> QED BY <1>24, <2>1 DEF AuthorizeChange, TypeOK, tables
<1> QED BY <1>1, <1>2, <1>3, <1>4, <1>5, <1>6, <1>7, <1>8, <1>9, <1>10, <1>11,
   <1>12, <1>13, <1>14, <1>15, <1>16, <1>17, <1>18, <1>19, <1>20, <1>21, <1>22,
   <1>23, <1>24 DEF WebNext, ToggleNext

------------------------------------------------------------------------------
(* What a handler does to a row of research_jobs *)

\* Everything of a row but its status.
Keeps(j) ==
  /\ jobs'[j].intent = jobs[j].intent
  /\ jobs'[j].user = jobs[j].user
  /\ jobs'[j].target = jobs[j].target

\* A row that enqueueResearchJob adds.
Admission ==
  \E u \in User, i \in Intent, b \in Brief \union {NoBrief}, j \in JobId :
    /\ i # "create" => b \in Brief
    /\ Admits(u, i, b) /\ IsNextId(j)
    /\ jobs' = [jobs EXCEPT ![j] = [status |-> "queued", intent |-> i,
                                    user |-> u, target |-> b]]

CancelMove(j) ==
  /\ Keeps(j)
  /\ \/ jobs'[j].status = jobs[j].status
     \/ IsActive(j) /\ jobs'[j].status = "cancelled"

RemoveMove(j) ==
  /\ Keeps(j)
  /\ \/ jobs'[j].status = jobs[j].status
     \/ jobs[j].status # "absent" /\ jobs'[j].status = "deleted"

LEMMA WebWrites ==
  ASSUME WebNext
  PROVE  \/ UNCHANGED jobs
         \/ SubmitJob \/ ToggleEnqueue \/ ToggleCancel
         \/ \E u \in User :
              \/ \E j \in JobId : CancelJob(u, j) \/ RetryJob(u, j)
              \/ \E b \in Brief : CheckNow(u, b)
              \/ \E v \in User : DeleteUser(u, v) \/ \E r \in Role : SetRole(u, v, r)
BY ZenonT(30) DEF WebNext, ToggleNext, RefuseRequest, ToggleApply, ToggleEnqueueThrows,
   ToggleRollback, WebRestart, AuthorizeCreate, DisableUser, EnableUser,
   AuthorizeRefresh, DeleteBrief, AuthorizeToggle, AuthorizeChange, EditBrief,
   ShareBrief, RevertBrief, UnshareBrief, tables

\* A handler adds a row, or cancels active ones, or removes some.
LEMMA WebRows ==
  ASSUME Shape, WebNext
  PROVE  \/ Admission
         \/ \A j \in JobId : CancelMove(j)
         \/ \A j \in JobId : RemoveMove(j)
<1>0. /\ jobs \in [JobId -> JobRow] /\ briefs \in [Brief -> BriefRow]
      /\ req \in Request /\ JobInHand
  BY DEF Shape, SystemTypeOK, TypeOK
<1>1. CASE UNCHANGED jobs
  BY <1>1 DEF CancelMove, Keeps
<1>2. CASE SubmitJob
  <2>1. /\ req.user \in User /\ req.kind \in Intent
        /\ req.brief \in Brief \union {NoBrief}
        /\ req.kind # "create" => req.brief \in Brief
    BY <1>0, <1>2 DEF SubmitJob, Request, Intent, JobInHand
  <2>2. Enqueue(req.user, req.kind, req.brief)
    BY <1>2 DEF SubmitJob
  <2> QED BY <2>1, <2>2 DEF Enqueue, Admission
<1>3. CASE ToggleEnqueue
  BY <1>0, <1>3 DEF ToggleEnqueue, Enqueue, Admission, Request, JobInHand, Intent
<1>4. CASE ToggleCancel
  <2> SUFFICES ASSUME NEW j \in JobId PROVE CancelMove(j)
    OBVIOUS
  <2>1. jobs[j] \in JobRow
    BY <1>0
  <2> QED BY <1>4, <2>1 DEF ToggleCancel, CancelMove, Keeps, Cancelled, JobRow
<1>5. ASSUME NEW u \in User, NEW k \in JobId, CancelJob(u, k)
      PROVE  \A j \in JobId : CancelMove(j)
  BY <1>0, <1>5 DEF CancelJob, CancelMove, Keeps, JobRow
<1>6. ASSUME NEW u \in User, NEW k \in JobId, RetryJob(u, k) PROVE Admission
  BY <1>0, <1>6 DEF RetryJob, Enqueue, Admission, JobRow, Intent
<1>7. ASSUME NEW u \in User, NEW b \in Brief, CheckNow(u, b) PROVE Admission
  BY <1>7 DEF CheckNow, Enqueue, Admission, Intent
<1>8. ASSUME NEW u \in User, NEW v \in User, DeleteUser(u, v)
      PROVE  \A j \in JobId : RemoveMove(j)
  <2> SUFFICES ASSUME NEW j \in JobId PROVE RemoveMove(j)
    OBVIOUS
  <2>1. jobs[j] \in JobRow
    BY <1>0
  <2> QED BY <1>8, <2>1 DEF DeleteUser, RemoveMove, Keeps, JobRow
<1>9. ASSUME NEW u \in User, NEW v \in User, NEW r \in Role, SetRole(u, v, r)
      PROVE  \A j \in JobId : CancelMove(j)
  <2> SUFFICES ASSUME NEW j \in JobId PROVE CancelMove(j)
    OBVIOUS
  <2>1. jobs[j] \in JobRow
    BY <1>0
  <2> QED BY <1>9, <2>1 DEF SetRole, CancelMove, Keeps, Cancelled, ActiveOf,
             ActiveJobs, JobRow
<1> QED BY <1>1, <1>2, <1>3, <1>4, <1>5, <1>6, <1>7, <1>8, <1>9, WebWrites

\* The suspended request names a brief when its handler needs one.
LEMMA WebRequest ==
  ASSUME Shape, WebNext
  PROVE  /\ req'.kind # "create" => req'.brief \in Brief
         /\ req'.phase \in {"enqueue", "rollback", "cancel"} => req'.kind = "toggle"
<1>0. req \in Request /\ JobInHand
  BY DEF Shape, SystemTypeOK, TypeOK
<1>1. CASE req' = req \/ req' = NoReq
  BY <1>0, <1>1 DEF JobInHand, NoReq
<1>2. CASE ToggleApply
  BY <1>0, <1>2 DEF ToggleApply, JobInHand, NoReq, Request
<1>3. CASE ToggleEnqueueThrows
  BY <1>0, <1>3 DEF ToggleEnqueueThrows, JobInHand, Request
<1>4. CASE \E u \in User : \/ AuthorizeCreate(u)
                           \/ \E b \in Brief :
                                \/ AuthorizeRefresh(u, b)
                                \/ \E kind \in {"edit", "share"} : AuthorizeChange(u, b, kind)
                                \/ \E on \in BOOLEAN : AuthorizeToggle(u, b, on)
  BY <1>4 DEF AuthorizeCreate, AuthorizeRefresh, AuthorizeToggle, AuthorizeChange
<1> QED BY ZenonT(30), <1>1, <1>2, <1>3, <1>4 DEF WebNext, ToggleNext, SubmitJob,
  RefuseRequest, ToggleEnqueue, ToggleRollback, ToggleCancel, WebRestart,
  DisableUser, EnableUser, DeleteBrief, EditBrief, ShareBrief, RevertBrief,
  UnshareBrief, CancelJob, RetryJob, CheckNow, DeleteUser, SetRole

\* The handlers leave the job in hand as the worker needs it.
LEMMA WebHand ==
  ASSUME Shape, WebNext, UNCHANGED workerVars
  PROVE  JobInHand'
<1>0. TypeOK /\ WorkerTypeOK /\ JobInHand /\ UNCHANGED <<pc, cur>>
  BY DEF Shape, SystemTypeOK, workerVars
<1>1. CASE Admission
  BY <1>0, <1>1, WebRequest DEF Admission, IsNextId, JobInHand, intent, TypeOK, WorkerTypeOK, JobRow
<1>2. CASE \A j \in JobId : CancelMove(j) \/ RemoveMove(j)
  BY <1>0, <1>2, WebRequest DEF CancelMove, RemoveMove, Keeps, IsActive, JobInHand, intent, WorkerTypeOK,
     Idle, OnlyRefresh, OnlyMonitor
<1> QED BY <1>1, <1>2, WebRows

------------------------------------------------------------------------------
(* The worker *)

\* Mark writes the status of the job in hand, unless its row is gone, and
\* nothing else.
LEMMA Marked ==
  ASSUME TypeOK, cur \in JobId, NEW s \in Status, Mark(s)
  PROVE  /\ jobs' \in [JobId -> JobRow]
         /\ \A j \in JobId \ {cur} : jobs'[j] = jobs[j]
         /\ jobs'[cur].status = IF Holds("deleted") THEN "deleted" ELSE s
         /\ \A j \in JobId : /\ jobs'[j].intent = jobs[j].intent
                             /\ jobs'[j].user = jobs[j].user
                             /\ jobs'[j].target = jobs[j].target
<1>1. jobs' \in [JobId -> JobRow]
  BY JobsColumn DEF Mark, TypeOK
<1>2. jobs[cur] \in JobRow
  BY DEF TypeOK
<1> QED BY <1>1, <1>2 DEF Mark, TypeOK, JobRow, Holds

\* recordMonitorRun adds one row to the history of the job in hand.
LEMMA Recorded ==
  ASSUME TypeOK, cur \in JobId, NEW o \in Outcome, RecordRun(o)
  PROVE  runs' \in [JobId -> [Outcome -> Nat]]
<1>1. runs[cur] \in [Outcome -> Nat]
  BY DEF TypeOK
<1>2. [runs[cur] EXCEPT ![o] = @ + 1] \in [Outcome -> Nat]
  BY <1>1
<1>3. runs' = [runs EXCEPT ![cur] = [runs[cur] EXCEPT ![o] = @ + 1]]
  BY DEF RecordRun, TypeOK
<1> QED BY <1>2, <1>3 DEF TypeOK

\* Reading and then returning keeps Shape.
LEMMA Returned ==
  ASSUME Shape, Reads, Return
  PROVE  Shape'
<1>1. TypeOK'
  BY DEF Shape, SystemTypeOK, Reads, queueVars, tables, TypeOK
<1>2. WorkerTypeOK'
  BY DEF Shape, SystemTypeOK, Return, LetGo, WorkerTypeOK, Pc
<1>3. JobInHand'
  BY DEF Shape, Reads, Return, LetGo, queueVars, tables, JobInHand, Idle, OnlyMonitor,
     OnlyRefresh
<1> QED BY <1>1, <1>2, <1>3 DEF Shape, SystemTypeOK

\* The worker keeps Shape.
LEMMA WorkerShape ==
  ASSUME Shape, WorkerNext
  PROVE  Shape'
<1>0. TypeOK /\ WorkerTypeOK /\ JobInHand
  BY DEF Shape, SystemTypeOK
<1>1. CASE Boot
  <2>1. jobs' \in [JobId -> JobRow]
    BY <1>0, <1>1, JobColumn DEF Boot, TypeOK, Status
  <2>2. provider' \in [{"web", "worker"} -> BOOLEAN]
    BY <1>0, <1>1 DEF Boot, TypeOK
  <2>3. TypeOK'
    BY <1>0, <1>1, <2>1, <2>2 DEF Boot, TypeOK
  <2>4. WorkerTypeOK'
    BY <1>0, <1>1 DEF Boot, WorkerTypeOK, Pc, GoTo, GoOn
  <2>5. JobInHand'
    BY <1>0, <1>1 DEF Boot, GoTo, GoOn, JobInHand, TypeOK, Idle, OnlyMonitor, OnlyRefresh,
       intent, JobRow, Status
  <2> QED BY <2>3, <2>4, <2>5 DEF Shape, SystemTypeOK
<1>2. CASE ScheduleTick
  <2>1. TypeOK'
    BY <1>0, <1>2 DEF ScheduleTick, Reads, queueVars, tables, TypeOK
  <2>2. WorkerTypeOK'
    BY <1>0, <1>2 DEF ScheduleTick, WorkerTypeOK, Pc, TypeOK, BriefRow
  <2>3. JobInHand'
    BY <1>0, <1>2 DEF ScheduleTick, Reads, queueVars, tables, JobInHand, Idle,
       OnlyMonitor, OnlyRefresh, intent
  <2> QED BY <2>1, <2>2, <2>3 DEF Shape, SystemTypeOK
<1>3. CASE ScheduleEnqueue
  <2>1. jobs' \in [JobId -> JobRow]
    BY <1>0, <1>3 DEF ScheduleEnqueue, Enqueue, TypeOK, WorkerTypeOK, JobRow, Status, Intent
  <2>2. TypeOK'
    BY <1>0, <1>3, <2>1 DEF ScheduleEnqueue, TypeOK, Enqueue
  <2>3. WorkerTypeOK'
    BY <1>0, <1>3 DEF ScheduleEnqueue, WorkerTypeOK, Pc
  <2>4. JobInHand'
    BY <1>0, <1>3 DEF ScheduleEnqueue, Enqueue, JobInHand, TypeOK, Idle,
       OnlyMonitor, OnlyRefresh, intent, JobRow, Status, WorkerTypeOK,
       IsNextId
  <2> QED BY <2>2, <2>3, <2>4 DEF Shape, SystemTypeOK
<1>4. CASE ScheduleSkip
  BY <1>0, <1>4 DEF ScheduleSkip, Reads, queueVars, tables, Shape, SystemTypeOK,
     TypeOK, WorkerTypeOK, JobInHand, Idle, OnlyMonitor, OnlyRefresh, intent,
     Pc
<1>5. CASE ScheduleThrows
  BY <1>0, <1>5 DEF ScheduleThrows, Reads, queueVars, tables, Shape, SystemTypeOK,
     TypeOK, WorkerTypeOK, JobInHand, Idle, OnlyMonitor, OnlyRefresh, intent,
     Pc
<1>6. CASE ClaimJob
  <2>1. jobs' \in [JobId -> JobRow]
    BY SMTT(30), <1>0, <1>6, JobsColumn DEF ClaimJob, TypeOK, Status
  <2>2. TypeOK'
    BY <1>0, <1>6, <2>1 DEF ClaimJob, TypeOK, KeepOthers
  <2>3. WorkerTypeOK'
    BY <1>0, <1>6 DEF ClaimJob, WorkerTypeOK, Pc
  <2>4. JobInHand'
    BY <1>0, <1>6 DEF ClaimJob, KeepOthers, JobInHand, TypeOK, Idle, OnlyMonitor,
       OnlyRefresh, intent, JobRow, Status
  <2> QED BY <2>2, <2>3, <2>4 DEF Shape, SystemTypeOK
<1>7. CASE NothingQueued
  BY <1>0, <1>7 DEF NothingQueued, Reads, GoTo, GoOn, queueVars, tables, Shape,
     SystemTypeOK, TypeOK, WorkerTypeOK, JobInHand, Idle, OnlyMonitor,
     OnlyRefresh, intent, Pc
<1>8. CASE CheckStatus
  <2>1. CASE ~Holds("running")
    BY <1>0, <1>8, <2>1, Returned DEF CheckStatus
  <2>2. CASE ~(~Holds("running"))
    BY <1>0, <1>8, <2>2 DEF CheckStatus, Reads, GoTo, GoOn, queueVars, tables, Shape,
       SystemTypeOK, TypeOK, WorkerTypeOK, JobInHand, Idle, OnlyMonitor,
       OnlyRefresh, intent, Pc
  <2> QED BY <2>1, <2>2
<1>9. CASE CheckActor
  BY <1>0, <1>9 DEF CheckActor, Reads, GoTo, GoOn, queueVars, tables, Shape, SystemTypeOK,
     TypeOK, WorkerTypeOK, JobInHand, Idle, OnlyMonitor, OnlyRefresh, intent,
     Pc
<1>10. CASE ReadTarget
  BY <1>0, <1>10 DEF ReadTarget, Reads, GoTo, GoOn, queueVars, tables, Shape,
     SystemTypeOK, TypeOK, WorkerTypeOK, JobInHand, Idle, OnlyMonitor,
     OnlyRefresh, intent, Pc, BriefRow, target
<1>11. CASE AuthorizeRun
  BY <1>0, <1>11 DEF AuthorizeRun, Reads, GoTo, GoOn, queueVars, tables, Shape,
     SystemTypeOK, TypeOK, WorkerTypeOK, JobInHand, Idle, OnlyMonitor,
     OnlyRefresh, intent, Pc
<1>12. CASE CheckProvider
  BY <1>0, <1>12 DEF CheckProvider, Reads, GoTo, GoOn, queueVars, tables, Shape,
     SystemTypeOK, TypeOK, WorkerTypeOK, JobInHand, Idle, OnlyMonitor,
     OnlyRefresh, intent, Pc
<1>13. CASE ReadMonitored
  BY <1>0, <1>13 DEF ReadMonitored, Reads, GoTo, GoOn, queueVars, tables, Shape,
     SystemTypeOK, TypeOK, WorkerTypeOK, JobInHand, Idle, OnlyMonitor,
     OnlyRefresh, intent, Pc, BriefRow, target
<1>14. CASE CheckWriter
  BY <1>0, <1>14 DEF CheckWriter, Reads, GoTo, GoOn, queueVars, tables, Shape,
     SystemTypeOK, TypeOK, WorkerTypeOK, JobInHand, Idle, OnlyMonitor,
     OnlyRefresh, intent, Pc
<1>15. CASE CallReturns
  BY <1>0, <1>15 DEF CallReturns, Reads, queueVars, tables, Shape, SystemTypeOK,
     TypeOK, WorkerTypeOK, JobInHand, Idle, OnlyMonitor, OnlyRefresh, intent,
     Pc
<1>16. CASE CallThrows
  BY <1>0, <1>16 DEF CallThrows, Reads, GoTo, GoOn, queueVars, tables, Shape,
     SystemTypeOK, TypeOK, WorkerTypeOK, JobInHand, Idle, OnlyMonitor,
     OnlyRefresh, intent, Pc
<1>17. CASE CheckCancelled
  <2>1. CASE Holds("cancelled")
    BY <1>0, <1>17, <2>1, Returned DEF CheckCancelled
  <2>2. CASE ~(Holds("cancelled"))
    BY <1>0, <1>17, <2>2 DEF CheckCancelled, Reads, GoTo, GoOn, queueVars, tables, Shape,
       SystemTypeOK, TypeOK, WorkerTypeOK, JobInHand, Idle, OnlyMonitor,
       OnlyRefresh, intent, Pc, JobRow, Intent
  <2> QED BY <2>1, <2>2
<1>18. CASE SaveBrief
  <2>0. cur \in JobId
    BY <1>0, <1>18 DEF SaveBrief, JobInHand, WorkerTypeOK, Idle
  <2>1. jobs' \in [JobId -> JobRow]
    BY <1>0, <1>18, <2>0, Marked DEF SaveBrief, Status
  <2>2. made' \in [JobId -> [count : Nat, owner : User]]
    BY <1>0, <1>18, <2>0 DEF SaveBrief, TypeOK, JobRow, me
  <2>3. TypeOK'
    BY <1>0, <1>18, <2>1, <2>2 DEF SaveBrief, TypeOK, KeepOthers
  <2>4. WorkerTypeOK'
    BY <1>0, <1>18 DEF SaveBrief, WorkerTypeOK, Pc, Return, LetGo
  <2>5. JobInHand'
    BY <1>0, <1>18, <2>0, Marked, <2>1 DEF SaveBrief, KeepOthers, Return, LetGo, JobInHand,
       TypeOK, Idle, OnlyMonitor, OnlyRefresh, intent, JobRow, Status
  <2> QED BY <2>3, <2>4, <2>5 DEF Shape, SystemTypeOK
<1>19. CASE QueueRefresh
  <2>0. cur \in JobId
    BY <1>0, <1>19 DEF QueueRefresh, JobInHand, WorkerTypeOK, Idle
  <2>1. jobs' \in [JobId -> JobRow]
    BY <1>0, <1>19, <2>0, Marked DEF QueueRefresh, Status
  <2>2. cands' \in [JobId -> Content \union {NoContent}]
    BY <1>0, <1>19 DEF QueueRefresh, TypeOK, WorkerTypeOK
  <2>3. TypeOK'
    BY <1>0, <1>19, <2>1, <2>2 DEF QueueRefresh, TypeOK, KeepOthers
  <2>4. WorkerTypeOK'
    BY <1>0, <1>19 DEF QueueRefresh, WorkerTypeOK, Pc, Return, LetGo
  <2>5. JobInHand'
    BY <1>0, <1>19, <2>0, Marked, <2>1 DEF QueueRefresh, KeepOthers, Return, LetGo,
       JobInHand, TypeOK, Idle, OnlyMonitor, OnlyRefresh, intent, JobRow,
       Status
  <2> QED BY <2>3, <2>4, <2>5 DEF Shape, SystemTypeOK
<1>20. CASE QueueRefreshThrows
  BY <1>0, <1>20 DEF QueueRefreshThrows, Reads, GoTo, GoOn, queueVars, tables, Shape,
     SystemTypeOK, TypeOK, WorkerTypeOK, JobInHand, Idle, OnlyMonitor,
     OnlyRefresh, intent, Pc
<1>21. CASE MarkFailed
  <2>0. cur \in JobId
    BY <1>0, <1>21 DEF MarkFailed, JobInHand, WorkerTypeOK, Idle
  <2>1. jobs' \in [JobId -> JobRow]
    BY <1>0, <1>21, <2>0, Marked DEF MarkFailed, Status
  <2>2. TypeOK'
    BY <1>0, <1>21, <2>1 DEF MarkFailed, TypeOK, KeepOthers
  <2>3. WorkerTypeOK'
    BY <1>0, <1>21 DEF MarkFailed, WorkerTypeOK, Pc, Return, LetGo
  <2>4. JobInHand'
    BY <1>0, <1>21, <2>0, Marked, <2>1 DEF MarkFailed, KeepOthers, Return, LetGo,
       JobInHand, TypeOK, Idle, OnlyMonitor, OnlyRefresh, intent, JobRow,
       Status
  <2> QED BY <2>2, <2>3, <2>4 DEF Shape, SystemTypeOK
<1>22. CASE StillRunning
  <2>1. CASE ~Holds("running")
    BY <1>0, <1>22, <2>1, Returned DEF StillRunning
  <2>2. CASE ~(~Holds("running"))
    BY <1>0, <1>22, <2>2 DEF StillRunning, Reads, GoTo, GoOn, queueVars, tables, Shape,
       SystemTypeOK, TypeOK, WorkerTypeOK, JobInHand, Idle, OnlyMonitor,
       OnlyRefresh, intent, Pc
  <2> QED BY <2>1, <2>2
<1>23. CASE StillEnabled
  BY <1>0, <1>23 DEF StillEnabled, Reads, GoTo, GoOn, queueVars, tables, Shape,
     SystemTypeOK, TypeOK, WorkerTypeOK, JobInHand, Idle, OnlyMonitor,
     OnlyRefresh, intent, Pc
<1>24. CASE StillWriter
  BY <1>0, <1>24 DEF StillWriter, Reads, GoTo, GoOn, queueVars, tables, Shape,
     SystemTypeOK, TypeOK, WorkerTypeOK, JobInHand, Idle, OnlyMonitor,
     OnlyRefresh, intent, Pc
<1>25. CASE MarkSkipped
  <2>0. cur \in JobId
    BY <1>0, <1>25 DEF MarkSkipped, JobInHand, WorkerTypeOK, Idle
  <2>1. jobs' \in [JobId -> JobRow]
    BY <1>0, <1>25, <2>0, Marked DEF MarkSkipped, Status
  <2>2. TypeOK'
    BY <1>0, <1>25, <2>1 DEF MarkSkipped, TypeOK, KeepOthers
  <2>3. WorkerTypeOK'
    BY <1>0, <1>25 DEF MarkSkipped, WorkerTypeOK, Pc, Return, LetGo
  <2>4. JobInHand'
    BY <1>0, <1>25, <2>0, Marked, <2>1 DEF MarkSkipped, KeepOthers, Return, LetGo,
       JobInHand, TypeOK, Idle, OnlyMonitor, OnlyRefresh, intent, JobRow,
       Status
  <2> QED BY <2>2, <2>3, <2>4 DEF Shape, SystemTypeOK
<1>26. CASE FinishNoop
  <2>0. cur \in JobId
    BY <1>0, <1>26 DEF FinishNoop, JobInHand, WorkerTypeOK, Idle
  <2>1. jobs' \in [JobId -> JobRow]
    BY <1>0, <1>26, <2>0, Marked DEF FinishNoop, Status
  <2>2. TypeOK'
    BY <1>0, <1>26, <2>1 DEF FinishNoop, TypeOK, KeepOthers
  <2>3. WorkerTypeOK'
    BY <1>0, <1>26 DEF FinishNoop, WorkerTypeOK, Pc, GoOn, Count
  <2>4. JobInHand'
    BY <1>0, <1>26, <2>0, Marked, <2>1 DEF FinishNoop, KeepOthers, GoTo, GoOn, JobInHand,
       TypeOK, Idle, OnlyMonitor, OnlyRefresh, intent, JobRow, Status
  <2> QED BY <2>2, <2>3, <2>4 DEF Shape, SystemTypeOK
<1>27. CASE NoopRefused
  BY <1>0, <1>27 DEF NoopRefused, Reads, GoTo, GoOn, queueVars, tables, Shape,
     SystemTypeOK, TypeOK, WorkerTypeOK, JobInHand, Idle, OnlyMonitor,
     OnlyRefresh, intent, Pc
<1>28. CASE NoopThrows
  BY <1>0, <1>28 DEF NoopThrows, Reads, GoTo, GoOn, queueVars, tables, Shape,
     SystemTypeOK, TypeOK, WorkerTypeOK, JobInHand, Idle, OnlyMonitor,
     OnlyRefresh, intent, Pc
<1>29. CASE RecordNoop
  <2>0. cur \in JobId
    BY <1>0, <1>29 DEF RecordNoop, JobInHand, WorkerTypeOK, Idle
  <2>1. runs' \in [JobId -> [Outcome -> Nat]]
    BY <1>0, <1>29, <2>0, Recorded DEF RecordNoop, Outcome
  <2>2. TypeOK'
    BY <1>0, <1>29, <2>1 DEF RecordNoop, TypeOK, KeepOthers
  <2>3. WorkerTypeOK'
    BY <1>0, <1>29 DEF RecordNoop, WorkerTypeOK, Pc, Return, LetGo
  <2>4. JobInHand'
    BY <1>0, <1>29 DEF RecordNoop, KeepOthers, Return, LetGo, JobInHand, TypeOK, Idle,
       OnlyMonitor, OnlyRefresh, intent, JobRow, Status
  <2> QED BY <2>2, <2>3, <2>4 DEF Shape, SystemTypeOK
<1>30. CASE RecordThrows
  BY <1>0, <1>30 DEF RecordThrows, Reads, GoTo, GoOn, queueVars, tables, Shape,
     SystemTypeOK, TypeOK, WorkerTypeOK, JobInHand, Idle, OnlyMonitor,
     OnlyRefresh, intent, Pc
<1>31. CASE Recheck
  <2>1. CASE ~Holds("running")
    BY <1>0, <1>31, <2>1, Returned DEF Recheck
  <2>2. CASE ~(~Holds("running"))
    BY <1>0, <1>31, <2>2 DEF Recheck, Reads, GoTo, GoOn, queueVars, tables, Shape,
       SystemTypeOK, TypeOK, WorkerTypeOK, JobInHand, Idle, OnlyMonitor,
       OnlyRefresh, intent, Pc
  <2> QED BY <2>1, <2>2
<1>32. CASE CommitMonitor
  <2>0. cur \in JobId
    BY <1>0, <1>32 DEF CommitMonitor, JobInHand, WorkerTypeOK, Idle
  <2>1. jobs' \in [JobId -> JobRow]
    BY <1>0, <1>32, <2>0, Marked DEF CommitMonitor, Status
  <2>2. cands' \in [JobId -> Content \union {NoContent}]
    BY <1>0, <1>32 DEF CommitMonitor, TypeOK, WorkerTypeOK
  <2>3. runs' \in [JobId -> [Outcome -> Nat]]
    BY <1>0, <1>32, <2>0, Recorded DEF CommitMonitor, Outcome
  <2>4. TypeOK'
    BY <1>0, <1>32, <2>1, <2>2, <2>3 DEF CommitMonitor, TypeOK, KeepOthers
  <2>5. WorkerTypeOK'
    BY <1>0, <1>32 DEF CommitMonitor, WorkerTypeOK, Pc, LetGo, Count
  <2>6. JobInHand'
    BY <1>0, <1>32, <2>0, Marked, <2>1 DEF CommitMonitor, KeepOthers, Return, LetGo,
       JobInHand, TypeOK, Idle, OnlyMonitor, OnlyRefresh, intent, JobRow,
       Status
  <2> QED BY <2>4, <2>5, <2>6 DEF Shape, SystemTypeOK
<1>33. CASE CommitStale
  BY <1>0, <1>33 DEF CommitStale, Reads, GoTo, GoOn, queueVars, tables, Shape,
     SystemTypeOK, TypeOK, WorkerTypeOK, JobInHand, Idle, OnlyMonitor,
     OnlyRefresh, intent, Pc
<1>34. CASE CommitRefused
  BY <1>0, <1>34 DEF CommitRefused, Reads, GoTo, GoOn, queueVars, tables, Shape,
     SystemTypeOK, TypeOK, WorkerTypeOK, JobInHand, Idle, OnlyMonitor,
     OnlyRefresh, intent, Pc
<1>35. CASE CommitThrows
  BY <1>0, <1>35 DEF CommitThrows, Reads, GoTo, GoOn, queueVars, tables, Shape,
     SystemTypeOK, TypeOK, WorkerTypeOK, JobInHand, Idle, OnlyMonitor,
     OnlyRefresh, intent, Pc
<1>36. CASE RecordStale
  <2>0. cur \in JobId
    BY <1>0, <1>36 DEF RecordStale, JobInHand, WorkerTypeOK, Idle
  <2>1. runs' \in [JobId -> [Outcome -> Nat]]
    BY <1>0, <1>36, <2>0, Recorded DEF RecordStale, Outcome
  <2>2. TypeOK'
    BY <1>0, <1>36, <2>1 DEF RecordStale, TypeOK, KeepOthers
  <2>3. WorkerTypeOK'
    BY <1>0, <1>36 DEF RecordStale, WorkerTypeOK, Pc, GoTo, GoOn
  <2>4. JobInHand'
    BY <1>0, <1>36 DEF RecordStale, KeepOthers, GoTo, GoOn, JobInHand, TypeOK, Idle,
       OnlyMonitor, OnlyRefresh, intent, JobRow, Status
  <2> QED BY <2>2, <2>3, <2>4 DEF Shape, SystemTypeOK
<1>37. CASE CatchMonitor
  <2>1. CASE Holds("cancelled")
    BY <1>0, <1>37, <2>1, Returned DEF CatchMonitor
  <2>2. CASE ~(Holds("cancelled"))
    BY <1>0, <1>37, <2>2 DEF CatchMonitor, Reads, GoTo, GoOn, queueVars, tables, Shape,
       SystemTypeOK, TypeOK, WorkerTypeOK, JobInHand, Idle, OnlyMonitor,
       OnlyRefresh, intent, Pc
  <2> QED BY <2>1, <2>2
<1>38. CASE RecordFailure
  <2>0. cur \in JobId
    BY <1>0, <1>38 DEF RecordFailure, JobInHand, WorkerTypeOK, Idle
  <2>1. runs' \in [JobId -> [Outcome -> Nat]]
    BY <1>0, <1>38, <2>0, Recorded DEF RecordFailure, Outcome, TypeOK
  <2>2. TypeOK'
    BY <1>0, <1>38, <2>1 DEF RecordFailure, TypeOK, KeepOthers
  <2>3. WorkerTypeOK'
    BY <1>0, <1>38 DEF RecordFailure, WorkerTypeOK, Pc, GoTo, GoOn
  <2>4. JobInHand'
    BY <1>0, <1>38 DEF RecordFailure, KeepOthers, GoTo, GoOn, JobInHand, TypeOK, Idle,
       OnlyMonitor, OnlyRefresh, intent, JobRow, Status
  <2> QED BY <2>2, <2>3, <2>4 DEF Shape, SystemTypeOK
<1>39. CASE Crash
  <2>1. TypeOK'
    BY <1>0, <1>39 DEF Crash, Reads, queueVars, tables, TypeOK
  <2>2. crashes' \in Nat
    BY <1>0, <1>39 DEF Crash, WorkerTypeOK
  <2>3. WorkerTypeOK'
    BY <1>0, <1>39, <2>2 DEF Crash, WorkerTypeOK, Pc
  <2>4. JobInHand'
    BY <1>0, <1>39 DEF Crash, Reads, queueVars, tables, JobInHand, Idle, OnlyMonitor,
       OnlyRefresh, intent
  <2> QED BY <2>1, <2>3, <2>4 DEF Shape, SystemTypeOK
<1> QED BY <1>0, <1>1, <1>2, <1>3, <1>4, <1>5, <1>6, <1>7, <1>8, <1>9, <1>10, <1>11,
   <1>12, <1>13, <1>14, <1>15, <1>16, <1>17, <1>18, <1>19, <1>20, <1>21,
   <1>22, <1>23, <1>24, <1>25, <1>26, <1>27, <1>28, <1>29, <1>30, <1>31,
   <1>32, <1>33, <1>34, <1>35, <1>36, <1>37, <1>38, <1>39 DEF WorkerNext,
   WorkerStep, Schedule, Claim, Prepare, Call, Finish, MonitorFinish

------------------------------------------------------------------------------
(* Shape is inductive *)

LEMMA ShapeInit == Init /\ WorkerInit => Shape
<1> SUFFICES ASSUME Init, WorkerInit PROVE Shape
  OBVIOUS
<1>1. TypeOK
  BY SomeUserIsUser DEF Init, TypeOK, JobRow, BriefRow, NoJobRow, NoRuns, NoReq,
     Request, Phase, Status, Intent, Account, Outcome
<1>2. WorkerTypeOK
  BY DEF WorkerInit, WorkerTypeOK, Pc
<1>3. JobInHand
  BY DEF Init, WorkerInit, JobInHand, Idle, OnlyRefresh, OnlyMonitor, NoJobRow,
     NoReq
<1> QED BY <1>1, <1>2, <1>3 DEF Shape, SystemTypeOK

LEMMA ShapeStep == Shape /\ [Next]_vars => Shape'
<1> SUFFICES ASSUME Shape, [Next]_vars PROVE Shape'
  OBVIOUS
<1>1. CASE WebNext /\ UNCHANGED workerVars
  <2>1. TypeOK'
    BY <1>1, WebTypes DEF Shape, SystemTypeOK
  <2>2. WorkerTypeOK'
    BY <1>1 DEF Shape, SystemTypeOK, WorkerTypeOK, workerVars
  <2> QED BY <1>1, <2>1, <2>2, WebHand DEF Shape, SystemTypeOK
<1>2. CASE WorkerNext
  BY <1>2, WorkerShape
<1>3. CASE UNCHANGED vars
  BY <1>3 DEF vars, queueVars, tables, workerVars, Shape, SystemTypeOK, TypeOK,
     WorkerTypeOK, JobInHand, intent
<1> QED BY <1>1, <1>2, <1>3 DEF Next

LEMMA Shaped == SafeSpec => []Shape
BY ShapeInit, ShapeStep, PTL DEF SafeSpec, SystemInit

------------------------------------------------------------------------------
(* What a step of the worker does to the rows *)

WorkerMove(j) ==
  /\ Keeps(j)
  /\ \/ jobs'[j].status = jobs[j].status
     \/ j = cur /\ pc \notin Idle /\ jobs[j].status \notin {"absent", "deleted"}
        /\ jobs'[j].status \in {"done", "failed"}
     \/ pc = "pick" /\ jobs[j].status = "queued" /\ jobs'[j].status = "running"
        /\ cur' = j
     \/ pc = "down" /\ jobs[j].status = "running" /\ jobs'[j].status = "failed"

Writes ==
  \/ Boot \/ ScheduleEnqueue \/ ClaimJob
  \/ SaveBrief \/ QueueRefresh \/ MarkFailed
  \/ MarkSkipped \/ FinishNoop \/ CommitMonitor

\* The worker writes neither briefs nor accounts nor the suspended request,
\* and jobs, the saved briefs and the candidates only in nine of its actions.
LEMMA WorkerWrites ==
  ASSUME WorkerNext
  PROVE  /\ UNCHANGED <<briefs, role, account, req>>
         /\ UNCHANGED <<jobs, made, cands>> \/ Writes
BY DEF WorkerNext, WorkerStep, Boot, Schedule, ScheduleTick, ScheduleEnqueue,
  ScheduleSkip, ScheduleThrows, Claim, ClaimJob, NothingQueued, Crash, Prepare,
  CheckStatus, CheckActor, ReadTarget, AuthorizeRun, CheckProvider,
  ReadMonitored, CheckWriter, Call, CallReturns, CallThrows, Finish,
  CheckCancelled, SaveBrief, QueueRefresh, QueueRefreshThrows, MarkFailed,
  MonitorFinish, StillRunning, StillEnabled, StillWriter, MarkSkipped,
  FinishNoop, NoopRefused, NoopThrows, RecordNoop, RecordThrows, Recheck,
  CommitMonitor, CommitStale, CommitRefused, CommitThrows, RecordStale,
  CatchMonitor, RecordFailure, Enqueue, Reads, KeepOthers, queueVars, tables,
  Writes

LEMMA ScheduleAdmits ==
  ASSUME Shape, ScheduleEnqueue
  PROVE  Admission
<1>1. PICK d \in due : Enqueue(d.owner, "monitor", d.brief)
  BY DEF ScheduleEnqueue
<1>2. d.owner \in User /\ d.brief \in Brief
  BY DEF Shape, SystemTypeOK, WorkerTypeOK
<1> QED BY <1>1, <1>2 DEF Enqueue, Admission, Intent

\* The scheduler adds a row; every other step moves the job in hand, claims
\* one or recovers what was left running.
LEMMA WorkerRows ==
  ASSUME Shape, WorkerNext
  PROVE  Admission \/ \A j \in JobId : WorkerMove(j)
<1>0. TypeOK /\ WorkerTypeOK /\ JobInHand /\ jobs \in [JobId -> JobRow]
  BY DEF Shape, SystemTypeOK, TypeOK
<1>1. CASE UNCHANGED jobs
  BY <1>1 DEF WorkerMove, Keeps
<1>2. CASE Boot
  <2> SUFFICES ASSUME NEW j \in JobId PROVE WorkerMove(j)
    OBVIOUS
  <2>1. jobs[j] \in JobRow
    BY <1>0
  <2> QED BY <1>2, <2>1 DEF Boot, WorkerMove, Keeps, JobRow
<1>3. CASE ScheduleEnqueue
  BY <1>3, ScheduleAdmits
<1>4. CASE ClaimJob
  BY <1>0, <1>4 DEF ClaimJob, WorkerMove, Keeps, Queued, JobRow
<1>5. ASSUME NEW s \in {"done", "failed"}, Mark(s), pc \notin Idle
      PROVE  \A j \in JobId : WorkerMove(j)
  <2>1. cur \in JobId /\ s \in Status /\ jobs[cur].status # "absent"
    BY <1>0, <1>5 DEF JobInHand, WorkerTypeOK, Status
  <2> QED BY <1>0, <1>5, <2>1, Marked DEF WorkerMove, Keeps, Holds
<1> QED BY <1>1, <1>2, <1>3, <1>4, <1>5, WorkerWrites DEF Writes, SaveBrief,
  QueueRefresh, MarkFailed, MarkSkipped, FinishNoop, CommitMonitor, Idle

------------------------------------------------------------------------------
(* Types *)

\* Every table and register holds a value of its type: in particular the
\* worker never writes a row that does not exist.
THEOREM TypeCorrect == SafeSpec => []SystemTypeOK
<1>1. Shape => SystemTypeOK
  BY DEF Shape
<1> QED BY <1>1, Shaped, PTL

\* The worker has a job exactly while it executes one, of the kind whose code
\* it executes: what the code takes for granted after it dispatched.
THEOREM HandHolds == SafeSpec => []JobInHand
<1>1. Shape => JobInHand
  BY DEF Shape
<1> QED BY <1>1, Shaped, PTL

------------------------------------------------------------------------------
(* The queue *)

\* What any step may do to the active jobs: add one within the limits, or
\* leave a subset of them.
LEMMA ActiveMoves ==
  ASSUME Shape, [Next]_vars
  PROVE  \/ Admission
         \/ \A j \in JobId : Keeps(j) /\ (IsActive(j)' => IsActive(j))
<1>1. CASE UNCHANGED jobs
  BY <1>1 DEF Keeps, IsActive
<1>2. CASE WebNext
  BY <1>2, WebRows DEF CancelMove, RemoveMove, IsActive
<1>3. CASE WorkerNext
  BY <1>3, WorkerRows DEF WorkerMove, IsActive, Shape, JobInHand
<1> QED BY <1>1, <1>2, <1>3 DEF Next, vars, queueVars, tables

\* Two active refreshes, or monitor checks, of one brief are the same job.
THEOREM Deduplicated == SafeSpec => []OneActivePerTarget
<1>1. Init /\ WorkerInit => OneActivePerTarget
  BY DEF Init, OneActivePerTarget, ActiveJobs, IsActive, NoJobRow
<1>2. ASSUME Shape, OneActivePerTarget, [Next]_vars
      PROVE  OneActivePerTarget'
  <2>1. CASE Admission
    BY <1>2, <2>1 DEF Shape, SystemTypeOK, TypeOK, Admission, Admits, Duplicate,
       IsNextId, OneActivePerTarget, ActiveJobs, IsActive
  <2>2. CASE \A j \in JobId : Keeps(j) /\ (IsActive(j)' => IsActive(j))
    BY <1>2, <2>2 DEF OneActivePerTarget, ActiveJobs, Keeps
  <2> QED BY <1>2, <2>1, <2>2, ActiveMoves
<1> QED BY <1>1, <1>2, Shaped, PTL DEF SafeSpec, SystemInit

LEMMA FiniteJobs == \A S \in SUBSET JobId : IsFiniteSet(S) /\ Cardinality(S) \in Nat
<1>1. IsFiniteSet(JobId)
  BY FS_Interval DEF JobId
<1> QED BY <1>1, FS_Subset, FS_CardinalityType

\* The two limits of the queue hold, whoever competes for the last place.
THEOREM Limited == SafeSpec => []QueueLimits
<1>1. Init /\ WorkerInit => QueueLimits
  <2> SUFFICES ASSUME Init PROVE QueueLimits
    OBVIOUS
  <2>1. ActiveJobs = {} /\ \A u \in User : ActiveOf(u) = {}
    BY DEF Init, ActiveJobs, ActiveOf, IsActive, NoJobRow
  <2> QED BY <2>1, FS_EmptySet DEF QueueLimits
<1>2. ASSUME Shape, QueueLimits, [Next]_vars
      PROVE  QueueLimits'
  <2>0. /\ jobs \in [JobId -> JobRow]
        /\ ActiveJobs \in SUBSET JobId /\ ActiveJobs' \in SUBSET JobId
        /\ \A u \in User : ActiveOf(u) \in SUBSET JobId /\ ActiveOf(u)' \in SUBSET JobId
    BY <1>2 DEF ActiveJobs, ActiveOf, Shape, SystemTypeOK, TypeOK
  <2>1. CASE Admission
    <3>0. PICK u \in User, i \in Intent, b \in Brief \union {NoBrief}, j \in JobId :
            /\ ~Full(u)
            /\ jobs' = [jobs EXCEPT ![j] = [status |-> "queued", intent |-> i,
                                            user |-> u, target |-> b]]
      BY <2>1 DEF Admission, Admits
    <3>1. /\ ActiveJobs' \subseteq ActiveJobs \union {j}
          /\ ActiveOf(u)' \subseteq ActiveOf(u) \union {j}
          /\ \A v \in User \ {u} : ActiveOf(v)' \subseteq ActiveOf(v)
      BY <2>0, <3>0 DEF ActiveJobs, ActiveOf, IsActive
    <3>2. \A S, T \in SUBSET JobId :
            T \subseteq S \union {j} => Cardinality(T) <= Cardinality(S) + 1
      <4> SUFFICES ASSUME NEW S \in SUBSET JobId, NEW T \in SUBSET JobId,
                          T \subseteq S \union {j}
                   PROVE  Cardinality(T) <= Cardinality(S) + 1
        OBVIOUS
      <4>1. S \union {j} \in SUBSET JobId
        OBVIOUS
      <4>2. Cardinality(S \union {j}) <= Cardinality(S) + 1
        BY FiniteJobs, FS_AddElement
      <4>3. Cardinality(T) <= Cardinality(S \union {j})
        BY <4>1, FiniteJobs, FS_Subset
      <4> QED BY <4>1, <4>2, <4>3, FiniteJobs
    <3>3. Cardinality(ActiveJobs') <= ActiveGlobal
      BY <2>0, <3>0, <3>1, <3>2, FiniteJobs DEF Full
    <3>4. Cardinality(ActiveOf(u)') <= ActivePerUser
      BY <2>0, <3>0, <3>1, <3>2, FiniteJobs DEF Full
    <3>5. \A v \in User \ {u} : Cardinality(ActiveOf(v)') <= Cardinality(ActiveOf(v))
      BY <2>0, <3>1, FiniteJobs, FS_Subset
    <3>6. \A v \in User : Cardinality(ActiveOf(v)') <= ActivePerUser
      BY <1>2, <2>0, <3>4, <3>5, FiniteJobs DEF QueueLimits
    <3> QED BY <3>3, <3>6 DEF QueueLimits
  <2>2. CASE \A j \in JobId : Keeps(j) /\ (IsActive(j)' => IsActive(j))
    <3>1. /\ ActiveJobs' \subseteq ActiveJobs
          /\ \A u \in User : ActiveOf(u)' \subseteq ActiveOf(u)
      BY <2>2 DEF ActiveJobs, ActiveOf, Keeps
    <3>2. /\ Cardinality(ActiveJobs') <= Cardinality(ActiveJobs)
          /\ \A u \in User : Cardinality(ActiveOf(u)') <= Cardinality(ActiveOf(u))
      BY <2>0, <3>1, FiniteJobs, FS_Subset
    <3> QED BY <1>2, <2>0, <3>2, FiniteJobs DEF QueueLimits
  <2> QED BY <1>2, <2>1, <2>2, ActiveMoves
<1> QED BY <1>1, <1>2, Shaped, PTL DEF SafeSpec, SystemInit

------------------------------------------------------------------------------
(* The job in hand *)

\* The worker keeps its job, takes one, dies, or lets go of one that does not
\* run any more.
LEMMA HeldMoves ==
  ASSUME Shape, WorkerNext
  PROVE  \/ UNCHANGED cur /\ pc # "down"
         \/ Boot \/ ClaimJob
         \/ pc' = "down" /\ cur' = NoJob
         \/ cur' = NoJob /\ pc # "down" /\ jobs'[cur].status # "running"
<1>0. TypeOK /\ WorkerTypeOK /\ JobInHand
  BY DEF Shape, SystemTypeOK
<1>1. CASE SaveBrief \/ QueueRefresh \/ MarkFailed \/ MarkSkipped \/ CommitMonitor
  <2>1. PICK s \in {"done", "failed"} : Mark(s) /\ LetGo /\ pc \notin Idle
    BY <1>1 DEF Return, SaveBrief, QueueRefresh, MarkFailed, MarkSkipped, CommitMonitor,
       Idle
  <2>2. cur \in JobId /\ s \in Status
    BY <1>0, <2>1 DEF JobInHand, WorkerTypeOK, Status
  <2> QED BY <1>0, <2>1, <2>2, Marked DEF LetGo, Idle
<1>2. CASE RecordNoop
  BY <1>0, <1>2 DEF RecordNoop, Return, LetGo, JobInHand
<1>3. CASE CheckStatus \/ CheckCancelled \/ StillRunning \/ Recheck \/ CatchMonitor
  BY <1>3 DEF CheckStatus, CheckCancelled, StillRunning, Recheck, CatchMonitor,
     Return, LetGo, GoTo, GoOn, Holds, Reads, queueVars, tables
<1> QED BY <1>1, <1>2, <1>3 DEF WorkerNext, WorkerStep, Schedule, ScheduleTick,
  ScheduleEnqueue, ScheduleSkip, ScheduleThrows, Claim, NothingQueued, Crash,
  Prepare, CheckActor, ReadTarget, AuthorizeRun, CheckProvider, ReadMonitored,
  CheckWriter, Call, CallReturns, CallThrows, Finish, QueueRefreshThrows,
  MonitorFinish, StillEnabled, StillWriter, FinishNoop, NoopRefused, NoopThrows,
  RecordThrows, CommitStale, CommitRefused, CommitThrows, RecordStale,
  RecordFailure, GoTo, GoOn

\* No job runs that no worker has in hand, except after a crash.
THEOREM Held == SafeSpec => []RunningIsHeld
<1>1. Init /\ WorkerInit => RunningIsHeld
  BY DEF WorkerInit, RunningIsHeld
<1>2. ASSUME Shape, RunningIsHeld, [Next]_vars
      PROVE  RunningIsHeld'
  <2>0. TypeOK /\ WorkerTypeOK /\ JobInHand /\ jobs \in [JobId -> JobRow]
    BY <1>2 DEF Shape, SystemTypeOK, TypeOK
  <2>1. CASE Admission /\ UNCHANGED <<pc, cur>>
    BY <1>2, <2>0, <2>1 DEF Admission, RunningIsHeld
  <2>2. CASE WebNext /\ UNCHANGED workerVars
    BY <1>2, <2>1, <2>2, WebRows DEF CancelMove, RemoveMove, IsActive,
       RunningIsHeld, workerVars
  <2>3. CASE WorkerNext
    <3>1. CASE Boot
      BY <2>0, <3>1 DEF Boot, RunningIsHeld, JobRow
    <3>2. CASE ClaimJob
      BY <1>2, <2>0, <3>2 DEF ClaimJob, RunningIsHeld, JobInHand, Idle
    <3>3. CASE Admission /\ ~Boot /\ ~ClaimJob
      BY <1>2, <2>0, <2>3, <3>3, HeldMoves DEF Admission, IsNextId, RunningIsHeld
    <3>4. CASE (\A j \in JobId : WorkerMove(j)) /\ ~Boot /\ ~ClaimJob
      BY <1>2, <2>0, <2>3, <3>4, HeldMoves DEF WorkerMove, RunningIsHeld
    <3> QED BY <1>2, <2>3, <3>1, <3>2, <3>3, <3>4, WorkerRows
  <2>4. CASE UNCHANGED vars
    BY <1>2, <2>4 DEF vars, queueVars, tables, workerVars, RunningIsHeld
  <2> QED BY <1>2, <2>2, <2>3, <2>4 DEF Next
<1> QED BY <1>1, <1>2, Shaped, PTL DEF SafeSpec, SystemInit


------------------------------------------------------------------------------
(* What a job leaves behind *)

\* The job in hand has saved nothing yet: the strengthening that makes the two
\* invariants inductive.
Unspent == pc \notin Idle => made[cur].count = 0 /\ cands[cur] = NoContent

Outcomes == SavedOnceWhenDone /\ CandidatesOnlyFromDone /\ Unspent

\* No handler makes a brief or a candidate of a job; deleting a brief takes
\* its candidates along.
LEMMA WebOutcomes ==
  ASSUME Shape, WebNext, NEW j \in JobId
  PROVE  /\ made'[j].count = made[j].count
         /\ cands'[j] \in {cands[j], NoContent}
<1>0. made[j] \in [count : Nat, owner : User]
  BY DEF Shape, SystemTypeOK, TypeOK
<1>1. ASSUME NEW u \in User, NEW v \in User, DeleteUser(u, v)
      PROVE  made'[j].count = made[j].count /\ UNCHANGED cands
  BY <1>0, <1>1 DEF DeleteUser
<1>2. ASSUME NEW u \in User, NEW b \in Brief, DeleteBrief(u, b)
      PROVE  UNCHANGED made /\ cands'[j] \in {cands[j], NoContent}
  BY <1>2 DEF DeleteBrief
<1> QED BY ZenonT(30), <1>1, <1>2 DEF WebNext, ToggleNext, RefuseRequest, ToggleApply,
  ToggleEnqueue, ToggleEnqueueThrows, ToggleRollback, ToggleCancel, WebRestart,
  AuthorizeCreate, DisableUser, EnableUser, AuthorizeRefresh, AuthorizeToggle,
  AuthorizeChange, EditBrief, ShareBrief, RevertBrief, UnshareBrief, SubmitJob, CancelJob, RetryJob, CheckNow,
  SetRole, Enqueue, tables

\* Done and removed jobs stay so, and no create job becomes done.
QuietMove(j) ==
  /\ Keeps(j)
  /\ jobs[j].status \in {"done", "deleted"}
       => jobs'[j].status \in {jobs[j].status, "deleted"}
  /\ jobs'[j].status = "done" => jobs[j].status = "done"

\* Adding a row or moving the others quietly keeps both invariants.
LEMMA OutcomesKept ==
  ASSUME Shape, SavedOnceWhenDone, CandidatesOnlyFromDone,
         \A j \in JobId : /\ made'[j].count = made[j].count
                          /\ cands'[j] \in {cands[j], NoContent},
         \/ Admission
         \/ \A j \in JobId : QuietMove(j)
  PROVE  SavedOnceWhenDone' /\ CandidatesOnlyFromDone'
<1>0. /\ jobs \in [JobId -> JobRow]
      /\ \A j \in JobId : made[j].count \in Nat
  BY DEF Shape, SystemTypeOK, TypeOK
<1>1. CASE Admission
  BY <1>0, <1>1 DEF Admission, IsNextId, SavedOnceWhenDone,
     CandidatesOnlyFromDone
<1>2. CASE ~Admission
  BY <1>0, <1>2 DEF Keeps, QuietMove, SavedOnceWhenDone,
     CandidatesOnlyFromDone
<1> QED BY <1>1, <1>2

LEMMA OutcomesStep == Shape /\ Outcomes /\ [Next]_vars => Outcomes'
<1> SUFFICES ASSUME Shape, Outcomes, [Next]_vars PROVE Outcomes'
  OBVIOUS
<1>0. /\ TypeOK /\ WorkerTypeOK /\ JobInHand
      /\ jobs \in [JobId -> JobRow]
      /\ made \in [JobId -> [count : Nat, owner : User]]
      /\ cands \in [JobId -> Content \union {NoContent}]
      /\ SavedOnceWhenDone /\ CandidatesOnlyFromDone /\ Unspent
  BY DEF Shape, SystemTypeOK, TypeOK, Outcomes
<1>1. CASE WebNext /\ UNCHANGED workerVars
  <2>1. SavedOnceWhenDone' /\ CandidatesOnlyFromDone'
    <3>1. \A j \in JobId : /\ made'[j].count = made[j].count
                           /\ cands'[j] \in {cands[j], NoContent}
      BY <1>1, WebOutcomes
    <3>2. Admission \/ \A j \in JobId : QuietMove(j)
      BY <1>1, WebRows DEF CancelMove, RemoveMove, IsActive, QuietMove
    <3> QED BY <1>0, <3>1, <3>2, OutcomesKept
  <2>2. Unspent'
    BY <1>0, <1>1, WebOutcomes DEF Unspent, workerVars, WorkerTypeOK, JobInHand
  <2> QED BY <2>1, <2>2 DEF Outcomes
<1>2. CASE WorkerNext /\ ~Writes /\ UNCHANGED <<jobs, made, cands>>
  <2>1. \/ pc' \in Idle
        \/ UNCHANGED cur /\ pc \notin Idle
    <3>1. CASE Schedule \/ Claim \/ Crash
      <4>1. ASSUME ScheduleTick PROVE pc' \in Idle
        BY <4>1 DEF ScheduleTick, Idle
      <4>2. ASSUME ScheduleSkip PROVE pc' \in Idle
        BY <4>2 DEF ScheduleSkip, Idle
      <4> QED BY <1>2, <3>1, <4>1, <4>2 DEF Writes, Schedule, ScheduleThrows,
                 Claim, NothingQueued, Crash, GoTo, GoOn, Idle
    <3>2. CASE Prepare \/ Call
      BY <3>2 DEF Prepare, CheckStatus, CheckActor, ReadTarget, AuthorizeRun,
         CheckProvider, ReadMonitored, CheckWriter, Call, CallReturns,
         CallThrows, GoTo, GoOn, Return, LetGo, Idle
    <3>3. CASE Finish \/ MonitorFinish
      BY <1>2, <3>3 DEF Writes, Finish, CheckCancelled, QueueRefreshThrows,
         MonitorFinish, StillRunning, StillEnabled, StillWriter, NoopRefused,
         NoopThrows, RecordNoop, RecordThrows, Recheck, CommitStale,
         CommitRefused, CommitThrows, RecordStale, CatchMonitor, RecordFailure,
         GoTo, GoOn, Return, LetGo, Idle
    <3> QED BY <1>2, <3>1, <3>2, <3>3 DEF WorkerNext, WorkerStep, Writes
  <2> QED BY <1>0, <1>2, <2>1 DEF Outcomes, Unspent, SavedOnceWhenDone,
             CandidatesOnlyFromDone
<1>3. CASE Boot \/ ScheduleEnqueue
  <2>1. UNCHANGED <<made, cands>> /\ pc \in Idle /\ pc' \in Idle
    BY <1>3 DEF Boot, ScheduleEnqueue, Enqueue, GoTo, GoOn, Idle
  <2>2. WorkerNext
    BY <1>3 DEF WorkerNext, WorkerStep, Schedule
  <2>3. SavedOnceWhenDone' /\ CandidatesOnlyFromDone'
    <3>1. Admission \/ \A j \in JobId : QuietMove(j)
      BY <2>1, <2>2, WorkerRows DEF WorkerMove, QuietMove
    <3> QED BY <1>0, <2>1, <3>1, OutcomesKept
  <2> QED BY <2>1, <2>3 DEF Outcomes, Unspent
<1>4. CASE ClaimJob
  <2>1. /\ UNCHANGED <<made, cands>> /\ pc \in Idle
        /\ cur' \in JobId /\ jobs[cur'].status = "queued"
    BY <1>4 DEF ClaimJob, Queued, Idle
  <2>2. WorkerNext
    BY <1>4 DEF WorkerNext, WorkerStep, Claim
  <2>3. SavedOnceWhenDone' /\ CandidatesOnlyFromDone'
    <3>1. Admission \/ \A j \in JobId : QuietMove(j)
      BY <2>1, <2>2, WorkerRows DEF WorkerMove, QuietMove
    <3> QED BY <1>0, <2>1, <3>1, OutcomesKept
  <2>4. \A j \in JobId :
          jobs[j].status = "queued" => made[j].count = 0 /\ cands[j] = NoContent
    <3> SUFFICES ASSUME NEW j \in JobId, jobs[j].status = "queued"
                 PROVE  made[j].count = 0 /\ cands[j] = NoContent
      OBVIOUS
    <3>1. made[j].count \in Nat
      BY <1>0
    <3>2. made[j].count =< 1
      BY <1>0 DEF SavedOnceWhenDone
    <3>3. made[j].count # 1
      BY <1>0 DEF SavedOnceWhenDone
    <3>4. made[j].count = 0
      BY <3>1, <3>2, <3>3
    <3>5. cands[j] = NoContent
      BY <1>0 DEF CandidatesOnlyFromDone
    <3> QED BY <3>4, <3>5
  <2>5. made[cur'].count = 0 /\ cands[cur'] = NoContent
    BY <2>1, <2>4
  <2> QED BY <2>1, <2>3, <2>5 DEF Outcomes, Unspent
<1>5. ASSUME pc \notin Idle
      PROVE  /\ cur \in JobId /\ {"done", "failed"} \subseteq Status
             /\ made[cur].count = 0 /\ cands[cur] = NoContent
  BY <1>0, <1>5 DEF JobInHand, WorkerTypeOK, Unspent, Status
<1>6. CASE SaveBrief
  <2>1. /\ cur \in JobId /\ Mark("done") /\ pc' \in Idle /\ UNCHANGED cands
        /\ made' = [made EXCEPT ![cur] = [count |-> @.count + 1, owner |-> me]]
        /\ made[cur].count = 0 /\ "done" \in Status
    BY <1>5, <1>6 DEF SaveBrief, Return, LetGo, Idle
  <2>2. /\ made'[cur].count = 1
        /\ \A j \in JobId \ {cur} : made'[j] = made[j]
    BY <1>0, <2>1
  <2>3. /\ jobs'[cur].status \in {"done", "deleted"}
        /\ \A j \in JobId \ {cur} : jobs'[j] = jobs[j]
    BY <1>0, <2>1, Marked
  <2>4. SavedOnceWhenDone' /\ CandidatesOnlyFromDone'
    BY <1>0, <2>1, <2>2, <2>3 DEF SavedOnceWhenDone, CandidatesOnlyFromDone
  <2> QED BY <2>1, <2>4 DEF Outcomes, Unspent
<1>7. CASE QueueRefresh \/ CommitMonitor
  <2>1. /\ cur \in JobId /\ Mark("done") /\ pc' \in Idle /\ UNCHANGED made
        /\ cands' \in {cands, [cands EXCEPT ![cur] = base]}
        /\ "done" \in Status /\ intent # "create"
    BY <1>0, <1>5, <1>7 DEF QueueRefresh, CommitMonitor, Return, LetGo, Idle, JobInHand,
       OnlyRefresh, OnlyMonitor
  <2>2. /\ jobs'[cur].status \in {"done", "deleted"}
        /\ jobs'[cur].intent = jobs[cur].intent
        /\ \A j \in JobId \ {cur} : jobs'[j] = jobs[j] /\ cands'[j] = cands[j]
    BY <1>0, <2>1, Marked
  <2>3. SavedOnceWhenDone' /\ CandidatesOnlyFromDone'
    <3>1. made[cur].count = 0
      BY <1>5, <1>7 DEF QueueRefresh, CommitMonitor, Idle
    <3> QED BY <1>0, <2>1, <2>2, <3>1 DEF SavedOnceWhenDone,
               CandidatesOnlyFromDone, intent
  <2> QED BY <2>1, <2>3 DEF Outcomes, Unspent
<1>8. CASE MarkFailed \/ MarkSkipped \/ FinishNoop
  <2>1. PICK s \in {"done", "failed"} :
          /\ Mark(s) /\ UNCHANGED <<made, cands>> /\ pc \notin Idle
          /\ s = "done" => intent # "create"
          /\ pc' \in Idle \/ UNCHANGED cur
    BY <1>0, <1>8 DEF MarkFailed, MarkSkipped, FinishNoop, Return, LetGo, GoTo, GoOn, Idle,
       JobInHand, OnlyMonitor
  <2>2. /\ cur \in JobId /\ s \in Status
        /\ made[cur].count = 0 /\ cands[cur] = NoContent
    BY <1>5, <2>1
  <2>3. /\ jobs'[cur].status \in {s, "deleted"}
        /\ jobs'[cur].intent = jobs[cur].intent
        /\ \A j \in JobId \ {cur} : jobs'[j] = jobs[j]
    BY <1>0, <2>1, <2>2, Marked
  <2>4. SavedOnceWhenDone' /\ CandidatesOnlyFromDone'
    BY <1>0, <2>1, <2>2, <2>3 DEF SavedOnceWhenDone, CandidatesOnlyFromDone,
       intent
  <2> QED BY <2>1, <2>2, <2>4 DEF Outcomes, Unspent
<1>9. CASE UNCHANGED vars
  BY <1>0, <1>9 DEF vars, queueVars, tables, workerVars, Outcomes, Unspent,
     SavedOnceWhenDone, CandidatesOnlyFromDone
<1> QED BY <1>1, <1>2, <1>3, <1>4, <1>6, <1>7, <1>8, <1>9,
           WorkerWrites
        DEF Next, Writes

LEMMA OutcomesHold == SafeSpec => []Outcomes
<1>1. Init /\ WorkerInit => Outcomes
  BY DEF Init, WorkerInit, Outcomes, Unspent, SavedOnceWhenDone,
     CandidatesOnlyFromDone, NoJobRow, Idle
<1> QED BY <1>1, OutcomesStep, Shaped, PTL DEF SafeSpec, SystemInit

\* A create job saves its brief once, and exactly when it is done.
THEOREM SavedOnce == SafeSpec => []SavedOnceWhenDone
<1>1. Outcomes => SavedOnceWhenDone
  BY DEF Outcomes
<1> QED BY <1>1, OutcomesHold, PTL

\* Only done jobs have candidates waiting for review.
THEOREM CandidatesFromDone == SafeSpec => []CandidatesOnlyFromDone
<1>1. Outcomes => CandidatesOnlyFromDone
  BY DEF Outcomes
<1> QED BY <1>1, OutcomesHold, PTL

\* Candidates appear only while their job is running, on the brief_json the
\* proposal was computed from, for an actor who may write the brief and, from a
\* monitor job, while monitoring is on.
THEOREM CandidatesSafe == SafeSpec => CandidatesAreSafe
<1>1. ASSUME Shape, [Next]_vars, NEW j \in JobId,
             cands'[j] # cands[j], cands'[j] # NoContent
      PROVE  LET b == jobs[j].target
             IN  /\ jobs[j].status = "running"
                 /\ briefs[b].live /\ briefs[b].content = cands'[j]
                 /\ CanWrite(jobs[j].user, b)
                 /\ jobs[j].intent = "monitor" => briefs[b].monitored
  <2>0. JobInHand /\ cands \in [JobId -> Content \union {NoContent}]
    BY <1>1 DEF Shape, SystemTypeOK, TypeOK
  <2>1. ~WebNext
    BY <1>1, WebOutcomes
  <2>2. QueueRefresh \/ CommitMonitor
    BY <1>1, <2>1, WorkerWrites DEF Next, vars, queueVars, tables, Writes, Boot,
       ScheduleEnqueue, Enqueue, ClaimJob, SaveBrief, MarkFailed, MarkSkipped,
       FinishNoop
  <2>3. /\ cands' \in {cands, [cands EXCEPT ![cur] = base]}
        /\ JobAndBrief /\ briefs[target].content = base /\ CanWrite(me, target)
        /\ intent = "monitor" => briefs[target].monitored
    BY <2>0, <2>2 DEF QueueRefresh, RefreshMayQueue, CommitMonitor,
       MonitorMayQueue, JobInHand, OnlyRefresh
  <2>4. j = cur /\ cands'[j] = base
    BY <1>1, <2>0, <2>3
  <2> QED BY <2>3, <2>4 DEF JobAndBrief, Holds, me, target, intent
<1>2. Shape /\ [Next]_vars =>
        [\A j \in JobId :
           cands'[j] # cands[j] /\ cands'[j] # NoContent =>
             LET b == jobs[j].target
             IN  /\ jobs[j].status = "running"
                 /\ briefs[b].live /\ briefs[b].content = cands'[j]
                 /\ CanWrite(jobs[j].user, b)
                 /\ jobs[j].intent = "monitor" => briefs[b].monitored]_vars
  BY <1>1
<1> QED BY <1>2, Shaped, PTL DEF SafeSpec, SystemInit, CandidatesAreSafe

\* What becomes of a job that was cancelled during its call: the worker finds it
\* cancelled at its next check, or fails it, and never claims it again.
Discarded(j) ==
  \/ jobs[j].status = "deleted"
  \/ /\ made[j].count = 0 /\ cands[j] = NoContent
     /\ \/ cur # j /\ jobs[j].status \in {"cancelled", "failed"}
        \/ /\ cur = j /\ jobs[j].status = "cancelled"
           /\ pc \in {"call", "check", "fail", "running", "caught"}

LEMMA DiscardedStep ==
  ASSUME Shape, NEW j \in JobId, Discarded(j), [Next]_vars
  PROVE  Discarded(j)'
<1>0. /\ TypeOK /\ WorkerTypeOK /\ JobInHand
      /\ jobs \in [JobId -> JobRow] /\ made \in [JobId -> [count : Nat, owner : User]]
      /\ cands \in [JobId -> Content \union {NoContent}]
  BY DEF Shape, SystemTypeOK, TypeOK
<1>1. CASE WebNext /\ UNCHANGED workerVars
  <2>1. UNCHANGED <<pc, cur>>
    BY <1>1 DEF workerVars
  <2>2. jobs'[j].status \in {jobs[j].status, "deleted"}
    <3>1. CASE Admission
      BY <1>0, <3>1 DEF Admission, IsNextId, Discarded
    <3>2. CASE CancelMove(j) \/ RemoveMove(j)
      BY <3>2 DEF CancelMove, RemoveMove, IsActive, Discarded
    <3> QED BY <1>1, <3>1, <3>2, WebRows
  <2> QED BY <1>1, <2>1, <2>2, WebOutcomes DEF Discarded
<1>2. CASE WorkerNext
  <2>1. CASE jobs[j].status = "deleted"
    <3>1. jobs'[j].status = "deleted"
      BY <1>0, <1>2, <2>1, WorkerRows DEF Admission, IsNextId, WorkerMove
    <3> QED BY <3>1 DEF Discarded
  <2>2. CASE jobs[j].status # "deleted" /\ cur # j
    <3>1. jobs[j].status \in {"cancelled", "failed"}
      BY <2>2 DEF Discarded
    <3>2. jobs'[j].status = jobs[j].status
      BY <1>0, <1>2, <2>2, <3>1, WorkerRows DEF Admission, IsNextId, WorkerMove
    <3>3. cur' # j
      BY <1>0, <1>2, <2>2, <3>1, HeldMoves DEF Boot, GoTo, GoOn, ClaimJob, Queued, WorkerTypeOK
    <3>4. made'[j] = made[j] /\ cands'[j] = cands[j]
      BY <1>0, <1>2, <2>2, WorkerWrites DEF Writes, Boot, ScheduleEnqueue, Enqueue, ClaimJob,
         SaveBrief, QueueRefresh, MarkFailed, MarkSkipped, FinishNoop, CommitMonitor
    <3> QED BY <2>2, <3>1, <3>2, <3>3, <3>4 DEF Discarded
  <2>3. CASE jobs[j].status # "deleted" /\ cur = j
    <3>1. /\ jobs[cur].status = "cancelled" /\ pc \in {"call", "check", "fail", "running", "caught"}
          /\ made[cur].count = 0 /\ cands[cur] = NoContent
      BY <2>3 DEF Discarded
    <3>2. CASE MarkFailed
      <4>1. /\ jobs'[cur].status = "failed" /\ cur' = NoJob /\ UNCHANGED <<made, cands>>
        BY <1>0, <2>3, <3>1, <3>2, Marked DEF MarkFailed, Return, LetGo, Status, Holds
      <4> QED BY <2>3, <3>1, <4>1 DEF Discarded
    <3>3. CASE ~MarkFailed
      <4>1. UNCHANGED <<jobs, made, cands>>
        BY <1>2, <3>1, <3>3, WorkerWrites DEF Writes, Boot, ScheduleEnqueue, ClaimJob, SaveBrief,
           QueueRefresh, MarkSkipped, FinishNoop, CommitMonitor
      <4>2. \/ cur' = NoJob
            \/ UNCHANGED cur /\ pc' \in {"check", "fail", "running", "caught"}
        <5>1. CASE CallReturns \/ CallThrows \/ Crash
          BY <5>1 DEF CallReturns, CallThrows, Crash, GoTo, GoOn
        <5>2. CASE CheckCancelled \/ StillRunning \/ CatchMonitor
          BY <3>1, <5>2 DEF CheckCancelled, StillRunning, CatchMonitor, Holds, Return, LetGo
        <5> QED BY <1>2, <3>1, <3>3, <5>1, <5>2 DEF WorkerNext, WorkerStep, Boot, Schedule,
          ScheduleTick, ScheduleEnqueue, ScheduleSkip, ScheduleThrows, Claim, ClaimJob,
          NothingQueued, Prepare, CheckStatus, CheckActor, ReadTarget, AuthorizeRun,
          CheckProvider, ReadMonitored, CheckWriter, Call, Finish, SaveBrief, QueueRefresh,
          QueueRefreshThrows, MonitorFinish, StillEnabled, StillWriter, MarkSkipped,
          FinishNoop, NoopRefused, NoopThrows, RecordNoop, RecordThrows, Recheck,
          CommitMonitor, CommitStale, CommitRefused, CommitThrows, RecordStale, RecordFailure
      <4> QED BY <2>3, <3>1, <4>1, <4>2 DEF Discarded
    <3> QED BY <3>2, <3>3
  <2> QED BY <2>1, <2>2, <2>3
<1>3. CASE UNCHANGED vars
  BY <1>3 DEF vars, queueVars, tables, workerVars, Discarded
<1> QED BY <1>1, <1>2, <1>3 DEF Next

\* A job that is cancelled while the provider works on it leaves no brief and no
\* candidates, whenever its call ends and however often the worker crashes, as
\* long as its row is there.
THEOREM CancelledDiscarded == SafeSpec => CancelledInCallIsDiscarded
<1>1. ASSUME NEW j \in JobId
      PROVE  SafeSpec => [](InCall(j) /\ jobs[j].status = "cancelled"
               => [](jobs[j].status # "deleted" => made[j].count = 0 /\ cands[j] = NoContent))
  <2>1. Shape /\ Outcomes /\ InCall(j) /\ jobs[j].status = "cancelled" => Discarded(j)
    BY DEF InCall, Discarded, Outcomes, Unspent, Idle
  <2>2. Shape /\ Discarded(j) /\ [Next]_vars => Discarded(j)'
    BY DiscardedStep
  <2>3. Discarded(j) => (jobs[j].status # "deleted" => made[j].count = 0 /\ cands[j] = NoContent)
    BY DEF Discarded
  <2> QED BY <2>1, <2>2, <2>3, Shaped, OutcomesHold, PTL DEF SafeSpec
<1> QED BY <1>1 DEF CancelledInCallIsDiscarded

------------------------------------------------------------------------------
(* The history of the monitor *)

\* Nothing is recorded of a job that has not come to its end ...
Unrecorded(j) == \A o \in Outcome : runs[j][o] = 0

\* ... one row is recorded at most, and a row tells how the job ended or, of a
\* failure, how it is about to end ...
RowsTell ==
  \A j \in JobId :
    /\ runs[j]["no_updates"] + runs[j]["candidate_queued"] + runs[j]["failed"] <= 1
    /\ runs[j]["no_updates"] + runs[j]["candidate_queued"] = 1
         => jobs[j].status \in {"done", "deleted"}
    /\ runs[j]["failed"] = 1
         => jobs[j].status \in {"running", "failed", "cancelled", "deleted"}

\* ... because the job in hand has no row before its last statement.  Its status
\* is done before that only on the way from the no-op's transaction to its row,
\* which leads to a failure only if the brief is gone, and the row with it.
HandIsUnrecorded ==
  pc \notin Idle =>
    /\ pc # "fail" => Unrecorded(cur)
    /\ runs[cur]["no_updates"] = 0 /\ runs[cur]["candidate_queued"] = 0
    /\ jobs[cur].status \in {"running", "done", "cancelled", "deleted"}
    /\ jobs[cur].status = "done" =>
         \/ pc \in {"record", "fail"}
         \/ pc \in {"caught", "recordFailed"} /\ ~briefs[target].live

History == RowsTell /\ HandIsUnrecorded

\* A row of the history is a number of each outcome.
LEMMA RunRow ==
  ASSUME Shape, NEW j \in JobId
  PROVE  /\ runs[j] \in [Outcome -> Nat]
         /\ runs[j]["no_updates"] \in Nat /\ runs[j]["candidate_queued"] \in Nat
         /\ runs[j]["failed"] \in Nat
BY DEF Shape, SystemTypeOK, TypeOK, Outcome

\* No handler records anything, and none brings a brief back: deleting a brief
\* takes its history along.
LEMMA WebHistory ==
  ASSUME Shape, WebNext
  PROVE  /\ \A j \in JobId : runs'[j] \in {runs[j], NoRuns}
         /\ \A b \in Brief : briefs'[b].live => briefs[b].live
<1>0. /\ briefs \in [Brief -> BriefRow] /\ runs \in [JobId -> [Outcome -> Nat]]
      /\ \A b \in Brief : briefs[b] \in BriefRow
  BY DEF Shape, SystemTypeOK, TypeOK
<1>1. CASE UNCHANGED <<runs, briefs>>
  BY <1>1
<1>2. ASSUME NEW u \in User, NEW b \in Brief, DeleteBrief(u, b)
      PROVE  /\ \A j \in JobId : runs'[j] \in {runs[j], NoRuns}
             /\ \A c \in Brief : briefs'[c].live => briefs[c].live
  BY <1>0, <1>2 DEF DeleteBrief, BriefRow
<1>3. ASSUME NEW u \in User, NEW v \in User, NEW r \in Role,
             DeleteUser(u, v) \/ SetRole(u, v, r)
      PROVE  UNCHANGED runs /\ \A c \in Brief : briefs'[c].live => briefs[c].live
  <2>1. UNCHANGED runs
    BY <1>3 DEF DeleteUser, SetRole
  <2>2. ASSUME NEW c \in Brief PROVE briefs'[c].live = briefs[c].live
    <3>1. briefs[c] \in BriefRow
      BY <1>0
    <3>2. CASE DeleteUser(u, v)
      BY <3>1, <3>2 DEF DeleteUser, BriefRow
    <3>3. CASE SetRole(u, v, r)
      BY <3>1, <3>3 DEF SetRole, BriefRow
    <3> QED BY <1>3, <3>2, <3>3
  <2> QED BY <2>1, <2>2
<1>4. ASSUME NEW b \in Brief, UNCHANGED runs,
             \/ \E e \in SUBSET User : briefs' = [briefs EXCEPT ![b].editors = e]
             \/ \E x \in BOOLEAN : briefs' = [briefs EXCEPT ![b].monitored = x]
             \/ \E c \in Content : briefs' = [briefs EXCEPT ![b].content = c]
      PROVE  UNCHANGED runs /\ \A k \in Brief : briefs'[k].live => briefs[k].live
  BY ZenonT(30), <1>0, <1>4 DEF BriefRow
<1>5. ASSUME NEW u \in User, NEW b \in Brief, NEW v \in User, UnshareBrief(u, b, v)
      PROVE  UNCHANGED runs /\ \A k \in Brief : briefs'[k].live => briefs[k].live
  <2>1. briefs[b].editors \ {v} \in SUBSET User
    BY <1>0 DEF BriefRow
  <2>2. UNCHANGED runs /\ \E e \in SUBSET User : briefs' = [briefs EXCEPT ![b].editors = e]
    BY <1>5, <2>1 DEF UnshareBrief
  <2> QED BY <1>4, <2>2
<1>6. ASSUME NEW u \in User, NEW b \in Brief, NEW c \in Content, RevertBrief(u, b, c)
      PROVE  UNCHANGED runs /\ \A k \in Brief : briefs'[k].live => briefs[k].live
  BY <1>4, <1>6 DEF RevertBrief
<1>7. CASE \/ ToggleApply \/ ToggleRollback
           \/ \E c \in Content : EditBrief(c)
           \/ \E v \in User : ShareBrief(v)
  <2>1. PICK b \in Brief : b = req.brief
    BY <1>7 DEF Shape, JobInHand, ToggleApply, ToggleRollback, ShareBrief, EditBrief
  <2>2. CASE ToggleApply \/ ToggleRollback
    <3>1. UNCHANGED runs /\ \E x \in BOOLEAN : briefs' = [briefs EXCEPT ![b].monitored = x]
      BY <2>1, <2>2 DEF ToggleApply, ToggleRollback, Shape, SystemTypeOK, TypeOK, Request
    <3> QED BY <1>4, <3>1
  <2>3. CASE \E c \in Content : EditBrief(c)
    BY <1>4, <2>1, <2>3 DEF EditBrief
  <2>4. ASSUME NEW v \in User, ShareBrief(v)
        PROVE  UNCHANGED runs /\ \A k \in Brief : briefs'[k].live => briefs[k].live
    <3>1. briefs[b].editors \union {v} \in SUBSET User /\ briefs[b].editors \ {v} \in SUBSET User
      BY <1>0 DEF BriefRow
    <3>2. UNCHANGED runs /\ \E e \in SUBSET User : briefs' = [briefs EXCEPT ![b].editors = e]
      BY <2>1, <2>4, <3>1 DEF ShareBrief
    <3> QED BY <1>4, <3>2
  <2> QED BY <1>7, <2>2, <2>3, <2>4
<1> QED BY <1>1, <1>2, <1>3, <1>5, <1>6, <1>7 DEF WebNext, ToggleNext, RefuseRequest,
  ToggleEnqueue, ToggleEnqueueThrows, ToggleCancel, WebRestart, AuthorizeCreate,
  DisableUser, EnableUser, AuthorizeRefresh, AuthorizeToggle, AuthorizeChange,
  SubmitJob, CancelJob, RetryJob, CheckNow, Enqueue, tables

\* A history goes only with its brief.
LEMMA HistoryGoes ==
  ASSUME Shape, WebNext, NEW j \in JobId
  PROVE  runs'[j] = runs[j] \/ ~briefs'[jobs[j].target].live
<1>1. CASE UNCHANGED runs
  BY <1>1
<1>2. ASSUME NEW u \in User, NEW b \in Brief, DeleteBrief(u, b)
      PROVE  runs'[j] = runs[j] \/ ~briefs'[jobs[j].target].live
  <2>1. briefs[b] \in BriefRow
    BY DEF Shape, SystemTypeOK, TypeOK
  <2>2. ~briefs'[b].live
    BY <1>2, <2>1 DEF DeleteBrief, BriefRow, Shape, SystemTypeOK, TypeOK
  <2> QED BY <1>2, <2>2 DEF DeleteBrief
<1> QED BY ZenonT(30), <1>1, <1>2 DEF WebNext, ToggleNext, RefuseRequest, ToggleApply,
  ToggleEnqueue, ToggleEnqueueThrows, ToggleRollback, ToggleCancel, WebRestart,
  AuthorizeCreate, DisableUser, EnableUser, AuthorizeRefresh, AuthorizeToggle,
  AuthorizeChange, EditBrief, ShareBrief, RevertBrief, UnshareBrief, SubmitJob,
  CancelJob, RetryJob, CheckNow, DeleteUser, SetRole, Enqueue, tables

\* A row that tells how its job ended goes on to tell it, whatever else happens
\* to the job.
TruthfulMove(j) ==
  /\ jobs[j].status \in {"done", "deleted"} => jobs'[j].status \in {"done", "deleted"}
  /\ jobs[j].status \in {"running", "failed", "cancelled", "deleted"} =>
       jobs'[j].status \in {"running", "failed", "cancelled", "deleted"}

LEMMA RowsKept ==
  ASSUME Shape, RowsTell, NEW j \in JobId, runs'[j] \in {runs[j], NoRuns}, TruthfulMove(j)
  PROVE  /\ runs'[j]["no_updates"] + runs'[j]["candidate_queued"] + runs'[j]["failed"] <= 1
         /\ runs'[j]["no_updates"] + runs'[j]["candidate_queued"] = 1
              => jobs'[j].status \in {"done", "deleted"}
         /\ runs'[j]["failed"] = 1
              => jobs'[j].status \in {"running", "failed", "cancelled", "deleted"}
<1>1. CASE runs'[j] = runs[j]
  BY <1>1 DEF RowsTell, TruthfulMove
<1>2. CASE runs'[j] = NoRuns
  BY <1>2 DEF NoRuns, Outcome
<1> QED BY <1>1, <1>2

\* A job that is added is new and has no history.
LEMMA AdmittedKeepsRows ==
  ASSUME Shape, RowsTell, Admission, UNCHANGED runs
  PROVE  RowsTell' /\ \A j \in JobId : jobs[j].status # "absent" => jobs'[j] = jobs[j]
<1>1. PICK u \in User, i \in Intent, b \in Brief \union {NoBrief}, k \in JobId :
        /\ jobs[k].status = "absent"
        /\ jobs' = [jobs EXCEPT ![k] = [status |-> "queued", intent |-> i,
                                        user |-> u, target |-> b]]
  BY DEF Admission, IsNextId
<1>2. jobs \in [JobId -> JobRow]
  BY DEF Shape, SystemTypeOK, TypeOK
<1>3. \A j \in JobId : j # k => jobs'[j] = jobs[j]
  BY <1>1, <1>2
<1>4. runs[k]["no_updates"] + runs[k]["candidate_queued"] # 1 /\ runs[k]["failed"] # 1
  BY <1>1 DEF RowsTell
<1> QED BY <1>1, <1>3, <1>4 DEF RowsTell

LEMMA HistoryByWeb ==
  ASSUME Shape, History, WebNext, UNCHANGED workerVars
  PROVE  History'
<1>0. /\ TypeOK /\ WorkerTypeOK /\ JobInHand /\ RowsTell /\ HandIsUnrecorded
      /\ UNCHANGED <<pc, cur>>
      /\ pc \notin Idle => cur \in JobId /\ jobs[cur].status # "absent"
  BY DEF Shape, SystemTypeOK, History, workerVars, JobInHand, WorkerTypeOK
<1>1. RowsTell' /\ (pc \notin Idle => /\ jobs'[cur].target = jobs[cur].target
                                      /\ \/ jobs'[cur].status = jobs[cur].status
                                         \/ jobs'[cur].status \in {"cancelled", "deleted"})
  <2>1. CASE Admission
    <3>1. CASE UNCHANGED runs
      BY <1>0, <2>1, <3>1, AdmittedKeepsRows
    <3>2. CASE ~UNCHANGED runs
      <4>1. UNCHANGED jobs
        BY <3>2, WebWrites DEF SubmitJob, ToggleEnqueue, ToggleCancel, CancelJob, RetryJob,
           CheckNow, DeleteUser, SetRole, Enqueue
      <4>2. \A j \in JobId : TruthfulMove(j)
        BY <4>1 DEF TruthfulMove
      <4> QED BY <1>0, <4>1, <4>2, WebHistory, RowsKept DEF RowsTell
    <3> QED BY <3>1, <3>2
  <2>2. CASE \A j \in JobId : CancelMove(j) \/ RemoveMove(j)
    <3>1. \A j \in JobId : jobs[j].status = "queued" =>
            runs[j]["no_updates"] + runs[j]["candidate_queued"] # 1 /\ runs[j]["failed"] # 1
      BY <1>0 DEF RowsTell
    <3>2. \A j \in JobId : TruthfulMove(j)
      BY <2>2 DEF CancelMove, RemoveMove, IsActive, TruthfulMove
    <3> QED BY <1>0, <2>2, <3>2, WebHistory, RowsKept DEF RowsTell, CancelMove, RemoveMove, Keeps
  <2> QED BY <2>1, <2>2, WebRows
<1>2. HandIsUnrecorded'
  <2> SUFFICES ASSUME pc \notin Idle PROVE HandIsUnrecorded'
    BY <1>0 DEF HandIsUnrecorded
  <2>1. /\ Unrecorded(cur) => Unrecorded(cur)'
        /\ runs'[cur]["no_updates"] = 0 /\ runs'[cur]["candidate_queued"] = 0
    BY <1>0, WebHistory DEF HandIsUnrecorded, Unrecorded, NoRuns, Outcome
  <2>2. pc \in {"caught", "recordFailed"} => jobs[cur].target \in Brief
    BY <1>0 DEF JobInHand, OnlyMonitor, intent
  <2>3. pc \in {"caught", "recordFailed"} /\ ~briefs[target].live => ~briefs'[jobs'[cur].target].live
    BY <1>1, <2>2, WebHistory DEF target
  <2> QED BY <1>0, <1>1, <2>1, <2>3 DEF HandIsUnrecorded, target
<1> QED BY <1>1, <1>2 DEF History

\* Where the worker goes when it writes nothing: it lets go of its job, or keeps
\* it and does not reach a statement that a done job must not reach.
LEMMA QuietSteps ==
  ASSUME WorkerNext, ~Writes, UNCHANGED runs
  PROVE  \/ pc' \in Idle
         \/ /\ UNCHANGED cur /\ pc \notin Idle \union {"fail"} /\ pc' # "record"
            /\ \/ pc = "record" /\ pc' = "caught" /\ ~briefs[target].live
               \/ pc = "caught" /\ pc' = "recordFailed"
               \/ pc = "recordFailed" /\ pc' = "fail"
               \/ pc \notin {"record", "caught", "recordFailed"}
<1>1. CASE Schedule \/ Claim \/ Crash
  <2>1. ASSUME ScheduleTick PROVE pc' \in Idle
    BY <2>1 DEF ScheduleTick, Idle
  <2>2. ASSUME ScheduleSkip PROVE pc' \in Idle
    BY <2>2 DEF ScheduleSkip, Idle
  <2> QED BY <1>1, <2>1, <2>2 DEF Writes, Schedule, ScheduleThrows, Claim,
             NothingQueued, Crash, GoTo, GoOn, Idle
<1>2. CASE Prepare \/ Call
  BY <1>2 DEF Prepare, CheckStatus, CheckActor, ReadTarget, AuthorizeRun,
     CheckProvider, ReadMonitored, CheckWriter, Call, CallReturns, CallThrows,
     GoTo, GoOn, Return, LetGo, Idle
<1>3. CASE Finish
  BY <1>3 DEF Writes, Finish, CheckCancelled, QueueRefreshThrows, GoTo, GoOn, Return, LetGo, Idle
<1>4. CASE MonitorFinish
  BY <1>4 DEF Writes, MonitorFinish, StillRunning, StillEnabled, StillWriter,
     NoopRefused, NoopThrows, RecordNoop, RecordThrows, Recheck, CommitStale,
     CommitRefused, CommitThrows, RecordStale, CatchMonitor, RecordFailure, GoTo, GoOn,
     Return, LetGo, Idle
<1> QED BY <1>1, <1>2, <1>3, <1>4 DEF WorkerNext, WorkerStep, Writes

\* Only four statements write the history.
LEMMA HistoryWrites ==
  ASSUME WorkerNext
  PROVE  \/ UNCHANGED runs
         \/ RecordNoop \/ RecordStale \/ RecordFailure \/ CommitMonitor
BY DEF WorkerNext, WorkerStep, Boot, Schedule, ScheduleTick, ScheduleEnqueue,
  ScheduleSkip, ScheduleThrows, Claim, ClaimJob, NothingQueued, Crash, Prepare,
  CheckStatus, CheckActor, ReadTarget, AuthorizeRun, CheckProvider,
  ReadMonitored, CheckWriter, Call, CallReturns, CallThrows, Finish,
  CheckCancelled, SaveBrief, QueueRefresh, QueueRefreshThrows, MarkFailed,
  MonitorFinish, StillRunning, StillEnabled, StillWriter, MarkSkipped,
  FinishNoop, NoopRefused, NoopThrows, RecordThrows, Recheck, CommitStale,
  CommitRefused, CommitThrows, CatchMonitor, Enqueue, Reads, queueVars, tables

\* The first row of the job in hand, and what the row must tell.
LEMMA FirstRow ==
  ASSUME Shape, RowsTell, cur \in JobId, Unrecorded(cur), NEW o \in Outcome, RecordRun(o),
         \A j \in JobId \ {cur} : jobs'[j] = jobs[j],
         o = "failed" => jobs'[cur].status \in {"running", "failed", "cancelled", "deleted"},
         o # "failed" => jobs'[cur].status \in {"done", "deleted"}
  PROVE  /\ RowsTell'
         /\ o = "failed" => runs'[cur]["no_updates"] = 0 /\ runs'[cur]["candidate_queued"] = 0
<1>1. /\ \A j \in JobId \ {cur} : runs'[j] = runs[j]
      /\ runs'[cur] = [runs[cur] EXCEPT ![o] = @ + 1]
  BY DEF RecordRun, Shape, SystemTypeOK, TypeOK
<1>2. \A k \in Outcome : runs'[cur][k] = IF k = o THEN 1 ELSE 0
  BY <1>1, RunRow DEF Unrecorded
<1>3. \A j \in JobId \ {cur} :
        /\ runs'[j]["no_updates"] + runs'[j]["candidate_queued"] + runs'[j]["failed"] <= 1
        /\ runs'[j]["no_updates"] + runs'[j]["candidate_queued"] = 1
             => jobs'[j].status \in {"done", "deleted"}
        /\ runs'[j]["failed"] = 1
             => jobs'[j].status \in {"running", "failed", "cancelled", "deleted"}
  BY <1>1 DEF RowsTell
<1>4. /\ runs'[cur]["no_updates"] = IF o = "no_updates" THEN 1 ELSE 0
      /\ runs'[cur]["candidate_queued"] = IF o = "candidate_queued" THEN 1 ELSE 0
      /\ runs'[cur]["failed"] = IF o = "failed" THEN 1 ELSE 0
  BY <1>2 DEF Outcome
<1>5. /\ runs'[cur]["no_updates"] + runs'[cur]["candidate_queued"] + runs'[cur]["failed"] <= 1
      /\ runs'[cur]["no_updates"] + runs'[cur]["candidate_queued"] = 1 => o # "failed"
      /\ runs'[cur]["failed"] = 1 => o = "failed"
  BY <1>4
<1> QED BY <1>3, <1>4, <1>5 DEF RowsTell

LEMMA HistoryByWorker ==
  ASSUME Shape, History, WorkerNext
  PROVE  History'
<1>0. /\ TypeOK /\ WorkerTypeOK /\ JobInHand /\ RowsTell /\ HandIsUnrecorded
      /\ jobs \in [JobId -> JobRow]
      /\ UNCHANGED briefs
      /\ pc \notin Idle => cur \in JobId
  BY WorkerWrites DEF Shape, SystemTypeOK, TypeOK, History, JobInHand, WorkerTypeOK
<1>1. CASE UNCHANGED <<jobs, runs>> /\ ~Writes
  <2>1. RowsTell'
    BY <1>0, <1>1 DEF RowsTell
  <2>2. HandIsUnrecorded'
    BY <1>0, <1>1, QuietSteps DEF HandIsUnrecorded, Unrecorded, target
  <2> QED BY <2>1, <2>2 DEF History
<1>2. CASE Boot
  <2>1. UNCHANGED runs /\ pc' \in Idle
    BY <1>2 DEF Boot, GoTo, GoOn, Idle
  <2>2. \A j \in JobId : TruthfulMove(j)
    <3> SUFFICES ASSUME NEW j \in JobId PROVE TruthfulMove(j)
      OBVIOUS
    <3>1. jobs[j] \in JobRow
      BY <1>0
    <3> QED BY <1>2, <3>1 DEF Boot, TruthfulMove, JobRow
  <2> QED BY <1>0, <2>1, <2>2, RowsKept DEF History, RowsTell, HandIsUnrecorded
<1>3. CASE ScheduleEnqueue
  <2>1. UNCHANGED runs /\ pc' \in Idle
    BY <1>3 DEF ScheduleEnqueue, Enqueue, Idle
  <2> QED BY <1>0, <1>3, <2>1, ScheduleAdmits, AdmittedKeepsRows DEF History, HandIsUnrecorded
<1>4. CASE ClaimJob
  <2>1. PICK j \in JobId : /\ jobs[j].status = "queued" /\ cur' = j /\ UNCHANGED runs
                           /\ jobs' = [jobs EXCEPT ![j].status = "running"]
                           /\ pc' \in {"read", "status"}
    BY <1>4 DEF ClaimJob, Queued
  <2>2. jobs'[j].status = "running" /\ \A k \in JobId \ {j} : jobs'[k] = jobs[k]
    BY <1>0, <2>1 DEF JobRow
  <2>3. Unrecorded(j)
    <3>1. /\ runs[j]["no_updates"] + runs[j]["candidate_queued"] # 1 /\ runs[j]["failed"] # 1
          /\ runs[j]["no_updates"] + runs[j]["candidate_queued"] + runs[j]["failed"] <= 1
      BY <1>0, <2>1 DEF RowsTell
    <3>2. runs[j]["no_updates"] = 0 /\ runs[j]["candidate_queued"] = 0 /\ runs[j]["failed"] = 0
      BY <3>1, RunRow
    <3> QED BY <3>2 DEF Unrecorded, Outcome
  <2>4. RowsTell'
    BY <1>0, <2>1, <2>2 DEF RowsTell
  <2>5. HandIsUnrecorded'
    BY <2>1, <2>2, <2>3 DEF HandIsUnrecorded, Unrecorded, Outcome
  <2> QED BY <2>4, <2>5 DEF History
<1>5. CASE SaveBrief \/ QueueRefresh \/ MarkSkipped \/ FinishNoop
  <2>1. /\ Mark("done") /\ UNCHANGED runs /\ pc \notin Idle \union {"fail"}
        /\ pc' \in Idle \/ (pc' = "record" /\ UNCHANGED cur)
    BY <1>5 DEF SaveBrief, QueueRefresh, MarkSkipped, FinishNoop, Return, LetGo, GoTo, GoOn, Idle
  <2>2. cur \in JobId /\ Unrecorded(cur) /\ "done" \in Status
    BY <1>0, <2>1 DEF HandIsUnrecorded, Status
  <2>3. /\ jobs'[cur].status \in {"done", "deleted"}
        /\ \A j \in JobId \ {cur} : jobs'[j] = jobs[j]
    BY <1>0, <2>1, <2>2, Marked
  <2>4. RowsTell'
    BY <1>0, <2>1, <2>2, <2>3 DEF RowsTell, Unrecorded, Outcome
  <2>5. HandIsUnrecorded'
    BY <2>1, <2>2, <2>3 DEF HandIsUnrecorded, Unrecorded, Outcome
  <2> QED BY <2>4, <2>5 DEF History
<1>6. CASE MarkFailed
  <2>1. Mark("failed") /\ UNCHANGED runs /\ pc = "fail" /\ pc' \in Idle
    BY <1>6 DEF MarkFailed, Return, LetGo, Idle
  <2>2. /\ cur \in JobId /\ "failed" \in Status
        /\ runs[cur]["no_updates"] = 0 /\ runs[cur]["candidate_queued"] = 0
    BY <1>0, <2>1 DEF HandIsUnrecorded, Status, Idle
  <2>3. /\ jobs'[cur].status \in {"failed", "deleted"}
        /\ \A j \in JobId \ {cur} : jobs'[j] = jobs[j]
    BY <1>0, <2>1, <2>2, Marked
  <2>4. RowsTell'
    BY <1>0, <2>1, <2>2, <2>3 DEF RowsTell
  <2> QED BY <2>1, <2>4 DEF History, HandIsUnrecorded
<1>7. CASE CommitMonitor
  <2>1. /\ Mark("done") /\ RecordRun("candidate_queued") /\ pc = "commit" /\ pc' \in Idle
        /\ "candidate_queued" \in Outcome /\ "done" \in Status
    BY <1>7 DEF CommitMonitor, Return, LetGo, Idle, Outcome, Status
  <2>2. cur \in JobId /\ Unrecorded(cur)
    BY <1>0, <2>1 DEF HandIsUnrecorded, Idle
  <2>3. /\ jobs'[cur].status \in {"done", "deleted"}
        /\ \A j \in JobId \ {cur} : jobs'[j] = jobs[j]
    BY <1>0, <2>1, <2>2, Marked
  <2>4. RowsTell'
    BY <1>0, <2>1, <2>2, <2>3, FirstRow
  <2> QED BY <2>1, <2>4 DEF History, HandIsUnrecorded
<1>8. CASE RecordNoop
  <2>1. /\ RecordRun("no_updates") /\ UNCHANGED jobs /\ pc = "record" /\ pc' \in Idle
        /\ "no_updates" \in Outcome
    BY <1>8 DEF RecordNoop, Return, LetGo, Idle, Outcome
  <2>2. cur \in JobId /\ Unrecorded(cur) /\ jobs[cur].status \in {"done", "deleted"}
    BY <1>0, <2>1 DEF HandIsUnrecorded, Idle, JobInHand
  <2>3. RowsTell'
    BY <1>0, <2>1, <2>2, FirstRow
  <2> QED BY <2>1, <2>3 DEF History, HandIsUnrecorded
<1>9. CASE (RecordStale \/ RecordFailure) /\ RecordRun("failed")
  <2>1. /\ UNCHANGED <<jobs, cur>> /\ pc \in {"stale", "recordFailed"} /\ pc' = "fail"
        /\ briefs[target].live /\ "failed" \in Outcome
    BY <1>9 DEF RecordStale, RecordFailure, RecordRun, GoTo, GoOn, Outcome
  <2>2. cur \in JobId /\ Unrecorded(cur) /\ jobs[cur].status \in {"running", "cancelled", "deleted"}
    BY <1>0, <2>1 DEF HandIsUnrecorded, Idle
  <2>3. RowsTell' /\ runs'[cur]["no_updates"] = 0 /\ runs'[cur]["candidate_queued"] = 0
    BY <1>0, <1>9, <2>1, <2>2, FirstRow
  <2> QED BY <2>1, <2>2, <2>3 DEF History, HandIsUnrecorded
<1>10. WorkerNext /\ ~Writes => UNCHANGED jobs
  BY WorkerWrites
<1>11. (RecordStale => RecordRun("failed")) /\ (RecordFailure => RecordRun("failed") \/ UNCHANGED runs)
  BY DEF RecordStale, RecordFailure
<1> QED BY <1>1, <1>2, <1>3, <1>4, <1>5, <1>6, <1>7, <1>8, <1>9, <1>10, <1>11,
           HistoryWrites
        DEF Writes

\* A check that was accepted has its row, unless its brief is gone or the worker is
\* about to write it.
HasRow(j) == runs[j]["no_updates"] + runs[j]["candidate_queued"] = 1

ChecksRecorded ==
  \A j \in JobId : counted[j] = "yes" =>
    /\ jobs[j].status # "absent" /\ jobs[j].target \in Brief
    /\ HasRow(j) \/ ~briefs[jobs[j].target].live \/ (cur = j /\ pc = "record")

\* Only the statements that close an accepted check, and a crash before its row,
\* tell something new of it.
LEMMA CountedWrites ==
  ASSUME WorkerNext
  PROVE  UNCHANGED counted \/ FinishNoop \/ CommitMonitor \/ Crash
BY DEF WorkerNext, WorkerStep, Boot, Schedule, ScheduleTick, ScheduleEnqueue,
  ScheduleSkip, ScheduleThrows, Claim, ClaimJob, NothingQueued, Prepare,
  CheckStatus, CheckActor, ReadTarget, AuthorizeRun, CheckProvider,
  ReadMonitored, CheckWriter, Call, CallReturns, CallThrows, Finish,
  CheckCancelled, SaveBrief, QueueRefresh, QueueRefreshThrows, MarkFailed,
  MonitorFinish, StillRunning, StillEnabled, StillWriter, MarkSkipped,
  NoopRefused, NoopThrows, RecordNoop, RecordThrows, Recheck, CommitStale,
  CommitRefused, CommitThrows, RecordStale, CatchMonitor, RecordFailure, GoTo,
  Return

\* The worker leaves the statement that writes the row of a no-op with the row,
\* because the brief is gone, or by dying.
LEMMA RecordLeft ==
  ASSUME WorkerNext, pc = "record"
  PROVE  RecordNoop \/ ~briefs[target].live \/ Crash
BY DEF WorkerNext, WorkerStep, Boot, Schedule, ScheduleTick, ScheduleEnqueue,
  ScheduleSkip, ScheduleThrows, Claim, ClaimJob, NothingQueued, Prepare,
  CheckStatus, CheckActor, ReadTarget, AuthorizeRun, CheckProvider,
  ReadMonitored, CheckWriter, Call, CallReturns, CallThrows, Finish,
  CheckCancelled, SaveBrief, QueueRefresh, QueueRefreshThrows, MarkFailed,
  MonitorFinish, StillRunning, StillEnabled, StillWriter, MarkSkipped,
  FinishNoop, NoopRefused, NoopThrows, RecordThrows, Recheck, CommitMonitor,
  CommitStale, CommitRefused, CommitThrows, RecordStale, CatchMonitor,
  RecordFailure

\* Any row of the job in hand is its first but the row of a failure, and writing
\* one leaves the others alone.
LEMMA RowWritten ==
  ASSUME Shape, cur \in JobId, NEW o \in Outcome, RecordRun(o)
  PROVE  /\ \A j \in JobId \ {cur} : runs'[j] = runs[j]
         /\ \A k \in Outcome : runs'[cur][k] = IF k = o THEN runs[cur][k] + 1 ELSE runs[cur][k]
<1>1. runs[cur] \in [Outcome -> Nat]
  BY RunRow
<1> QED BY <1>1 DEF RecordRun, Shape, SystemTypeOK, TypeOK

\* The handlers of the web process keep it, and so does the worker.
LEMMA ChecksByWeb ==
  ASSUME Shape, ChecksRecorded, WebNext, UNCHANGED workerVars
  PROVE  ChecksRecorded'
<1> SUFFICES ASSUME NEW j \in JobId, counted[j] = "yes"
             PROVE  /\ jobs'[j].status # "absent" /\ jobs'[j].target \in Brief
                    /\ \/ HasRow(j)' \/ ~briefs'[jobs'[j].target].live
                       \/ cur' = j /\ pc' = "record"
  BY DEF ChecksRecorded, workerVars
<1>1. /\ jobs[j].status # "absent" /\ jobs[j].target \in Brief
      /\ HasRow(j) \/ ~briefs[jobs[j].target].live \/ (cur = j /\ pc = "record")
  BY DEF ChecksRecorded
<1>2. jobs'[j].status # "absent" /\ jobs'[j].target = jobs[j].target
  BY <1>1, WebRows DEF Admission, IsNextId, CancelMove, RemoveMove, Keeps, Shape,
     SystemTypeOK, TypeOK
<1>3. ~briefs[jobs[j].target].live => ~briefs'[jobs[j].target].live
  BY <1>1, WebHistory
<1> QED BY <1>1, <1>2, <1>3, HistoryGoes DEF HasRow, workerVars

LEMMA ChecksByWorker ==
  ASSUME Shape, History, ChecksRecorded, WorkerNext
  PROVE  ChecksRecorded'
<1> SUFFICES ASSUME NEW j \in JobId, counted'[j] = "yes"
             PROVE  /\ jobs'[j].status # "absent" /\ jobs'[j].target \in Brief
                    /\ \/ HasRow(j)' \/ ~briefs'[jobs'[j].target].live
                       \/ cur' = j /\ pc' = "record"
  BY DEF ChecksRecorded
<1>0. /\ JobInHand /\ HandIsUnrecorded /\ UNCHANGED briefs
      /\ jobs \in [JobId -> JobRow] /\ counted \in [JobId -> {"no", "yes", "lost"}]
      /\ pc \notin Idle => cur \in JobId
  BY WorkerWrites DEF Shape, SystemTypeOK, TypeOK, WorkerTypeOK, History, JobInHand
<1>1. ASSUME jobs[j].status # "absent", jobs[j].target \in Brief
      PROVE  jobs'[j].status # "absent" /\ jobs'[j].target = jobs[j].target
  BY <1>0, <1>1, WorkerRows DEF Admission, IsNextId, WorkerMove, Keeps
\* The check of another job, or one that was accepted before.
<1>2. CASE counted[j] = "yes"
  <2>1. /\ jobs[j].status # "absent" /\ jobs[j].target \in Brief
        /\ HasRow(j) \/ ~briefs[jobs[j].target].live \/ (cur = j /\ pc = "record")
    BY <1>2 DEF ChecksRecorded
  <2>2. HasRow(j) => HasRow(j)'
    <3>1. CASE UNCHANGED runs
      BY <3>1 DEF HasRow
    <3>2. CASE RecordNoop \/ RecordStale \/ RecordFailure \/ CommitMonitor
      <4>1. cur \in JobId /\ \E o \in Outcome : RecordRun(o) \/ UNCHANGED runs
        BY <1>0, <3>2 DEF RecordNoop, RecordStale, RecordFailure, CommitMonitor,
           Outcome, Idle
      <4>2. HasRow(j) /\ j = cur => FALSE
        BY <1>0, <3>2 DEF HasRow, HandIsUnrecorded, RecordNoop, RecordStale,
           RecordFailure, CommitMonitor, Idle
      <4> QED BY <4>1, <4>2, RowWritten DEF HasRow
    <3> QED BY <3>1, <3>2, HistoryWrites
  <2>3. CASE cur = j /\ pc = "record"
    <3>1. CASE RecordNoop
      <4>1. cur \in JobId /\ RecordRun("no_updates") /\ "no_updates" \in Outcome
            /\ "candidate_queued" \in Outcome
        BY <1>0, <2>3, <3>1 DEF RecordNoop, Outcome
      <4>2. runs[cur]["no_updates"] = 0 /\ runs[cur]["candidate_queued"] = 0
        BY <1>0, <2>3 DEF HandIsUnrecorded, Idle
      <4>3. runs'[cur]["no_updates"] = 1 /\ runs'[cur]["candidate_queued"] = 0
        BY <4>1, <4>2, RowWritten
      <4> QED BY <1>1, <2>1, <2>3, <4>3 DEF HasRow
    <3>2. CASE ~briefs[target].live
      BY <1>0, <1>1, <2>1, <2>3, <3>2 DEF target
    <3>3. CASE Crash
      BY <1>0, <2>3, <3>3 DEF Crash
    <3> QED BY <2>3, <3>1, <3>2, <3>3, RecordLeft
  <2> QED BY <1>0, <1>1, <2>1, <2>2, <2>3
<1>3. CASE counted[j] # "yes"
  <2>1. j = cur /\ (FinishNoop \/ CommitMonitor)
    BY <1>0, <1>3, CountedWrites DEF FinishNoop, CommitMonitor, Crash, Count
  <2>2. jobs[j].status # "absent" /\ jobs[j].target \in Brief
    BY <1>0, <2>1 DEF JobInHand, FinishNoop, CommitMonitor, OnlyMonitor, intent, Idle
  <2>3. CASE FinishNoop
    BY <1>1, <2>1, <2>2, <2>3 DEF FinishNoop, GoOn
  <2>4. CASE CommitMonitor
    <3>1. cur \in JobId /\ RecordRun("candidate_queued")
          /\ "no_updates" \in Outcome /\ "candidate_queued" \in Outcome
      BY <2>1, <2>4 DEF CommitMonitor, Outcome
    <3>2. runs[cur]["no_updates"] = 0 /\ runs[cur]["candidate_queued"] = 0
      BY <1>0, <2>4 DEF HandIsUnrecorded, CommitMonitor, Idle
    <3>3. runs'[cur]["no_updates"] = 0 /\ runs'[cur]["candidate_queued"] = 1
      BY <3>1, <3>2, RowWritten
    <3> QED BY <1>1, <2>1, <2>2, <3>3 DEF HasRow
  <2> QED BY <2>1, <2>3, <2>4
<1> QED BY <1>2, <1>3

\* The history of a monitor job has one row at most, the row agrees with how the
\* job ended, and an accepted check has its row, although two of the rows are
\* written outside the transaction that closes the job and the brief may be
\* deleted in between.
THEOREM HistoryAgrees == SafeSpec => []RunAgreesWithJob
<1>1. Init /\ WorkerInit => History
  BY DEF Init, WorkerInit, History, RowsTell, HandIsUnrecorded, NoRuns, Outcome, Idle
<1>2. Shape /\ History /\ [Next]_vars => History'
  <2> SUFFICES ASSUME Shape, History, [Next]_vars PROVE History'
    OBVIOUS
  <2>1. CASE UNCHANGED vars
    BY <2>1 DEF vars, queueVars, tables, workerVars, History, RowsTell, HandIsUnrecorded,
       Unrecorded, target
  <2> QED BY <2>1, HistoryByWeb, HistoryByWorker DEF Next
<1>3. Init /\ WorkerInit => ChecksRecorded
  BY DEF WorkerInit, ChecksRecorded
<1>4. Shape /\ History /\ ChecksRecorded /\ [Next]_vars => ChecksRecorded'
  BY ChecksByWeb, ChecksByWorker DEF Next, vars, queueVars, tables, workerVars,
     ChecksRecorded, HasRow
<1>5. Shape /\ History /\ ChecksRecorded /\ RunningIsHeld => RunAgreesWithJob
  <2> SUFFICES ASSUME Shape, History, ChecksRecorded, RunningIsHeld, NEW j \in JobId
               PROVE  /\ runs[j]["no_updates"] + runs[j]["candidate_queued"] + runs[j]["failed"] <= 1
                      /\ runs[j]["no_updates"] + runs[j]["candidate_queued"] = 1
                           => jobs[j].status \in {"done", "deleted"}
                      /\ runs[j]["failed"] = 1 =>
                           \/ jobs[j].status \in {"failed", "cancelled", "deleted"}
                           \/ cur = j \/ pc = "down"
                      /\ counted[j] = "yes" =>
                           \/ runs[j]["no_updates"] + runs[j]["candidate_queued"] = 1
                           \/ ~briefs[jobs[j].target].live
                           \/ cur = j /\ pc = "record"
    BY DEF RunAgreesWithJob
  <2> QED BY DEF History, RowsTell, RunningIsHeld, ChecksRecorded, HasRow
<1> QED BY <1>1, <1>2, <1>3, <1>4, <1>5, Shaped, Held, PTL DEF SafeSpec, SystemInit

------------------------------------------------------------------------------
(* Accounts *)

\* A read-only account is never an editor.
THEOREM EditorsMayWrite == SafeSpec => []EditorsAreNotViewers
<1>1. Init /\ WorkerInit => EditorsAreNotViewers
  BY DEF Init, EditorsAreNotViewers
<1>2. ASSUME Shape, EditorsAreNotViewers, [Next]_vars
      PROVE  EditorsAreNotViewers'
  <2>0. /\ briefs \in [Brief -> BriefRow]
        /\ role \in [User -> Role] /\ account \in [User -> Account]
        /\ \A b \in Brief : briefs[b].editors \subseteq User
        /\ req.on \in BOOLEAN
    BY <1>2 DEF Shape, SystemTypeOK, TypeOK, BriefRow, Request
  <2>1. CASE /\ UNCHANGED <<role, account>>
             /\ \A b \in Brief : briefs'[b].editors \subseteq briefs[b].editors
    BY <1>2, <2>1 DEF EditorsAreNotViewers
  <2>2. ASSUME NEW v \in User, ShareBrief(v)
        PROVE  EditorsAreNotViewers'
    <3>1. UNCHANGED <<role, account>> /\ SignedIn(v)
      BY <2>2 DEF ShareBrief
    <3>2. CASE role[v] # "viewer"
      <4>1. \A c \in Brief : briefs'[c].editors \subseteq briefs[c].editors \union {v}
        BY <2>0, <2>2 DEF ShareBrief, BriefRow
      <4> QED BY <1>2, <3>1, <3>2, <4>1 DEF EditorsAreNotViewers, SignedIn
    <3>3. CASE role[v] = "viewer"
      <4>1. \A c \in Brief : briefs'[c].editors \subseteq briefs[c].editors
        BY <2>0, <2>2, <3>3 DEF ShareBrief, BriefRow
      <4> QED BY <2>1, <3>1, <4>1
    <3> QED BY <3>2, <3>3
  <2>3. ASSUME NEW u \in User, NEW v \in User, NEW r \in Role, SetRole(u, v, r)
        PROVE  EditorsAreNotViewers'
    <3>1. /\ UNCHANGED account /\ account[v] # "deleted"
          /\ role' = [role EXCEPT ![v] = r]
          /\ \A c \in Brief : /\ briefs'[c].editors \subseteq briefs[c].editors
                              /\ r = "viewer" => v \notin briefs'[c].editors
      <4>1. ASSUME NEW c \in Brief
            PROVE  /\ briefs'[c].editors \subseteq briefs[c].editors
                   /\ r = "viewer" => v \notin briefs'[c].editors
        <5>1. briefs[c] \in BriefRow
          BY <2>0
        <5> QED BY <2>3, <5>1 DEF SetRole, BriefRow
      <4> QED BY <2>3, <4>1 DEF SetRole
    <3>2. ASSUME NEW c \in Brief, NEW w \in briefs'[c].editors
          PROVE  role'[w] # "viewer" /\ account'[w] # "deleted"
      <4>1. w \in User /\ role[w] # "viewer" /\ account[w] # "deleted"
        BY <1>2, <2>0, <3>1 DEF EditorsAreNotViewers
      <4> QED BY <2>0, <3>1, <4>1
    <3> QED BY <3>2 DEF EditorsAreNotViewers
  <2>4. ASSUME NEW u \in User, NEW v \in User, DeleteUser(u, v)
        PROVE  EditorsAreNotViewers'
    <3>1. /\ UNCHANGED role /\ account' = [account EXCEPT ![v] = "deleted"]
          /\ \A c \in Brief : briefs'[c].editors \subseteq briefs[c].editors \ {v}
      <4>1. ASSUME NEW c \in Brief
            PROVE  briefs'[c].editors \subseteq briefs[c].editors \ {v}
        <5>1. briefs[c] \in BriefRow
          BY <2>0
        <5> QED BY <2>4, <5>1 DEF DeleteUser, BriefRow
      <4> QED BY <2>4, <4>1 DEF DeleteUser
    <3>2. ASSUME NEW c \in Brief, NEW w \in briefs'[c].editors
          PROVE  role'[w] # "viewer" /\ account'[w] # "deleted"
      <4>1. w \in User /\ role[w] # "viewer" /\ account[w] # "deleted"
        BY <1>2, <2>0, <3>1 DEF EditorsAreNotViewers
      <4> QED BY <2>0, <3>1, <4>1
    <3> QED BY <3>2 DEF EditorsAreNotViewers
  <2>5. ASSUME NEW u \in User, NEW v \in User, DisableUser(u, v) \/ EnableUser(u, v)
        PROVE  EditorsAreNotViewers'
    BY <1>2, <2>0, <2>5 DEF DisableUser, EnableUser, EditorsAreNotViewers
  <2>6. ASSUME NEW u \in User, NEW b \in Brief, DeleteBrief(u, b)
        PROVE  EditorsAreNotViewers'
    BY <2>0, <2>1, <2>6 DEF DeleteBrief, BriefRow
  <2>7. ASSUME NEW u \in User, NEW b \in Brief, NEW v \in User, NEW c \in Content,
               UnshareBrief(u, b, v) \/ RevertBrief(u, b, c)
        PROVE  EditorsAreNotViewers'
    BY <2>0, <2>1, <2>7 DEF UnshareBrief, RevertBrief, BriefRow
  <2>8. CASE ToggleApply \/ ToggleRollback
    <3>1. \E x \in BOOLEAN : briefs' = [briefs EXCEPT ![req.brief].monitored = x]
      BY <2>8, <2>0 DEF ToggleApply, ToggleRollback
    <3> QED BY <2>0, <2>1, <2>8, <3>1 DEF ToggleApply, ToggleRollback, BriefRow
  <2>11. ASSUME NEW c \in Content, EditBrief(c) PROVE EditorsAreNotViewers'
    BY <2>0, <2>1, <2>11 DEF EditBrief, BriefRow
  <2>9. CASE UNCHANGED <<briefs, role, account>>
    BY <2>1, <2>9
  <2>10. CASE WebNext
    BY <2>2, <2>3, <2>4, <2>5, <2>6, <2>7, <2>8, <2>9, <2>10, <2>11 DEF WebNext,
       ToggleNext, RefuseRequest, ToggleEnqueue, ToggleEnqueueThrows,
       ToggleCancel, WebRestart, AuthorizeCreate, AuthorizeRefresh,
       AuthorizeToggle, AuthorizeChange, SubmitJob, CancelJob, RetryJob, CheckNow, Enqueue, tables
  <2> QED BY <1>2, <2>9, <2>10, WorkerWrites DEF Next, vars, queueVars, tables
<1> QED BY <1>1, <1>2, Shaped, PTL DEF SafeSpec, SystemInit

------------------------------------------------------------------------------
(* The life cycle of a job *)

\* The worker's memory is cur or nothing after every step but a claim.
LEMMA HeldStep ==
  ASSUME Shape, WorkerNext, ~ClaimJob
  PROVE  cur' \in {cur, NoJob}
BY HeldMoves DEF Boot, GoTo, GoOn

\* Every step of the system is a step of JobLifecycle, or none.
LEMMA LifecycleStep ==
  ASSUME Shape, RunningIsHeld, [Next]_vars
  PROVE  [Lifecycle!Next]_(Lifecycle!vars)
<1> DEFINE st == [j \in JobId |-> jobs[j].status]
<1>0. /\ TypeOK /\ WorkerTypeOK /\ JobInHand
      /\ jobs \in [JobId -> JobRow] /\ Lifecycle!JobId = JobId
  BY DEF Shape, SystemTypeOK, TypeOK, Lifecycle!JobId, JobId
<1>1. CASE Admission /\ UNCHANGED cur
  <2>1. PICK u \in User, i \in Intent, b \in Brief \union {NoBrief}, j \in JobId :
          /\ jobs[j].status = "absent"
          /\ jobs' = [jobs EXCEPT ![j] = [status |-> "queued", intent |-> i,
                                          user |-> u, target |-> b]]
    BY <1>1 DEF Admission, IsNextId
  <2>2. st' = [st EXCEPT ![j] = "queued"]
    BY <1>0, <2>1
  <2>3. Lifecycle!Submit(j)
    BY <1>1, <2>1, <2>2 DEF Lifecycle!Submit, Lifecycle!Set
  <2> QED BY <1>0, <2>3 DEF Lifecycle!Next
<1>2. CASE (\A j \in JobId : CancelMove(j)) /\ UNCHANGED cur
  <2>1. PICK J \in SUBSET JobId : J = {j \in JobId : jobs'[j].status # jobs[j].status}
    OBVIOUS
  <2>2. /\ \A j \in J : IsActive(j)
        /\ st' = [j \in JobId |-> IF j \in J THEN "cancelled" ELSE st[j]]
    BY <1>2, <2>1 DEF CancelMove
  <2>3. Lifecycle!Cancel(J)
    BY <1>0, <1>2, <2>2 DEF Lifecycle!Cancel, Lifecycle!Active, IsActive
  <2> QED BY <1>0, <2>3 DEF Lifecycle!Next
<1>3. CASE (\A j \in JobId : RemoveMove(j)) /\ UNCHANGED cur
  <2>1. PICK J \in SUBSET JobId : J = {j \in JobId : jobs'[j].status # jobs[j].status}
    OBVIOUS
  <2>2. /\ \A j \in J : jobs[j].status # "absent"
        /\ st' = [j \in JobId |-> IF j \in J THEN "deleted" ELSE st[j]]
    BY <1>3, <2>1 DEF RemoveMove
  <2>3. Lifecycle!Remove(J)
    BY <1>0, <1>3, <2>2 DEF Lifecycle!Remove
  <2> QED BY <1>0, <2>3 DEF Lifecycle!Next
<1>4. CASE UNCHANGED jobs /\ cur' \in {cur, NoJob}
  BY <1>4 DEF Lifecycle!Next, Lifecycle!Release, Lifecycle!vars
<1>5. CASE WebNext /\ UNCHANGED workerVars
  BY <1>1, <1>2, <1>3, <1>5, WebRows DEF workerVars
<1>6. CASE Boot
  <2>1. /\ cur = NoJob /\ UNCHANGED cur
        /\ st' = [j \in JobId |-> IF st[j] = "running" THEN "failed" ELSE st[j]]
    BY <1>0, <1>6 DEF Boot, GoTo, GoOn, JobInHand, Idle, JobRow
  <2>2. Lifecycle!Recover
    BY <1>0, <2>1 DEF Lifecycle!Recover
  <2> QED BY <2>2 DEF Lifecycle!Next
<1>7. CASE ScheduleEnqueue
  BY <1>1, <1>7, ScheduleAdmits DEF ScheduleEnqueue
<1>8. CASE ClaimJob
  <2>1. PICK j \in JobId : /\ jobs[j].status = "queued" /\ cur' = j
                           /\ jobs' = [jobs EXCEPT ![j].status = "running"]
    BY <1>8 DEF ClaimJob, Queued
  <2>2. cur = NoJob /\ \A k \in JobId : st[k] # "running"
    BY <1>0, <1>8 DEF ClaimJob, JobInHand, Idle, RunningIsHeld
  <2>3. st' = [st EXCEPT ![j] = "running"]
    BY <1>0, <2>1 DEF JobRow
  <2>4. Lifecycle!Claim(j)
    BY <1>0, <2>1, <2>2, <2>3 DEF Lifecycle!Claim, Lifecycle!Set
  <2> QED BY <1>0, <2>4 DEF Lifecycle!Next
<1>9. ASSUME NEW s \in {"done", "failed"}, Mark(s), pc \notin Idle,
             cur' \in {cur, NoJob}
      PROVE  [Lifecycle!Next]_(Lifecycle!vars)
  <2>1. cur \in JobId /\ s \in Status /\ jobs[cur].status # "absent"
    BY <1>0, <1>9 DEF JobInHand, WorkerTypeOK, Status
  <2>2. CASE Holds("deleted")
    BY <1>4, <1>9, <2>2 DEF Mark
  <2>3. CASE ~Holds("deleted")
    <3>1. st' = [st EXCEPT ![cur] = s]
      <4>1. /\ jobs'[cur].status = s
            /\ \A j \in JobId \ {cur} : jobs'[j] = jobs[j]
        BY <1>0, <1>9, <2>1, <2>3, Marked
      <4> QED BY <2>1, <4>1
    <3>2. jobs[cur].status \in {"queued", "running", "done", "failed", "cancelled"}
      BY <1>0, <2>1, <2>3 DEF Holds, JobRow, Status
    <3>3. PICK j \in JobId : j = cur
      BY <2>1
    <3>4. Lifecycle!Close(j, s)
      BY <1>0, <1>9, <3>1, <3>2, <3>3 DEF Lifecycle!Close, Lifecycle!Set,
         Lifecycle!Active, Lifecycle!Closed
    <3> QED BY <1>0, <3>4 DEF Lifecycle!Next, Lifecycle!Closed
  <2> QED BY <2>2, <2>3
<1>10. CASE SaveBrief \/ QueueRefresh \/ MarkFailed \/ MarkSkipped
            \/ FinishNoop \/ CommitMonitor
  <2>1. PICK s \in {"done", "failed"} :
          Mark(s) /\ pc \notin Idle /\ cur' \in {cur, NoJob}
    BY <1>10 DEF SaveBrief, QueueRefresh, MarkFailed, MarkSkipped, FinishNoop,
       CommitMonitor, Return, LetGo, GoTo, GoOn, Idle
  <2> QED BY <1>9, <2>1
<1>11. CASE WorkerNext /\ UNCHANGED jobs /\ ~ClaimJob
  BY <1>4, <1>11, HeldStep
<1>12. CASE UNCHANGED vars
  BY <1>4, <1>12 DEF vars, queueVars, tables, workerVars
<1> QED BY <1>5, <1>6, <1>7, <1>8, <1>10, <1>11, <1>12, WorkerWrites
        DEF Next, Writes

\* The system implements the life cycle of a job.
THEOREM LifecycleImplemented == SafeSpec => ImplementsLifecycle
<1>1. Init /\ WorkerInit => Lifecycle!Init
  BY DEF Init, WorkerInit, Lifecycle!Init, Lifecycle!JobId, JobId, NoJobRow
<1>2. Shape /\ RunningIsHeld /\ [Next]_vars => [Lifecycle!Next]_(Lifecycle!vars)
  BY LifecycleStep
<1> QED BY <1>1, <1>2, Shaped, Held, PTL
        DEF SafeSpec, SystemInit, ImplementsLifecycle, Lifecycle!Spec
==============================================================================
