---------------------------- MODULE ResearchQueue ----------------------------
(***************************************************************************)
(* The durable research queue and the HTTP handlers of the web process     *)
(* that write it.                                                          *)
(*                                                                         *)
(* The web application is one Node process: what a handler does between    *)
(* two awaits is not interleaved with any other handler, but each SQL      *)
(* statement or transaction is interleaved with those of the worker        *)
(* process (module ResearchWorker), which shares the SQLite file.  Five    *)
(* handlers await the request body between their authorization check and   *)
(* their first write, and do not check again: they are an Authorize...     *)
(* action, which parks the request in `req`, and the action that goes on   *)
(* with it.  Every other handler is one action; that of the role awaits    *)
(* the body, too, but repeats its check in the transaction of its writes.  *)
(*                                                                         *)
(* Abstractions.  A brief's JSON is a member of Content: only "is it still *)
(* the JSON I read?" matters.  Job ids are numbers in the order of         *)
(* created_at.  Briefs inserted by the worker are counted (made), and      *)
(* Brief holds those that existed before.  Timestamps are left to module   *)
(* MonitorSchedule.                                                        *)
(***************************************************************************)
EXTENDS Integers, FiniteSets

CONSTANTS
  User,           \* accounts that exist at the start
  Brief,          \* briefs that exist at the start
  Content,        \* the values a brief_json can take
  NoContent,      \* "no baseline", outside Content
  NoBrief,        \* a NULL target_brief_id, outside Brief
  MaxJobs,        \* bound: rows ever inserted into research_jobs
  ActiveGlobal,   \* RESEARCH_QUEUE_LIMITS.activeGlobal
  ActivePerUser,  \* RESEARCH_QUEUE_LIMITS.activePerUser
  InitRole,       \* the role of each account at the start
  InitOwner,      \* the owner of each brief at the start
  InitContent,    \* the JSON of each brief at the start
  ProviderModes,  \* values PROVIDER_CALLS_ENABLED may have in a process
  Handlers        \* bound: the handlers the users call in this instance

JobId   == 1..MaxJobs
Role    == {"admin", "member", "viewer"}
Account == {"active", "disabled", "deleted"}
Status  == {"absent", "queued", "running", "done", "failed", "cancelled",
            "deleted"}
Intent  == {"create", "refresh", "monitor"}

ASSUME ConstantsAssumption ==
  /\ User # {}
  /\ MaxJobs \in Nat
  /\ ActiveGlobal \in Nat /\ ActivePerUser \in Nat
  /\ NoContent \notin Content /\ NoBrief \notin Brief
  /\ InitRole \in [User -> Role]
  /\ InitOwner \in [Brief -> User]
  /\ InitContent \in [Brief -> Content]
  /\ ProviderModes \subseteq BOOLEAN /\ ProviderModes # {}

VARIABLES
  jobs,      \* table research_jobs
  briefs,    \* table briefs, with the editors of brief_shares
  role,      \* users.role
  account,   \* users.disabled_at, and whether the row is there
  provider,  \* PROVIDER_CALLS_ENABLED in the two processes
  cands,     \* review candidates: the baseline of the batch a job queued
  runs,      \* table monitor_runs: how many rows, by job and outcome
  made,      \* briefs a job has inserted: how many, and their user_id
  req        \* the request whose handler is suspended

tables == <<jobs, briefs, role, account, cands, runs, made>>
queueVars == <<tables, provider, req>>

------------------------------------------------------------------------------
(* Rows *)

SomeUser == CHOOSE u \in User : TRUE   \* a filler for rows not there yet
NoJobRow == [status |-> "absent", intent |-> "create", user |-> SomeUser,
             target |-> NoBrief]
Outcome == {"no_updates", "candidate_queued", "failed"}
NoRuns == [o \in Outcome |-> 0]
Phase == {"none", "body", "enqueue", "rollback", "cancel"}

Request == [phase : Phase, kind : {"create", "refresh", "toggle", "edit", "share"},
            user : User, brief : Brief \union {NoBrief}, on : BOOLEAN]
NoReq == [phase |-> "none", kind |-> "create", user |-> SomeUser,
          brief |-> NoBrief, on |-> FALSE]

JobRow == [status : Status, intent : Intent, user : User,
           target : Brief \union {NoBrief}]
BriefRow == [live : BOOLEAN, owner : User, editors : SUBSET User,
             content : Content, monitored : BOOLEAN]

TypeOK ==
  /\ jobs \in [JobId -> JobRow]
  /\ briefs \in [Brief -> BriefRow]
  /\ role \in [User -> Role]
  /\ account \in [User -> Account]
  /\ provider \in [{"web", "worker"} -> BOOLEAN]
  /\ cands \in [JobId -> Content \union {NoContent}]
  /\ runs \in [JobId -> [Outcome -> Nat]]
  /\ made \in [JobId -> [count : Nat, owner : User]]
  /\ req \in Request

Init ==
  /\ jobs = [j \in JobId |-> NoJobRow]
  /\ briefs = [b \in Brief |-> [live |-> TRUE, owner |-> InitOwner[b],
                                editors |-> {}, content |-> InitContent[b],
                                monitored |-> FALSE]]
  /\ role = InitRole
  /\ account = [u \in User |-> "active"]
  /\ provider \in [{"web", "worker"} -> ProviderModes]
  /\ cands = [j \in JobId |-> NoContent]
  /\ runs = [j \in JobId |-> NoRuns]
  /\ made = [j \in JobId |-> [count |-> 0, owner |-> SomeUser]]
  /\ req = NoReq

------------------------------------------------------------------------------
(* Authority: findUserById hides disabled accounts; a viewer writes nothing *)

SignedIn(u) == account[u] = "active"
IsAdmin(u) == SignedIn(u) /\ role[u] = "admin"
CanStartResearch(u) == SignedIn(u) /\ role[u] # "viewer"

CanManage(u, b) ==
  /\ CanStartResearch(u)
  /\ briefs[b].live
  /\ briefs[b].owner = u \/ role[u] = "admin"

CanWrite(u, b) ==
  \/ CanManage(u, b)
  \/ CanStartResearch(u) /\ briefs[b].live /\ u \in briefs[b].editors

------------------------------------------------------------------------------
(* enqueueResearchJob: one immediate transaction *)

IsActive(j) == jobs[j].status \in {"queued", "running"}
ActiveJobs == {j \in JobId : IsActive(j)}
ActiveOf(u) == {j \in ActiveJobs : jobs[j].user = u}
Cancelled(row) == [row EXCEPT !.status = "cancelled"]

\* Mutant of Duplicate: a running job is not seen.
DuplicateQueuedOnly(intent, b) ==
  \E j \in ActiveJobs : /\ jobs[j].status = "queued"
                        /\ jobs[j].intent = intent /\ jobs[j].target = b

\* The 409 of the duplicate check: only targeted intents are deduplicated.
Duplicate(intent, b) ==
  /\ intent \in {"refresh", "monitor"}
  /\ \E j \in ActiveJobs : jobs[j].intent = intent /\ jobs[j].target = b

\* Mutant of Full: off by one.
FullOffByOne(u) ==
  \/ Cardinality(ActiveJobs) > ActiveGlobal
  \/ Cardinality(ActiveOf(u)) > ActivePerUser

\* The 429 of the two capacity checks.
Full(u) ==
  \/ Cardinality(ActiveJobs) >= ActiveGlobal
  \/ Cardinality(ActiveOf(u)) >= ActivePerUser

\* The foreign key on users makes the INSERT fail for a deleted account.
Admits(u, intent, b) == ~Duplicate(intent, b) /\ ~Full(u) /\ account[u] # "deleted"

IsNextId(j) ==
  /\ jobs[j].status = "absent"
  /\ \A k \in JobId : k < j => jobs[k].status # "absent"

NoIdLeft == \A j \in JobId : jobs[j].status # "absent"

Enqueue(u, intent, b) ==
  /\ Admits(u, intent, b)
  /\ \E j \in JobId :
       /\ IsNextId(j)
       /\ jobs' = [jobs EXCEPT ![j] = [status |-> "queued", intent |-> intent,
                                       user |-> u, target |-> b]]
  /\ UNCHANGED <<briefs, role, account, cands, runs, made>>

------------------------------------------------------------------------------
(* The web process runs one handler at a time; `req` is suspended either in *)
(* its await (phase "body") or between two statements of its own.           *)

WebFree == req.phase \in {"none", "body"}
Calls(handler) == handler \in Handlers /\ WebFree

\* POST /api/research, up to its await.
AuthorizeCreate(u) ==
  /\ Calls("create") /\ req = NoReq
  /\ CanStartResearch(u)
  /\ req' = [phase |-> "body", kind |-> "create", user |-> u,
             brief |-> NoBrief, on |-> FALSE]
  /\ UNCHANGED <<tables, provider>>

\* POST /api/briefs/[id]/refresh, up to its await.
AuthorizeRefresh(u, b) ==
  /\ Calls("refresh") /\ req = NoReq
  /\ CanManage(u, b)
  /\ req' = [phase |-> "body", kind |-> "refresh", user |-> u,
             brief |-> b, on |-> FALSE]
  /\ UNCHANGED <<tables, provider>>

\* POST /api/briefs/[id]/monitor, up to its await.
AuthorizeToggle(u, b, on) ==
  /\ Calls("toggle") /\ req = NoReq
  /\ CanWrite(u, b)
  /\ req' = [phase |-> "body", kind |-> "toggle", user |-> u,
             brief |-> b, on |-> on]
  /\ UNCHANGED <<tables, provider>>

\* PATCH /api/briefs/[id] and POST of its shares, up to their await.
AuthorizeChange(u, b, kind) ==
  /\ kind \in {"edit", "share"} /\ Calls(kind) /\ req = NoReq
  /\ CanManage(u, b)
  /\ req' = [phase |-> "body", kind |-> kind, user |-> u,
             brief |-> b, on |-> FALSE]
  /\ UNCHANGED <<tables, provider>>

\* The rest of the create and refresh handlers: enqueue, or answer 4xx/503.
SubmitJob ==
  /\ req.phase = "body" /\ req.kind \in {"create", "refresh"}
  /\ provider["web"]
  /\ Enqueue(req.user, req.kind, req.brief)
  /\ req' = NoReq
  /\ UNCHANGED provider

RefuseRequest ==
  /\ req.phase = "body"
  /\ \/ req.kind \in {"edit", "share"}
     \/ req.kind \in {"create", "refresh"}
        /\ ~(provider["web"] /\ Admits(req.user, req.kind, req.brief))
     \/ req.kind = "toggle"
        /\ \/ ~briefs[req.brief].live
           \/ req.on /\ ~briefs[req.brief].monitored /\ ~provider["web"]
  /\ req' = NoReq
  /\ UNCHANGED <<tables, provider>>

\* The toggle's UPDATE of monitor_enabled, from what it just read.
ToggleApply ==
  /\ req.phase = "body" /\ req.kind = "toggle"
  /\ briefs[req.brief].live
  /\ LET was == briefs[req.brief].monitored
     IN  /\ req.on /\ ~was => provider["web"]
         /\ req' = IF ~req.on THEN [req EXCEPT !.phase = "cancel"]
                   ELSE IF ~was THEN [req EXCEPT !.phase = "enqueue"]
                   ELSE NoReq
  /\ briefs' = [briefs EXCEPT ![req.brief].monitored = req.on]
  /\ UNCHANGED <<jobs, role, account, cands, runs, made, provider>>

\* false -> true also enqueues a first check ...
ToggleEnqueue ==
  /\ req.phase = "enqueue"
  /\ Enqueue(req.user, "monitor", req.brief)
  /\ req' = NoReq
  /\ UNCHANGED provider

ToggleEnqueueThrows ==
  /\ req.phase = "enqueue"
  /\ ~Admits(req.user, "monitor", req.brief)
  /\ req' = [req EXCEPT !.phase = "rollback"]
  /\ UNCHANGED <<tables, provider>>

\* ... and puts back the value it had read when the queue refuses it.
ToggleRollback ==
  /\ req.phase = "rollback"
  /\ briefs' = [briefs EXCEPT ![req.brief].monitored = FALSE]
  /\ req' = NoReq
  /\ UNCHANGED <<jobs, role, account, cands, runs, made, provider>>

\* cancelActiveMonitorJobsForBrief
ToggleCancel ==
  /\ req.phase = "cancel"
  /\ jobs' = [j \in JobId |->
                IF IsActive(j) /\ jobs[j].intent = "monitor"
                   /\ jobs[j].target = req.brief
                THEN Cancelled(jobs[j]) ELSE jobs[j]]
  /\ req' = NoReq
  /\ UNCHANGED <<briefs, role, account, cands, runs, made, provider>>

\* The audience is written into the brief_json of now.
EditBrief(c) ==
  /\ req.phase = "body" /\ req.kind = "edit" /\ briefs[req.brief].live
  /\ briefs' = [briefs EXCEPT ![req.brief].content = c]
  /\ req' = NoReq
  /\ UNCHANGED <<jobs, role, account, cands, runs, made, provider>>

\* One transaction: the account is shared with as an editor or as a reader.
ShareBrief(v) ==
  /\ req.phase = "body" /\ req.kind = "share"
  /\ LET b == req.brief
     IN  /\ briefs[b].live /\ v # briefs[b].owner /\ SignedIn(v)
         /\ \/ role[v] # "viewer" /\ briefs' = [briefs EXCEPT ![b].editors = @ \union {v}]
            \/ briefs' = [briefs EXCEPT ![b].editors = @ \ {v}]
  /\ req' = NoReq
  /\ UNCHANGED <<jobs, role, account, cands, runs, made, provider>>

------------------------------------------------------------------------------
(* Handlers with no await between check and write *)

\* POST /api/briefs/[id]/monitor/check
CheckNow(u, b) ==
  /\ Calls("check")
  /\ CanWrite(u, b) /\ briefs[b].monitored /\ provider["web"]
  /\ Enqueue(u, "monitor", b)
  /\ UNCHANGED <<provider, req>>

\* Mutant of CancelJob: a finished job may be cancelled.
CancelAnyJob(u, j) ==
  /\ Calls("cancel") /\ SignedIn(u)
  /\ jobs[j].status # "absent"
  /\ jobs[j].user = u \/ role[u] = "admin"
  /\ jobs' = [jobs EXCEPT ![j].status = "cancelled"]
  /\ UNCHANGED <<briefs, role, account, cands, runs, made, provider, req>>

\* DELETE /api/research-jobs/[id]; its UPDATE repeats the status test.
CancelJob(u, j) ==
  /\ Calls("cancel") /\ SignedIn(u)
  /\ IsActive(j)
  /\ jobs[j].user = u \/ role[u] = "admin"
  /\ jobs' = [jobs EXCEPT ![j].status = "cancelled"]
  /\ UNCHANGED <<briefs, role, account, cands, runs, made, provider, req>>

\* POST /api/research-jobs/[id]/retry: the copy is always a plain create.
RetryJob(u, j) ==
  /\ Calls("retry") /\ CanStartResearch(u) /\ provider["web"]
  /\ jobs[j].status \in {"failed", "cancelled"}
  /\ jobs[j].user = u \/ role[u] = "admin"
  /\ Enqueue(jobs[j].user, "create", NoBrief)
  /\ UNCHANGED <<provider, req>>

\* POST .../versions/[versionId]/revert
RevertBrief(u, b, c) ==
  /\ Calls("revert") /\ CanManage(u, b)
  /\ briefs' = [briefs EXCEPT ![b].content = c]
  /\ UNCHANGED <<jobs, role, account, cands, runs, made, provider, req>>

\* DELETE /api/briefs/[id]: candidates and run history cascade; the jobs'
\* target_brief_id is no foreign key and dangles.
DeleteBrief(u, b) ==
  /\ Calls("delete") /\ CanManage(u, b)
  /\ briefs' = [briefs EXCEPT ![b].live = FALSE, ![b].editors = {}]
  /\ cands' = [j \in JobId |-> IF jobs[j].target = b THEN NoContent ELSE cands[j]]
  /\ runs' = [j \in JobId |-> IF jobs[j].target = b THEN NoRuns ELSE runs[j]]
  /\ UNCHANGED <<jobs, role, account, made, provider, req>>

\* DELETE /api/briefs/[id]/shares/[userId], as far as the editor role goes.
UnshareBrief(u, b, v) ==
  /\ Calls("share") /\ CanManage(u, b)
  /\ briefs' = [briefs EXCEPT ![b].editors = @ \ {v}]
  /\ UNCHANGED <<jobs, role, account, cands, runs, made, provider, req>>

\* POST /api/admin/users/[id]/role: one transaction.  A demotion to viewer
\* also drops the editor shares, the owned monitors and the active jobs.
SetRole(a, u, r) ==
  /\ Calls("role") /\ IsAdmin(a)
  /\ account[u] # "deleted"
  /\ a = u => r = "admin"
  /\ role' = [role EXCEPT ![u] = r]
  /\ briefs' = [b \in Brief |->
       [briefs[b] EXCEPT
          !.editors = IF "viewer" \in {r, role[u]} THEN @ \ {u} ELSE @,
          !.monitored = IF r = "viewer" /\ briefs[b].owner = u
                        THEN FALSE ELSE @]]
  /\ jobs' = [j \in JobId |-> IF r = "viewer" /\ j \in ActiveOf(u)
                              THEN Cancelled(jobs[j]) ELSE jobs[j]]
  /\ UNCHANGED <<account, cands, runs, made, provider, req>>

\* POST .../disable and .../enable
DisableUser(a, u) ==
  /\ Calls("disable") /\ IsAdmin(a) /\ a # u /\ account[u] = "active"
  /\ account' = [account EXCEPT ![u] = "disabled"]
  /\ UNCHANGED <<jobs, briefs, role, cands, runs, made, provider, req>>

EnableUser(a, u) ==
  /\ Calls("disable") /\ IsAdmin(a) /\ account[u] = "disabled"
  /\ account' = [account EXCEPT ![u] = "active"]
  /\ UNCHANGED <<jobs, briefs, role, cands, runs, made, provider, req>>

\* DELETE /api/admin/users/[id]: briefs go to the admin, the foreign key on
\* research_jobs.user_id cascades.
DeleteUser(a, u) ==
  /\ Calls("remove") /\ IsAdmin(a) /\ a # u /\ account[u] # "deleted"
  /\ account' = [account EXCEPT ![u] = "deleted"]
  /\ briefs' = [b \in Brief |->
       [briefs[b] EXCEPT !.owner = IF @ = u THEN a ELSE @,
                         !.editors = @ \ {u}]]
  /\ jobs' = [j \in JobId |->
                IF jobs[j].user = u /\ jobs[j].status # "absent"
                THEN [jobs[j] EXCEPT !.status = "deleted"] ELSE jobs[j]]
  /\ made' = [j \in JobId |-> [made[j] EXCEPT !.owner = IF @ = u THEN a ELSE @]]
  /\ UNCHANGED <<role, cands, runs, provider, req>>

\* The process manager restarts the web process: the request is lost.
WebRestart ==
  /\ "restart" \in Handlers
  /\ req' = NoReq
  /\ \E on \in ProviderModes : provider' = [provider EXCEPT !["web"] = on]
  /\ UNCHANGED tables

ToggleNext == \/ ToggleApply \/ ToggleEnqueue \/ ToggleEnqueueThrows
              \/ ToggleRollback \/ ToggleCancel

WebNext ==
  \/ SubmitJob \/ RefuseRequest \/ ToggleNext \/ WebRestart
  \/ \E c \in Content : EditBrief(c)
  \/ \E v \in User : ShareBrief(v)
  \/ \E u \in User :
       \/ AuthorizeCreate(u)
       \/ \E j \in JobId : CancelJob(u, j) \/ RetryJob(u, j)
       \/ \E v \in User : \/ DisableUser(u, v) \/ EnableUser(u, v)
                          \/ DeleteUser(u, v)
                          \/ \E r \in Role : SetRole(u, v, r)
       \/ \E b \in Brief :
            \/ \E kind \in {"edit", "share"} : AuthorizeChange(u, b, kind)
            \/ AuthorizeRefresh(u, b) \/ CheckNow(u, b) \/ DeleteBrief(u, b)
            \/ \E on \in BOOLEAN : AuthorizeToggle(u, b, on)
            \/ \E c \in Content : RevertBrief(u, b, c)
            \/ \E v \in User : UnshareBrief(u, b, v)
==============================================================================
