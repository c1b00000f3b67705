--------------------------- MODULE ResearchWorker ----------------------------
(***************************************************************************)
(* The worker process (web/lib/researchWorker.ts) over the tables of       *)
(* ResearchQueue, and the whole system: web process || worker process.     *)
(*                                                                         *)
(* The worker is one sequential loop, so its position is one variable pc.  *)
(* Every SQL statement or transaction of the loop is one action: between   *)
(* any two of them a handler of the web process may commit.  The provider  *)
(* call (minutes long) is the pair of actions that enters and leaves pc    *)
(* "call".  A crash loses the worker's memory; the next boot recovers the  *)
(* rows that were left running.                                            *)
(***************************************************************************)
EXTENDS ResearchQueue

CONSTANTS
  NoJob,       \* the worker holds no job
  MaxCrashes   \* bound: crashes of the worker process

ASSUME WorkerAssumption == NoJob \notin JobId /\ MaxCrashes \in Nat

VARIABLES
  pc,       \* the statement the worker executes next
  cur,      \* the job it executes
  base,     \* the brief_json it read before the provider call
  found,    \* did the scan find anything to propose?
  due,      \* briefs the scheduler pass has still to enqueue, with the owner read
  crashes,  \* crashes so far
  counted   \* history: was a check of the job accepted, and did a crash come
            \* before its row in monitor_runs?

workerVars == <<pc, cur, base, found, due, crashes, counted>>
vars == <<queueVars, workerVars>>

Pc == {"down", "tick", "schedule", "pick", "status", "actor", "target",
       "authorize", "provider", "call", "check", "save", "queue", "fail",
       "read", "writer", "running", "enabled", "may", "skip", "noop", "record",
       "commit", "recheck", "stale", "caught", "recordFailed"}

WorkerTypeOK ==
  /\ pc \in Pc
  /\ cur \in JobId \union {NoJob}
  /\ base \in Content \union {NoContent}
  /\ found \in BOOLEAN
  /\ due \in SUBSET [brief : Brief, owner : User]
  /\ crashes \in Nat
  /\ counted \in [JobId -> {"no", "yes", "lost"}]

WorkerInit ==
  /\ pc = "down" /\ cur = NoJob /\ base = NoContent /\ found = FALSE
  /\ due = {} /\ crashes = 0 /\ counted = [j \in JobId |-> "no"]

------------------------------------------------------------------------------
(* The job in hand *)

me == jobs[cur].user
target == jobs[cur].target
intent == jobs[cur].intent
Holds(status) == jobs[cur].status = status

\* SELECT ... FROM research_jobs JOIN briefs: is the job running and is the
\* brief there?
JobAndBrief == Holds("running") /\ briefs[target].live

GoOn(next) == pc' = next /\ UNCHANGED <<cur, base, found, due, crashes>>
GoTo(next) == GoOn(next) /\ UNCHANGED counted
\* executeResearchJob returns.
LetGo ==
  /\ pc' = "tick" /\ cur' = NoJob /\ base' = NoContent /\ found' = FALSE
  /\ UNCHANGED <<due, crashes>>
Return == LetGo /\ UNCHANGED counted
\* The check is accepted: last_monitored_at is set.
Count == counted' = [counted EXCEPT ![cur] = "yes"]

\* A statement that only reads.
Reads == UNCHANGED queueVars

\* UPDATE research_jobs SET status WHERE id = cur: no row when it was deleted.
Mark(status) ==
  jobs' = IF Holds("deleted") THEN jobs
          ELSE [jobs EXCEPT ![cur].status = status]
KeepOthers == UNCHANGED <<briefs, role, account, provider, req>>

\* recordMonitorRun; the foreign key on briefs refuses a deleted brief.
RecordRun(outcome) ==
  /\ briefs[target].live
  /\ runs' = [runs EXCEPT ![cur][outcome] = @ + 1]

------------------------------------------------------------------------------
(* startWorker: scheduler tick, claim, execute *)

\* Mutant of Boot: the jobs a dead worker left running are not looked for.
BootWithoutRecovery ==
  /\ pc = "down" /\ GoTo("tick")
  /\ \E on \in ProviderModes : provider' = [provider EXCEPT !["worker"] = on]
  /\ UNCHANGED <<jobs, briefs, role, account, cands, runs, made, req>>

\* Boot: recoverStuckJobs, then the loop.
Boot ==
  /\ pc = "down"
  /\ jobs' = [j \in JobId |-> IF jobs[j].status = "running"
                              THEN [jobs[j] EXCEPT !.status = "failed"]
                              ELSE jobs[j]]
  /\ \E on \in ProviderModes : provider' = [provider EXCEPT !["worker"] = on]
  /\ GoTo("tick")
  /\ UNCHANGED <<briefs, role, account, cands, runs, made, req>>

\* maybeRunDailySchedule reads the monitored briefs that are due.  Which ones
\* are due is a matter of time: any of them may be.
ScheduleTick ==
  /\ pc = "tick"
  /\ \E bs \in SUBSET {b \in Brief : briefs[b].live /\ briefs[b].monitored} :
       /\ bs # {} => "schedule" \in Handlers /\ provider["worker"]
       /\ due' = {[brief |-> b, owner |-> briefs[b].owner] : b \in bs}
       /\ pc' = IF bs = {} THEN "pick" ELSE "schedule"
  /\ Reads /\ UNCHANGED <<cur, base, found, crashes, counted>>

\* enqueueMonitorJobOrThrow for one brief of the pass.
ScheduleEnqueue ==
  /\ pc = "schedule"
  /\ \E d \in due :
       /\ briefs[d.brief].live
       /\ Enqueue(d.owner, "monitor", d.brief)
       /\ due' = due \ {d}
       /\ pc' = IF due' = {} THEN "pick" ELSE "schedule"
  /\ UNCHANGED <<provider, req, cur, base, found, crashes, counted>>

\* The brief is gone, or the queue answers 409 or 429: go on with the next.
ScheduleSkip ==
  /\ pc = "schedule"
  /\ \E d \in due :
       /\ \/ ~briefs[d.brief].live
          \/ Duplicate("monitor", d.brief)
          \/ Full(d.owner)
          \/ NoIdLeft  \* bound
       /\ due' = due \ {d}
       /\ pc' = IF due' = {} THEN "pick" ELSE "schedule"
  /\ Reads /\ UNCHANGED <<cur, base, found, crashes, counted>>

\* Any other error ends the pass; startWorker logs it and goes on.
ScheduleThrows ==
  /\ pc = "schedule"
  /\ \E d \in due : briefs[d.brief].live /\ account[d.owner] = "deleted"
  /\ due' = {} /\ pc' = "pick"
  /\ Reads /\ UNCHANGED <<cur, base, found, crashes, counted>>

Queued(j) == jobs[j].status = "queued"

\* pickNextQueued: claim the oldest queued job.
ClaimJob ==
  /\ pc = "pick"
  /\ \E j \in JobId :
       /\ Queued(j)
       /\ \A k \in JobId : Queued(k) => j <= k
       /\ jobs' = [jobs EXCEPT ![j].status = "running"]
       /\ cur' = j
       /\ pc' = IF jobs[j].intent = "monitor" THEN "read" ELSE "status"
  /\ KeepOthers /\ UNCHANGED <<cands, runs, made, base, found, due, crashes, counted>>

NothingQueued ==
  /\ pc = "pick"
  /\ \A j \in JobId : ~Queued(j)
  /\ Reads /\ GoTo("tick")

Crash ==
  /\ pc # "down" /\ crashes < MaxCrashes
  /\ crashes' = crashes + 1
  /\ pc' = "down" /\ cur' = NoJob /\ base' = NoContent /\ found' = FALSE
  /\ due' = {}
  /\ counted' = IF pc = "record" THEN [counted EXCEPT ![cur] = "lost"] ELSE counted
  /\ Reads

------------------------------------------------------------------------------
(* executeResearchJob: create and refresh *)

CheckStatus ==
  /\ pc = "status" /\ Reads
  /\ IF Holds("running") THEN GoTo("actor") ELSE Return

CheckActor ==
  /\ pc = "actor" /\ Reads
  /\ GoTo(IF ~CanStartResearch(me) THEN "fail"
          ELSE IF intent = "refresh" THEN "target" ELSE "provider")

ReadTarget ==
  /\ pc = "target" /\ Reads
  /\ IF briefs[target].live
     THEN /\ base' = briefs[target].content /\ pc' = "authorize"
          /\ UNCHANGED <<cur, found, due, crashes, counted>>
     ELSE GoTo("fail")

AuthorizeRun ==
  /\ pc = "authorize" /\ Reads
  /\ GoTo(IF CanWrite(me, target) THEN "provider" ELSE "fail")

CheckProvider ==
  /\ pc = "provider" /\ Reads
  /\ GoTo(IF provider["worker"] THEN "call" ELSE "fail")

\* The provider answers; a monitor scan may or may not find something.
CallReturns ==
  /\ pc = "call" /\ Reads
  /\ IF intent = "monitor"
     THEN found' \in BOOLEAN /\ pc' = "running"
     ELSE found' = FALSE /\ pc' = "check"
  /\ UNCHANGED <<cur, base, due, crashes, counted>>

\* It throws: the monitor's handler looks at the status first.
CallThrows ==
  /\ pc = "call" /\ Reads
  /\ GoTo(IF intent = "monitor" THEN "caught" ELSE "fail")

CheckCancelled ==
  /\ pc = "check" /\ Reads
  /\ IF Holds("cancelled") THEN Return
     ELSE GoTo(IF intent = "refresh" THEN "queue" ELSE "save")

\* Mutant of SaveBrief: only the UPDATE looks at the status.
SaveBriefUpdateGuarded ==
  /\ pc = "save"
  /\ made' = [made EXCEPT ![cur] = [count |-> @.count + 1, owner |-> me]]
  /\ IF Holds("running") THEN Mark("done") ELSE UNCHANGED jobs
  /\ Return
  /\ KeepOthers /\ UNCHANGED <<cands, runs>>

\* saveBriefAndMarkJobDone.  Neither statement looks at the job's status, and
\* briefs.user_id is no foreign key.
SaveBrief ==
  /\ pc = "save"
  /\ made' = [made EXCEPT ![cur] = [count |-> @.count + 1, owner |-> me]]
  /\ Mark("done") /\ Return
  /\ KeepOthers /\ UNCHANGED <<cands, runs>>

\* Mutant of RefreshMayQueue: the rights checked before the call still count.
RefreshMayQueueUnauthorised == JobAndBrief /\ briefs[target].content = base

RefreshMayQueue ==
  /\ JobAndBrief
  /\ briefs[target].content = base
  /\ CanWrite(me, target)

\* queueRefreshCandidatesAndMarkJobDone: the proposal may turn out empty.
QueueRefresh ==
  /\ pc = "queue" /\ RefreshMayQueue
  /\ \/ cands' = [cands EXCEPT ![cur] = base]
     \/ cands' = cands
  /\ Mark("done") /\ Return
  /\ KeepOthers /\ UNCHANGED <<runs, made>>

\* It throws when the state moved on, or when the patches are not acceptable.
QueueRefreshThrows == pc = "queue" /\ Reads /\ GoTo("fail")

\* markJobFailed
MarkFailed ==
  /\ pc = "fail"
  /\ Mark("failed") /\ Return
  /\ KeepOthers /\ UNCHANGED <<cands, runs, made>>

------------------------------------------------------------------------------
(* executeMonitorJob *)

ReadMonitored ==
  /\ pc = "read" /\ Reads
  /\ IF ~briefs[target].live THEN GoTo("fail")
     ELSE IF ~briefs[target].monitored THEN GoTo("skip")
     ELSE /\ base' = briefs[target].content /\ pc' = "writer"
          /\ UNCHANGED <<cur, found, due, crashes, counted>>

CheckWriter ==
  /\ pc = "writer" /\ Reads
  /\ GoTo(IF CanWrite(me, target) THEN "provider" ELSE "fail")

\* monitorMayCommit, statement by statement
StillRunning ==
  /\ pc = "running" /\ Reads
  /\ IF Holds("running") THEN GoTo("enabled") ELSE Return

StillEnabled ==
  /\ pc = "enabled" /\ Reads
  /\ GoTo(IF briefs[target].live /\ briefs[target].monitored THEN "may" ELSE "skip")

StillWriter ==
  /\ pc = "may" /\ Reads
  /\ GoTo(IF ~CanWrite(me, target) THEN "fail"
          ELSE IF found THEN "commit" ELSE "noop")

\* markMonitorSkipped
MarkSkipped ==
  /\ pc = "skip"
  /\ Mark("done") /\ Return
  /\ KeepOthers /\ UNCHANGED <<cands, runs, made>>

NoopMayFinish ==
  /\ JobAndBrief /\ briefs[target].monitored
  /\ briefs[target].content = base
  /\ CanWrite(me, target)

\* markMonitorNoopDone
FinishNoop ==
  /\ pc = "noop" /\ NoopMayFinish
  /\ Mark("done") /\ Count /\ GoOn("record")
  /\ KeepOthers /\ UNCHANGED <<cands, runs, made>>

NoopRefused == pc = "noop" /\ ~NoopMayFinish /\ Reads /\ GoTo("recheck")

\* A deferred transaction that reads, then writes, fails if the other process
\* committed in between.
NoopThrows == pc = "noop" /\ Reads /\ GoTo("caught")

\* Mutant of RecordNoop: no row for a job whose row went with its account.
RecordNoopIfDone ==
  /\ pc = "record" /\ briefs[target].live
  /\ IF Holds("done") THEN RecordRun("no_updates") ELSE UNCHANGED runs
  /\ Return
  /\ KeepOthers /\ UNCHANGED <<jobs, cands, made>>

\* The run history of a no-op is written after its transaction.
RecordNoop ==
  /\ pc = "record"
  /\ RecordRun("no_updates") /\ Return
  /\ KeepOthers /\ UNCHANGED <<jobs, cands, made>>

RecordThrows ==
  /\ pc \in {"record", "stale"} /\ ~briefs[target].live
  /\ Reads /\ GoTo("caught")

\* currentStatus(job.id) === "running" after a refused transaction
Recheck ==
  /\ pc = "recheck" /\ Reads
  /\ IF Holds("running") THEN GoTo("fail") ELSE Return

\* Mutant of MonitorMayQueue: monitoring may have been turned off.
MonitorMayQueueDisabled == JobAndBrief /\ CanWrite(me, target)

MonitorMayQueue == JobAndBrief /\ briefs[target].monitored /\ CanWrite(me, target)

\* commitMonitorCandidates: "queued", "stale" or null
CommitMonitor ==
  /\ pc = "commit" /\ MonitorMayQueue /\ briefs[target].content = base
  /\ cands' = [cands EXCEPT ![cur] = base]
  /\ RecordRun("candidate_queued")
  /\ Mark("done") /\ Count /\ LetGo
  /\ KeepOthers /\ UNCHANGED made

CommitStale ==
  /\ pc = "commit" /\ MonitorMayQueue /\ briefs[target].content # base
  /\ Reads /\ GoTo("stale")

CommitRefused == pc = "commit" /\ ~MonitorMayQueue /\ Reads /\ GoTo("recheck")

\* Preparing the candidates, or the audit event, may throw.
CommitThrows == pc = "commit" /\ Reads /\ GoTo("fail")

RecordStale ==
  /\ pc = "stale"
  /\ RecordRun("failed") /\ GoTo("fail")
  /\ KeepOthers /\ UNCHANGED <<jobs, cands, made>>

\* The catch block: a cancelled job stays cancelled, anything else has failed.
CatchMonitor ==
  /\ pc = "caught" /\ Reads
  /\ IF Holds("cancelled") THEN Return ELSE GoTo("recordFailed")

\* The history row of a failure is best effort.
RecordFailure ==
  /\ pc = "recordFailed"
  /\ \/ RecordRun("failed")
     \/ ~briefs[target].live /\ UNCHANGED runs
  /\ GoTo("fail")
  /\ KeepOthers /\ UNCHANGED <<jobs, cands, made>>

------------------------------------------------------------------------------
Schedule == ScheduleTick \/ ScheduleEnqueue \/ ScheduleSkip \/ ScheduleThrows
Claim == ClaimJob \/ NothingQueued
Prepare == \/ CheckStatus \/ CheckActor \/ ReadTarget \/ AuthorizeRun
           \/ CheckProvider \/ ReadMonitored \/ CheckWriter
Call == CallReturns \/ CallThrows
Finish == \/ CheckCancelled \/ SaveBrief \/ QueueRefresh \/ QueueRefreshThrows
          \/ MarkFailed
MonitorFinish ==
  \/ StillRunning \/ StillEnabled \/ StillWriter \/ MarkSkipped
  \/ FinishNoop \/ NoopRefused \/ NoopThrows \/ RecordNoop \/ RecordThrows
  \/ Recheck \/ CommitMonitor \/ CommitStale \/ CommitRefused \/ CommitThrows
  \/ RecordStale \/ CatchMonitor \/ RecordFailure

\* What the worker does by itself: everything but crashing.
WorkerStep == Boot \/ Schedule \/ Claim \/ Prepare \/ Call \/ Finish \/ MonitorFinish
WorkerNext == WorkerStep \/ Crash

Next ==
  \/ WebNext /\ UNCHANGED workerVars
  \/ WorkerNext

SystemInit == Init /\ WorkerInit
SafeSpec == SystemInit /\ [][Next]_vars

\* The process manager restarts the worker and its provider calls time out, so
\* the worker keeps going; users are never obliged to do anything.
Spec == SafeSpec /\ WF_vars(WorkerStep)
==============================================================================
