--------------------------- MODULE MonitorSchedule ---------------------------
(***************************************************************************)
(* The daily monitor scheduler against the wall clock                      *)
(* (lib/monitorScheduler.ts).                                              *)
(*                                                                         *)
(* The worker is one loop: a scheduler tick, then the oldest queued job.   *)
(* A tick on or after 2 AM walks over the due briefs and asks the research *)
(* queue for a monitor job for each; the day is marked complete only when  *)
(* no brief was put off for lack of capacity.  Meanwhile the clock runs,   *)
(* users check briefs by hand, switch monitoring on and off, change the    *)
(* cadence, cancel jobs and fill the queue, the worker may die, and an     *)
(* account may be deleted: its briefs go to the deleting admin and stay    *)
(* monitored, its jobs go with it, the finished ones too.                  *)
(*                                                                         *)
(* Abstractions.  Time is counted in ticks, DayLength to a day.  Of the    *)
(* monitor jobs of a brief the scheduler reads only their created_at and   *)
(* which one is active, so only the latest of each account is kept.  The   *)
(* admission rules are those of ResearchQueue, here on a queue in          *)
(* created_at order; what a job does inside its run, and the race inside   *)
(* the toggle handler, are left to ResearchWorker and ResearchQueue.       *)
(* Provider calls are enabled.  Briefs are not deleted: one that is would  *)
(* not be selected again, and a pass that holds it passes over it.         *)
(***************************************************************************)
EXTENDS Integers, FiniteSets, SequencesExt

CONSTANTS
  NumBriefs,      \* briefs, in the order of their ids
  Account,        \* accounts
  Admin,          \* those with the role admin
  Owner,          \* who each brief belongs to at first
  Interval,       \* monitorCadenceIntervalMs of each cadence, in days
  InitCadence,    \* the DEFAULT of column monitor_cadence
  DayLength,      \* DAY_MS in ticks
  MonitorHour,    \* MONITOR_HOUR in ticks after midnight
  Slack,          \* CADENCE_SLACK_MS in ticks
  ActiveGlobal,   \* RESEARCH_QUEUE_LIMITS.activeGlobal
  ActivePerUser,  \* RESEARCH_QUEUE_LIMITS.activePerUser
  Horizon,        \* bound: the clock stops here
  MaxRequests,    \* bound: requests the users make
  MaxFaults       \* bound: crashes of the worker and failing passes

Brief == 1..NumBriefs
Cadence == DOMAIN Interval

ASSUME ScheduleAssumption ==
  /\ NumBriefs \in Nat /\ Owner \in [Brief -> Account] /\ Admin \subseteq Account
  /\ Interval \in [Cadence -> Nat \ {0}] /\ InitCadence \in Cadence
  /\ DayLength \in Nat \ {0} /\ MonitorHour \in 0..DayLength - 1
  /\ Slack \in 0..DayLength - 1
  /\ ActiveGlobal \in Nat /\ ActivePerUser \in Nat
  /\ Horizon \in Nat /\ MaxRequests \in Nat /\ MaxFaults \in Nat

VARIABLES
  now,       \* the server's clock
  briefs,    \* the monitor columns of table briefs
  ownerOf,     \* briefs.user_id
  live,      \* the accounts not deleted
  attempt,   \* the latest created_at of a brief's monitor jobs, by account
  queue,     \* queued jobs, in the order of created_at
  running,   \* the job in the worker's hands, and whether it was cancelled
  lastRun,   \* monitor_schedule.last_run_date
  pc,        \* where the worker's loop is
  pass,      \* the scheduler pass: its day, the briefs to go, their owners
             \* as they were selected, deferrals
  sent,      \* requests made so far
  faults,    \* crashes and failing passes so far
  checks,    \* history: jobs the scheduler created per brief, day and account
  served,    \* history: when a check of a brief was last asked for or ended
  cadenceSet \* history: when the cadence of a brief was last changed

userVars == <<sent, cadenceSet>>
accountVars == <<ownerOf, live>>
scheduleVars ==
  <<now, briefs, ownerOf, live, attempt, queue, running, lastRun, pc, pass,
    sent, faults, checks, served, cadenceSet>>

------------------------------------------------------------------------------
(* Time *)

Never == -1
Time == 0..Horizon
Day(t) == t \div DayLength
Hour(t) == t % DayLength
Window(d) == d * DayLength + MonitorHour
Days == 0..Day(Horizon)

Due(b, t) ==
  \/ briefs[b].last = Never
  \/ t >= briefs[b].last + Interval[briefs[b].cadence] * DayLength - Slack

------------------------------------------------------------------------------
(* The queue.  A job of brief 0 is any other research job. *)

MonitorRow == [monitored : BOOLEAN, cadence : Cadence, last : Time \union {Never}]
Job == [brief : Brief \union {0}, user : Account]
NoJob == [brief |-> 0, user |-> CHOOSE u \in Account : TRUE, state |-> "none"]
NoPass == [day |-> 0, todo |-> {}, owner |-> Owner, deferred |-> 0]

ActiveJobs == ToSet([i \in DOMAIN queue |-> <<i, queue[i]>>]) \union
              {<<0, [brief |-> running.brief, user |-> running.user]>> :
                 x \in {running.state} \intersect {"running"}}
Pending(b) == \E a \in ActiveJobs : a[2].brief = b

Full(u) ==
  \/ Cardinality(ActiveJobs) >= ActiveGlobal
  \/ Cardinality({a \in ActiveJobs : a[2].user = u}) >= ActivePerUser

(* enqueueMonitorJobOrThrow; it throws 409 when Pending, 429 when Full, and
   the INSERT fails for an account that is gone *)
EnqueueCheck(b, u) ==
  /\ ~Pending(b) /\ ~Full(u) /\ u \in live
  /\ queue' = Append(queue, [brief |-> b, user |-> u])
  /\ attempt' = [attempt EXCEPT ![b][u] = now]
  /\ served' = [served EXCEPT ![b] = now]

(* cancelActiveMonitorJobsForBrief, and DELETE of a monitor job.  At most one
   of a brief's jobs is active, the one that found none Pending. *)
CancelChecks(b) ==
  /\ \/ \E i \in DOMAIN queue : queue[i].brief = b /\ queue' = RemoveAt(queue, i)
     \/ (\A i \in DOMAIN queue : queue[i].brief # b) /\ queue' = queue
  /\ running' = IF running.brief = b /\ running.state = "running"
                THEN [running EXCEPT !.state = "cancelled"] ELSE running
  /\ served' = IF Pending(b) THEN [served EXCEPT ![b] = now] ELSE served

(* Type invariant. *)
ScheduleTypeOK ==
  /\ now \in Time /\ briefs \in [Brief -> MonitorRow]
  /\ ownerOf \in [Brief -> Account] /\ live \subseteq Account
  /\ attempt \in [Brief -> [Account -> Time \union {Never}]]
  /\ served \in [Brief -> Time \union {Never}]
  /\ cadenceSet \in [Brief -> Time \union {Never}]
  /\ queue \in Seq(Job)
  /\ running \in [brief : Brief \union {0}, user : Account \union {NoJob.user},
                 state : {"none", "running", "cancelled"}]
  /\ lastRun \in Days \union {Never}
  /\ pass \in [day : Days, todo : SUBSET Brief, owner : [Brief -> Account], deferred : Nat]
  /\ checks \in [Brief -> [Days -> [Account -> Nat]]]
  /\ pc # "run" => running.state = "none"

ScheduleInit ==
  /\ now = 0
  /\ briefs \in [Brief -> [monitored : BOOLEAN, cadence : {InitCadence},
                           last : {Never}]]
  /\ ownerOf = Owner /\ live = Account
  /\ attempt = [b \in Brief |-> [u \in Account |-> Never]]
  /\ served = [b \in Brief |-> Never]
  /\ queue = <<>> /\ running = NoJob
  /\ lastRun = Never /\ pc = "tick" /\ pass = NoPass
  /\ sent = 0 /\ faults = 0
  /\ checks = [b \in Brief |-> [d \in Days |-> [u \in Account |-> 0]]]
  /\ cadenceSet = [b \in Brief |-> Never]

------------------------------------------------------------------------------
(* The clock and the users *)

Tick ==
  /\ now < Horizon
  /\ now' = now + 1
  /\ UNCHANGED <<briefs, accountVars, attempt, queue, running, lastRun, pc, pass,
                 faults, checks, served, userVars>>

Request ==
  /\ sent < MaxRequests /\ sent' = sent + 1
  /\ UNCHANGED <<now, accountVars, lastRun, pc, pass, faults, checks>>

(* POST /api/briefs/[id]/monitor: a refused first check rolls back *)
SwitchOn(b, u) ==
  /\ Request
  /\ ~briefs[b].monitored
  /\ briefs' = [briefs EXCEPT ![b].monitored = TRUE]
  /\ EnqueueCheck(b, u)
  /\ UNCHANGED <<running, cadenceSet>>

SwitchOff(b) ==
  /\ Request
  /\ briefs[b].monitored
  /\ briefs' = [briefs EXCEPT ![b].monitored = FALSE]
  /\ CancelChecks(b)
  /\ UNCHANGED <<attempt, cadenceSet>>

SetCadence(b, c) ==
  /\ Request
  /\ briefs[b].monitored /\ briefs[b].cadence # c
  /\ briefs' = [briefs EXCEPT ![b].cadence = c]
  /\ cadenceSet' = [cadenceSet EXCEPT ![b] = now]
  /\ UNCHANGED <<attempt, served, queue, running>>

(* POST /api/briefs/[id]/monitor/check *)
CheckNow(b, u) ==
  /\ Request
  /\ briefs[b].monitored
  /\ EnqueueCheck(b, u)
  /\ UNCHANGED <<briefs, running, cadenceSet>>

CancelCheck(b) ==
  /\ Request
  /\ Pending(b)
  /\ CancelChecks(b)
  /\ UNCHANGED <<briefs, attempt, cadenceSet>>

(* any other request for research *)
SubmitOther(u) ==
  /\ Request
  /\ ~Full(u) /\ u \in live
  /\ queue' = Append(queue, [brief |-> 0, user |-> u])
  /\ UNCHANGED <<briefs, attempt, served, running, cadenceSet>>

(* DELETE /api/admin/users/[id] by admin a.  The foreign key takes the jobs of
   the account, the one in the worker's hands as well: its run writes nothing
   more, monitorMayCommit finding no row. *)
Others(u) == {i \in DOMAIN queue : queue[i].user # u}
DeleteAccount(a, u) ==
  /\ sent < MaxRequests /\ sent' = sent + 1
  /\ {a, u} \subseteq live /\ a \in Admin /\ a # u
  /\ live' = live \ {u}
  /\ ownerOf' = [b \in Brief |-> IF ownerOf[b] = u THEN a ELSE ownerOf[b]]
  /\ \E place \in [1..Cardinality(Others(u)) -> Others(u)] :
       /\ \A i, k \in DOMAIN place : i < k => place[i] < place[k]
       /\ \A o \in Others(u) : \E i \in DOMAIN place : place[i] = o
       /\ queue' = [i \in DOMAIN place |-> queue[place[i]]]
  /\ running' = IF running.user = u /\ running.state = "running"
                THEN [running EXCEPT !.state = "cancelled"] ELSE running
  /\ attempt' = [b \in Brief |-> [attempt[b] EXCEPT ![u] = Never]]
  /\ served' = [b \in Brief |->
                  IF \E j \in ActiveJobs : j[2] = [brief |-> b, user |-> u]
                  THEN now ELSE served[b]]
  /\ UNCHANGED <<now, briefs, lastRun, pc, pass, faults, checks, cadenceSet>>

------------------------------------------------------------------------------
(* The scheduler *)

\* Mutant of MayOpen: the window is the hour of 2 AM only.
MayOpenAtTwo == Hour(now) = MonitorHour /\ lastRun # Day(now)

MayOpen == Hour(now) >= MonitorHour /\ lastRun # Day(now)

(* never checked first, then the oldest check, then the id *)
Before(b, c) ==
  \/ briefs[b].last < briefs[c].last
  \/ briefs[b].last = briefs[c].last /\ b < c

(* the SELECT of the briefs not attempted since 2 AM, and the due ones of it *)
Selected ==
  {b \in Brief : /\ briefs[b].monitored
                 /\ \A u \in Account : attempt[b][u] < Window(Day(now))
                 /\ Due(b, now)}

OpenPass ==
  /\ pc = "tick" /\ MayOpen
  /\ pc' = "pass"
  /\ pass' = [day |-> Day(now), todo |-> Selected, owner |-> ownerOf, deferred |-> 0]
  /\ UNCHANGED <<now, briefs, accountVars, attempt, queue, running, lastRun,
                 faults, checks, served, userVars>>

NoPassToday ==
  /\ pc = "tick" /\ ~MayOpen
  /\ pc' = "claim"
  /\ UNCHANGED <<now, briefs, accountVars, attempt, queue, running, lastRun, pass,
                 faults, checks, served, userVars>>

(* The next brief of the list.  The order is that of the SELECT, as only the
   worker's loop, which is in the pass, writes last_monitored_at. *)
IsNext(b) ==
  pc = "pass" /\ b \in pass.todo /\ \A c \in pass.todo \ {b} : Before(b, c)

PassEnqueues(b) ==
  /\ IsNext(b)
  /\ EnqueueCheck(b, pass.owner[b])
  /\ checks' = [checks EXCEPT ![b][pass.day][pass.owner[b]] = @ + 1]
  /\ pass' = [pass EXCEPT !.todo = @ \ {b}]
  /\ UNCHANGED <<now, briefs, accountVars, running, lastRun, pc, faults, userVars>>

(* 409: a check of the brief is active already *)
PassSkips(b) ==
  /\ IsNext(b) /\ Pending(b)
  /\ pass' = [pass EXCEPT !.todo = @ \ {b}]
  /\ UNCHANGED <<now, briefs, accountVars, attempt, queue, running, lastRun, pc,
                 faults, checks, served, userVars>>

(* 429: put off; the day stays open *)
PassDefers(b) ==
  /\ IsNext(b) /\ ~Pending(b) /\ Full(pass.owner[b])
  /\ pass' = [pass EXCEPT !.todo = @ \ {b}, !.deferred = @ + 1]
  /\ UNCHANGED <<now, briefs, accountVars, attempt, queue, running, lastRun, pc,
                 faults, checks, served, userVars>>

(* The owner was deleted since the SELECT: the INSERT throws, which ends the
   pass; the next one finds the new owner. *)
PassLosesOwner(b) ==
  /\ IsNext(b) /\ ~Pending(b) /\ ~Full(pass.owner[b]) /\ pass.owner[b] \notin live
  /\ pc' = "claim" /\ pass' = NoPass
  /\ UNCHANGED <<now, briefs, accountVars, attempt, queue, running, lastRun,
                 faults, checks, served, userVars>>

\* Mutant of ClosePass: a pass with deferred briefs completes the day.
ClosePassAlways ==
  /\ pc = "pass" /\ pass.todo = {}
  /\ pc' = "claim" /\ lastRun' = pass.day /\ pass' = NoPass
  /\ UNCHANGED <<now, briefs, accountVars, attempt, queue, running, faults,
                 checks, served, userVars>>

ClosePass ==
  /\ pc = "pass" /\ pass.todo = {}
  /\ pc' = "claim"
  /\ lastRun' = IF pass.deferred = 0 THEN pass.day ELSE lastRun
  /\ pass' = NoPass
  /\ UNCHANGED <<now, briefs, accountVars, attempt, queue, running, faults,
                 checks, served, userVars>>

(* any other error ends the pass; the worker goes on with its loop *)
PassThrows ==
  /\ pc = "pass"
  /\ faults < MaxFaults /\ faults' = faults + 1
  /\ pc' = "claim" /\ pass' = NoPass
  /\ UNCHANGED <<now, briefs, accountVars, attempt, queue, running, lastRun,
                 checks, served, userVars>>

------------------------------------------------------------------------------
(* The rest of the worker's loop *)

Claim ==
  /\ pc = "claim"
  /\ IF queue = <<>>
     THEN pc' = "tick" /\ UNCHANGED <<queue, running>>
     ELSE /\ pc' = "run"
          /\ running' = [brief |-> Head(queue).brief, user |-> Head(queue).user,
                         state |-> "running"]
          /\ queue' = Tail(queue)
  /\ UNCHANGED <<now, briefs, accountVars, attempt, lastRun, pass, faults,
                 checks, served, userVars>>

(* the check ends: a no-op and queued candidates record the time of the
   check, a failure does not, and a cancelled or deleted job writes nothing *)
EndJob(recorded) ==
  LET b == running.brief
      wrote == running.state = "running" /\ b # 0
  IN
  /\ pc = "run"
  /\ pc' = "tick" /\ running' = NoJob
  /\ recorded => wrote /\ briefs[b].monitored
  /\ briefs' = IF recorded THEN [briefs EXCEPT ![b].last = now] ELSE briefs
  /\ served' = IF wrote THEN [served EXCEPT ![b] = now] ELSE served
  /\ UNCHANGED <<now, accountVars, attempt, queue, lastRun, pass, faults, checks,
                 userVars>>

(* the process dies and is restarted: recoverStuckJobs fails the running job *)
Crash ==
  /\ faults < MaxFaults /\ faults' = faults + 1
  /\ pc' = "tick" /\ pass' = NoPass /\ running' = NoJob
  /\ served' = IF running.state = "running" /\ running.brief # 0
               THEN [served EXCEPT ![running.brief] = now] ELSE served
  /\ UNCHANGED <<now, briefs, accountVars, attempt, queue, lastRun, checks, userVars>>

------------------------------------------------------------------------------
Users ==
  \/ \E b \in Brief, u \in Account : SwitchOn(b, u) \/ CheckNow(b, u)
  \/ \E b \in Brief : SwitchOff(b) \/ CancelCheck(b)
  \/ \E b \in Brief, c \in Cadence : SetCadence(b, c)
  \/ \E u \in Account : SubmitOther(u)
  \/ \E a, u \in Account : DeleteAccount(a, u)

Scheduler ==
  \/ OpenPass \/ NoPassToday \/ ClosePass
  \/ \E b \in Brief : PassEnqueues(b) \/ PassSkips(b) \/ PassDefers(b)
  \/ \E b \in Brief : PassLosesOwner(b)

WorkerLoop == Scheduler \/ Claim \/ \E r \in BOOLEAN : EndJob(r)

ScheduleNext == Tick \/ Users \/ WorkerLoop \/ PassThrows \/ Crash

(* The process manager restarts the worker, and every provider call times out:
   the loop never stops for good.  Nothing is assumed of the users or of the
   clock. *)
ScheduleSafeSpec == ScheduleInit /\ [][ScheduleNext]_scheduleVars
ScheduleSpec == ScheduleSafeSpec /\ WF_scheduleVars(WorkerLoop)

------------------------------------------------------------------------------
(* Properties *)

(* The scheduler creates at most one check of a brief per day for the same
   account, however often a day's pass is repeated because of capacity, errors
   or restarts, and although a failed check leaves the brief due.  (A brief
   whose owner is deleted on a day that is not complete may be checked again
   for the new one: the attempt went with the account.) *)
ScheduledOncePerDay == \A b \in Brief, d \in Days, u \in Account : checks[b][d][u] <= 1

(* Once the day is marked complete, every brief that was monitored and due
   when the window opened is being checked, or a check of it was asked for or
   ended since, be it with its account.  (A cadence changed during the day
   counts from the next.) *)
CompletedDayCoversAll ==
  lastRun = Day(now) =>
    \A b \in Brief :
      LET opened == Window(lastRun) IN
      briefs[b].monitored /\ Due(b, opened) /\ cadenceSet[b] < opened
        => Pending(b) \/ served[b] >= opened

(* A brief that was due when the window opened and has no check yet gets one
   before the day is over: capacity, errors, crashes and deleted accounts only
   put it off, as long as the users let go of the queue. *)
Owed(b) == /\ briefs[b].monitored
           /\ Hour(now) >= MonitorHour /\ lastRun # Day(now)
           /\ Due(b, Window(Day(now)))
           /\ \A u \in Account : attempt[b][u] < Window(Day(now))
OwedIsServed ==
  \A b \in Brief, d \in Days :
    Owed(b) /\ Day(now) = d
      ~> \/ Pending(b) \/ served[b] >= Window(d)
         \/ ~briefs[b].monitored \/ Day(now) # d
         \/ cadenceSet[b] >= Window(d)
==============================================================================
