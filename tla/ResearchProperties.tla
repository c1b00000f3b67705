------------------------- MODULE ResearchProperties --------------------------
(***************************************************************************)
(* What must hold of the web process and the worker together.              *)
(***************************************************************************)
EXTENDS ResearchWorker

------------------------------------------------------------------------------
(* Invariants *)

\* Every table and every register of the worker holds a value of its type.
SystemTypeOK == TypeOK /\ WorkerTypeOK

\* The queue never holds more than 20 active jobs, nor more than 3 of one
\* account, whichever handlers and scheduler passes race for the last place
\* (researchQueueLimits.ts).
QueueLimits ==
  /\ Cardinality(ActiveJobs) <= ActiveGlobal
  /\ \A u \in User : Cardinality(ActiveOf(u)) <= ActivePerUser

\* Two refreshes, or two monitor checks, of one brief are never active at the
\* same time, whether users, the toggle or the scheduler ask for them.
OneActivePerTarget ==
  \A j, k \in ActiveJobs :
    /\ jobs[j].intent = jobs[k].intent /\ jobs[j].target = jobs[k].target
    /\ jobs[j].intent \in {"refresh", "monitor"}
    => j = k

\* While a worker is up, the only running job is the one in its hands: no
\* crash, cancellation or failure leaves a job running that nobody works on.
RunningIsHeld ==
  \A j \in JobId : jobs[j].status = "running" => pc = "down" \/ cur = j

Idle == {"down", "tick", "schedule", "pick"}
OnlyRefresh == {"target", "authorize", "queue"}
OnlyMonitor == {"read", "writer", "running", "enabled", "may", "skip", "noop",
                "record", "commit", "recheck", "stale", "caught", "recordFailed"}

\* The worker has a job exactly while it executes one, the job is of the kind
\* whose code it executes, and only create jobs are without a brief: the code
\* dispatches on the intent it claimed (researchWorker.ts:871) and never looks
\* again.  This is what makes the other invariants inductive.
JobInHand ==
  /\ cur = NoJob <=> pc \in Idle
  /\ cur # NoJob => jobs[cur].status # "absent"
  /\ pc \in OnlyRefresh => intent = "refresh"
  /\ pc \in OnlyMonitor => intent = "monitor"
  /\ pc = "check" => intent # "monitor"
  /\ pc = "save" => intent = "create"
  /\ pc = "record" => jobs[cur].status \in {"done", "deleted"}
  /\ \A j \in JobId : jobs[j].intent # "create" => jobs[j].target \in Brief
  /\ req.kind # "create" => req.brief \in Brief
  /\ req.phase \in {"enqueue", "rollback", "cancel"} => req.kind = "toggle"

\* A create job is done exactly when it saved its brief, and it saves one at
\* most, across crashes, cancellations and retries.
SavedOnceWhenDone ==
  \A j \in JobId :
    /\ made[j].count <= 1
    /\ made[j].count = 1 => jobs[j].status \in {"done", "deleted"}
    /\ jobs[j].status = "done" /\ jobs[j].intent = "create" => made[j].count = 1

\* A job that queued review candidates is done and stays done: a cancelled or
\* failed refresh or monitor job has nothing waiting for review.
CandidatesOnlyFromDone ==
  \A j \in JobId : cands[j] # NoContent => jobs[j].status \in {"done", "deleted"}

\* The history of a monitor job has one row at most, the row agrees with how
\* the job ended, and a check that was accepted has its row: the worker is about
\* to write it, or the brief is gone, or the worker died just then
\* (monitorRuns.ts is written outside the transactions that close the job,
\* except for queued candidates).
RunAgreesWithJob ==
  \A j \in JobId :
    LET n(o) == runs[j][o]
    IN  /\ n("no_updates") + n("candidate_queued") + n("failed") <= 1
        /\ n("no_updates") + n("candidate_queued") = 1
             => jobs[j].status \in {"done", "deleted"}
        /\ n("failed") = 1 =>
             jobs[j].status \in {"failed", "cancelled", "deleted"}
             \/ cur = j \/ pc = "down"
        /\ counted[j] = "yes" =>
             \/ n("no_updates") + n("candidate_queued") = 1
             \/ ~briefs[jobs[j].target].live
             \/ cur = j /\ pc = "record"

\* An editor is never a read-only account, whatever the order of shares,
\* promotions and demotions.
EditorsAreNotViewers ==
  \A b \in Brief : \A u \in briefs[b].editors :
    role[u] # "viewer" /\ account[u] # "deleted"

------------------------------------------------------------------------------
(* Action properties *)

\* Candidates appear only while their job is running, on the brief_json that
\* the proposal was computed from, for somebody who may write the brief now,
\* and, from a monitor job, only while monitoring is on.
CandidatesAreSafe ==
  [][\A j \in JobId :
       cands'[j] # cands[j] /\ cands'[j] # NoContent =>
         LET b == jobs[j].target
         IN  /\ jobs[j].status = "running"
             /\ briefs[b].live /\ briefs[b].content = cands'[j]
             /\ CanWrite(jobs[j].user, b)
             /\ jobs[j].intent = "monitor" => briefs[b].monitored]_vars

------------------------------------------------------------------------------
(* Temporal properties *)

InCall(j) == cur = j /\ pc = "call"

\* A job that is cancelled while the provider works on it leaves no brief and
\* no candidates behind ("If pipeline finishes after cancel, brief is
\* discarded", research-jobs/[id]/route.ts:92), as long as its row is there: the
\* worker takes a row that went with its account for one it may still finish.
CancelledInCallIsDiscarded ==
  \A j \in JobId :
    [](InCall(j) /\ jobs[j].status = "cancelled"
       => [](jobs[j].status # "deleted" => made[j].count = 0 /\ cands[j] = NoContent))

\* Every job that enters the queue leaves it, by being done, failed, cancelled
\* or deleted, although the worker may crash.
QueueDrains == \A j \in JobId : IsActive(j) ~> ~IsActive(j)

------------------------------------------------------------------------------
(* Refinement *)

Lifecycle == INSTANCE JobLifecycle WITH
  status <- [j \in JobId |-> jobs[j].status],
  held <- cur

\* The system implements the life cycle of a job.
ImplementsLifecycle == Lifecycle!Spec

------------------------------------------------------------------------------
(* What the source says and the code does not do *)

\* "First enable -> run a check immediately (deduped if one is already
\* queued)" (briefs/[id]/monitor/route.ts:136): a pending check is no reason
\* to refuse to turn monitoring on.
EnableIsDeduplicated ==
  [][ToggleEnqueueThrows => ~Duplicate("monitor", req.brief)]_vars

\* "Reassign owned content to the deleting admin so work isn't lost"
\* (admin/users/[id]/route.ts:41): no brief belongs to a deleted account.
NoOrphanBrief ==
  \A j \in JobId : made[j].count > 0 => account[made[j].owner] # "deleted"
==============================================================================
