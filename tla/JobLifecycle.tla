---------------------------- MODULE JobLifecycle -----------------------------
(***************************************************************************)
(* What the research queue promises about a job, whatever the handlers,    *)
(* the scheduler and the crashes: the life of a row of research_jobs.      *)
(*                                                                         *)
(*   absent -> queued -> running -> done | failed | cancelled              *)
(*                                                                         *)
(* A job is queued once and claimed once.  Only the job the worker has in  *)
(* hand can still move after it was cancelled, because the worker's        *)
(* closing writes do not look at the status; every other finished job is   *)
(* final.  Module ResearchWorker implements this one.                      *)
(***************************************************************************)
EXTENDS Integers

CONSTANTS MaxJobs, NoJob

JobId == 1..MaxJobs
Active == {"queued", "running"}
Closed == {"done", "failed"}

VARIABLES status, held
vars == <<status, held>>

Init == status = [j \in JobId |-> "absent"] /\ held = NoJob

Set(j, new) == status' = [status EXCEPT ![j] = new]

\* A new row enters the queue.
Submit(j) == status[j] = "absent" /\ Set(j, "queued") /\ UNCHANGED held

\* The worker takes a queued job, when it has none and none is running.
Claim(j) ==
  /\ status[j] = "queued" /\ held = NoJob
  /\ \A k \in JobId : status[k] # "running"
  /\ Set(j, "running") /\ held' = j

\* Users cancel any set of active jobs (one by one, by brief or by account).
Cancel(J) ==
  /\ \A j \in J : status[j] \in Active
  /\ status' = [j \in JobId |-> IF j \in J THEN "cancelled" ELSE status[j]]
  /\ UNCHANGED held

\* Deleting an account removes its jobs.
Remove(J) ==
  /\ \A j \in J : status[j] # "absent"
  /\ status' = [j \in JobId |-> IF j \in J THEN "deleted" ELSE status[j]]
  /\ UNCHANGED held

\* The worker closes the job it holds, and lets go of it then or later.
Close(j, new) ==
  /\ held = j /\ new \in Closed
  /\ status[j] \in Active \union Closed \union {"cancelled"}
  /\ Set(j, new) /\ held' \in {j, NoJob}

\* It loses interest in the job, or its memory.
Release == held # NoJob /\ held' = NoJob /\ UNCHANGED status

\* A worker that boots fails what an earlier one left running.
Recover ==
  /\ held = NoJob
  /\ status' = [j \in JobId |-> IF status[j] = "running" THEN "failed" ELSE status[j]]
  /\ UNCHANGED held

Next ==
  \/ \E j \in JobId : Submit(j) \/ Claim(j) \/ \E new \in Closed : Close(j, new)
  \/ \E J \in SUBSET JobId : Cancel(J) \/ Remove(J)
  \/ Release \/ Recover

Spec == Init /\ [][Next]_vars
==============================================================================
