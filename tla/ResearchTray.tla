---------------------------- MODULE ResearchTray ----------------------------
(***************************************************************************)
(* The tray of research jobs in the page header (components/               *)
(* ResearchTray.tsx) and the list it polls (app/api/research-jobs).        *)
(*                                                                         *)
(* The tray polls while it is open or shows an active job, and stops       *)
(* otherwise.  The effect that polls starts over when the tray is opened or*)
(* closed and when the number of active jobs changes; answers to the old   *)
(* effect are dropped, those to the refetch after a cancel or a retry are  *)
(* not, so that an old answer may come after a newer one.  A job that is   *)
(* found to have ended since the last answer is announced by a toast.      *)
(*                                                                         *)
(* Abstractions.  The jobs are those of one person; a job that ended stays *)
(* in the list (24 hours, 50 jobs).  Times are left out: an interval is a  *)
(* timer that runs out, a toast is dismissed at any time.                  *)
(***************************************************************************)
EXTENDS Integers, FiniteSets

CONSTANTS
  TrayJob,       \* jobs of the reader
  TrayFaults,    \* bound: requests that fail
  MaxToggles     \* bound: times the tray is opened or closed

ASSUME TrayAssumption == IsFiniteSet(TrayJob) /\ TrayFaults \in Nat /\ MaxToggles \in Nat

VARIABLES
  jobs,        \* status of each job in the database
  trayOpen,
  view,        \* the snapshot displayed
  polling,     \* the effect: its request, answer or timer
  press,       \* for each job, the cancel or retry pressed and its refetch
  toasts,      \* the jobs announced on screen
  toggles, trayFaults

trayVars == <<jobs, trayOpen, view, polling, press, toasts, toggles, trayFaults>>

Active == {"queued", "running"}
Over == {"done", "failed", "cancelled"}
NoView == [j \in TrayJob |-> "unknown"]
ActiveCount(v) == IF v = NoView THEN -1 ELSE Cardinality({j \in TrayJob : v[j] \in Active})

TrayStage(s) == [stage |-> s, answer |-> NoView]
TrayInit ==
  /\ jobs \in [TrayJob -> {"none", "queued"}]
  /\ trayOpen = FALSE /\ view = NoView /\ polling = TrayStage("asked")
  /\ press = [j \in TrayJob |-> TrayStage("idle")]
  /\ toasts = {} /\ toggles = 0 /\ trayFaults = 0

-----------------------------------------------------------------------------
(* The jobs: queued from the page, run by the worker. *)

JobBecomes(j, from, to) ==
  /\ jobs[j] \in from /\ jobs' = [jobs EXCEPT ![j] = to]
  /\ UNCHANGED <<trayOpen, view, polling, press, toasts, toggles, trayFaults>>
JobMoves(j) ==
  \/ JobBecomes(j, {"none"}, "queued") \/ JobBecomes(j, {"queued"}, "running")
  \/ JobBecomes(j, {"running"}, "done") \/ JobBecomes(j, {"running"}, "failed")

-----------------------------------------------------------------------------
(* handleSnapshot: the jobs found to have ended since the last snapshot are
   announced, and the snapshot is displayed *)
Announced(s) ==
  IF view = NoView THEN {}
  ELSE {j \in TrayJob : view[j] \notin {"none", s[j]} /\ s[j] \in {"done", "failed"}}
HandleSnapshot(s) == view' = s /\ toasts' = toasts \union Announced(s)

\* Mutant of Next4or15: the closed tray does not go on asking.
Next4(v, open) == TrayStage(IF open THEN "timer" ELSE "stopped")

(* the timer after an answer: every 4 s open, every 15 s with active jobs *)
Next4or15(v, open) == TrayStage(IF open \/ ActiveCount(v) > 0 THEN "timer" ELSE "stopped")
CountChanges(s) == ActiveCount(s) # ActiveCount(view)

ServePoll ==
  /\ polling.stage = "asked"
  /\ polling' = [stage |-> "answered", answer |-> jobs]
  /\ UNCHANGED <<jobs, trayOpen, view, press, toasts, toggles, trayFaults>>
PollArrives ==
  LET s == polling.answer IN
  /\ polling.stage = "answered" /\ HandleSnapshot(s)
  /\ polling' = IF CountChanges(s) THEN TrayStage("asked") ELSE Next4or15(s, trayOpen)
  /\ UNCHANGED <<jobs, trayOpen, press, toggles, trayFaults>>
PollFails ==
  /\ polling.stage \in {"asked", "answered"}
  /\ trayFaults < TrayFaults /\ trayFaults' = trayFaults + 1
  /\ polling' = Next4or15(view, trayOpen)
  /\ UNCHANGED <<jobs, trayOpen, view, press, toasts, toggles>>
TimerRunsOut ==
  /\ polling.stage = "timer" /\ polling' = TrayStage("asked")
  /\ UNCHANGED <<jobs, trayOpen, view, press, toasts, toggles, trayFaults>>
Toggle ==
  /\ toggles < MaxToggles /\ toggles' = toggles + 1
  /\ trayOpen' = ~trayOpen /\ polling' = TrayStage("asked")
  /\ UNCHANGED <<jobs, view, press, toasts, trayFaults>>

-----------------------------------------------------------------------------
(* cancelJob and retryJob, one at a time per job *)

PressIs(j, p) == press' = [press EXCEPT ![j] = p]
PressButton(j) ==
  /\ trayOpen /\ press[j].stage = "idle"
  /\ \/ view[j] \in Active /\ PressIs(j, TrayStage("cancel"))
     \/ view[j] \in {"failed", "cancelled"} /\ PressIs(j, TrayStage("retry"))
  /\ UNCHANGED <<jobs, trayOpen, view, polling, toasts, toggles, trayFaults>>

(* DELETE and POST retry: done, and the list is asked for again *)
ServeCancel(j) ==
  /\ press[j].stage = "cancel" /\ jobs[j] \in Active
  /\ jobs' = [jobs EXCEPT ![j] = "cancelled"] /\ PressIs(j, TrayStage("asked"))
  /\ UNCHANGED <<trayOpen, view, polling, toasts, toggles, trayFaults>>
ServeRetry(j, new) ==
  /\ press[j].stage = "retry" /\ jobs[j] \in {"failed", "cancelled"} /\ jobs[new] = "none"
  /\ jobs' = [jobs EXCEPT ![new] = "queued"] /\ PressIs(j, TrayStage("asked"))
  /\ UNCHANGED <<trayOpen, view, polling, toasts, toggles, trayFaults>>
(* or refused: the message of its status is displayed *)
PressFails(j) ==
  /\ press[j].stage \in {"cancel", "retry"} /\ PressIs(j, TrayStage("idle"))
  /\ UNCHANGED <<jobs, trayOpen, view, polling, toasts, toggles, trayFaults>>

ServeRefetch(j) ==
  /\ press[j].stage = "asked" /\ PressIs(j, [stage |-> "answered", answer |-> jobs])
  /\ UNCHANGED <<jobs, trayOpen, view, polling, toasts, toggles, trayFaults>>
RefetchArrives(j) ==
  LET s == press[j].answer IN
  /\ press[j].stage = "answered" /\ PressIs(j, TrayStage("idle"))
  /\ HandleSnapshot(s)
  /\ polling' = IF CountChanges(s) THEN TrayStage("asked") ELSE polling
  /\ UNCHANGED <<jobs, trayOpen, toggles, trayFaults>>
RefetchFails(j) ==
  /\ press[j].stage \in {"asked", "answered"} /\ PressIs(j, TrayStage("idle"))
  /\ UNCHANGED <<jobs, trayOpen, view, polling, toasts, toggles, trayFaults>>

(* eight seconds later, or a click *)
Dismiss(j) ==
  /\ j \in toasts /\ toasts' = toasts \ {j}
  /\ UNCHANGED <<jobs, trayOpen, view, polling, press, toggles, trayFaults>>

TrayStep == ServePoll \/ PollArrives \/ TimerRunsOut
TrayNext ==
  \/ TrayStep \/ PollFails \/ Toggle
  \/ \E j \in TrayJob :
       \/ JobMoves(j) \/ PressButton(j) \/ ServeCancel(j) \/ PressFails(j)
       \/ \E new \in TrayJob : ServeRetry(j, new)
       \/ ServeRefetch(j) \/ RefetchArrives(j) \/ RefetchFails(j) \/ Dismiss(j)

(* The browser answers and the timers run out; nobody need press anything. *)
TraySpec == TrayInit /\ [][TrayNext]_trayVars /\ WF_trayVars(TrayStep)

-----------------------------------------------------------------------------
(* The tray does not go on showing a job as active that is over, open or     *)
(* closed, whatever answers come late, in another order or not at all: it    *)
(* does not stop asking while it shows a job that is active.  (That the end  *)
(* is announced, or the job still listed, is more than it can promise: an    *)
(* answer older than the one displayed may take the job off the list, and a  *)
(* request that then fails leaves the closed tray with it.)                  *)
TrayCatchesUp ==
  \A j \in TrayJob : view[j] \in Active /\ jobs[j] \in Over ~> view[j] \notin Active

(* What that rests on: the effect that polls has stopped only while the tray *)
(* is closed and shows no active job, whichever answers were displayed since, *)
(* those to a cancel or a retry included, which set no timer.                *)
StoppedShowsNothing ==
  polling.stage = "stopped" => ~trayOpen /\ ActiveCount(view) <= 0

(* What the tray shows as over is over, and so is what it announces, however *)
(* late an answer comes and whatever was cancelled or retried meanwhile.     *)
OnlyTheEndIsTold ==
  /\ \A j \in TrayJob : view[j] \in Over => jobs[j] = view[j]
  /\ toasts \subseteq {j \in TrayJob : jobs[j] \in {"done", "failed"}}
==============================================================================
