---------------------------- MODULE HermesEvents -----------------------------
(***************************************************************************)
(* The event log of a brief's Hermes jobs (lib/hermes/events.ts), the two  *)
(* adapters that write it (researchAdapter.ts in the worker,               *)
(* chatAdapter.ts in the web process), the stream that serves it to a      *)
(* browser, and the chat drawer that reads the stream.                     *)
(*                                                                         *)
(* An event gets its id and its time before the transaction that numbers   *)
(* and inserts it, and the two processes write into one table: an event    *)
(* may become visible after younger ones.  The stream resumes after the    *)
(* last pair (created_at, id) it sent, and starts over with every          *)
(* connection.                                                             *)
(*                                                                         *)
(* Abstractions.  The table is a sequence in the order of (created_at, id);*)
(* ids are random, so that a new event may stand anywhere among those of   *)
(* its millisecond.  A cursor is the number of events at or before it.     *)
(* Between two awaits a process does nothing else, but the other process   *)
(* may.  Sanitising of payloads and the sizes of outputs are left out; a   *)
(* response the adapter rejects is a failed call.                          *)
(***************************************************************************)
EXTENDS Integers, FiniteSets, SequencesExt

CONSTANTS
  HermesJob,    \* jobs of one brief
  Runner,       \* the process of each job, "web" (chat) or "worker" (research)
  RuntimeCount, \* events the runtime service returns with each answer
  PageSize,     \* events read per poll of the stream
  StreamTicks,  \* MAX_TICKS
  LastMs,       \* bound: the clock stops here
  HermesFaults  \* bound: crashes and storage errors

Process == {"web", "worker"}
LogKind == {"started", "runtime", "completed", "failed"}

ASSUME HermesAssumption ==
  /\ IsFiniteSet(HermesJob)
  /\ Runner \in [HermesJob -> Process]
  /\ RuntimeCount \in [HermesJob -> Nat]
  /\ PageSize \in Nat \ {0} /\ StreamTicks \in Nat \ {0}
  /\ LastMs \in Nat /\ HermesFaults \in Nat

VARIABLES
  ms,           \* Date.now()
  hermesJobs,   \* table hermes_jobs: the status of each job
  step,         \* what the adapter of each job does next
  left,         \* events of the answer still to be recorded
  log,          \* table hermes_job_events, in the order of (created_at, id)
  writing,      \* the event each process is about to commit
  briefThere,   \* the brief exists
  stream,       \* the drawer's connection: the cursor and the polls to go
  delivered,    \* the (job, seq) the page received
  hermesFaults

hermesVars == <<ms, hermesJobs, step, left, log, writing, briefThere, stream,
                delivered, hermesFaults>>
readerVars == <<stream, delivered>>

HermesStatus == {"none", "running", "done", "failed", "gone"}   \* of a HermesJobRow
Event == [job : HermesJob, seq : Nat \ {0}, kind : LogKind, at : 0..LastMs]
Draft == [job : HermesJob, kind : LogKind, at : 0..LastMs]
NoEvent == [kind |-> "none"]
Closed == [cursor |-> 0, ticks |-> 0]

Followed == {"new", "started", "call", "runtime", "completed", "failed", "done", "error",
             "end", "dead"}
(* Type invariant of the log and of those who write it. *)
HermesTypeOK ==
  /\ ms \in 0 .. LastMs
  /\ log \in Seq(Event)
  /\ hermesJobs \in [HermesJob -> HermesStatus]
  /\ step \in [HermesJob -> Followed]
  /\ writing \in [Process -> Draft \cup {NoEvent}]

HermesInit ==
  /\ ms = 0
  /\ hermesJobs = [j \in HermesJob |-> "none"]
  /\ step = [j \in HermesJob |-> "new"]
  /\ left = [j \in HermesJob |-> 0]
  /\ log = <<>>
  /\ writing = [p \in Process |-> NoEvent]
  /\ briefThere = TRUE
  /\ stream = Closed /\ delivered = {}
  /\ hermesFaults = 0

------------------------------------------------------------------------------
(* The processes *)

InCode(j) == step[j] \in LogKind \union {"done", "error"}
Busy(p) == \E j \in HermesJob : Runner[j] = p /\ InCode(j)

EventsOf(j) == {e \in ToSet(log) : e.job = j}
LastOf(j) == CHOOSE e \in EventsOf(j) : \A f \in EventsOf(j) : f.seq <= e.seq

(* first half of appendHermesEvent: the id and the time *)
Draw(j, kind) ==
  /\ writing[Runner[j]] = NoEvent
  /\ writing' = [writing EXCEPT ![Runner[j]] = [job |-> j, kind |-> kind, at |-> ms]]
  /\ UNCHANGED <<ms, hermesJobs, step, left, log, briefThere, readerVars,
                 hermesFaults>>

(* where an event of time t may stand *)
Places(t) == {k \in 0..Len(log) :
                \A i \in 1..Len(log) : IF i <= k THEN log[i].at <= t ELSE log[i].at >= t}

\* Mutant of Follows: a completion event that cannot be stored is ignored
\* like those of the runtime service.
FollowsIgnoring(j, kind, stored) ==
  CASE kind = "started"   -> IF stored THEN "call" ELSE "dead"
    [] kind = "runtime"   -> IF left[j] = 1 THEN "completed" ELSE "runtime"
    [] kind = "completed" -> "done"
    [] kind = "failed"    -> IF stored THEN "error" ELSE "dead"

(* what the adapter does after an event was stored, or was not.  A failure to
   store the start or the failure leaves the adapter with the job running;
   one of the runtime's events is passed over. *)
Follows(j, kind, stored) ==
  CASE kind = "started"   -> IF stored THEN "call" ELSE "dead"
    [] kind = "runtime"   -> IF left[j] = 1 THEN "completed" ELSE "runtime"
    [] kind = "completed" -> IF stored THEN "done" ELSE "failed"
    [] kind = "failed"    -> IF stored THEN "error" ELSE "dead"

Proceed(j, kind, stored) ==
  /\ step' = [step EXCEPT ![j] = Follows(j, kind, stored)]
  /\ left' = [left EXCEPT ![j] = IF kind = "runtime" THEN @ - 1 ELSE @]
  /\ writing' = [writing EXCEPT ![Runner[j]] = NoEvent]

(* second half: MAX(seq) + 1 and the INSERT, one transaction; an event that
   comes to stand before the cursor moves it along *)
CommitEvent(p) ==
  LET w == writing[p]
      seq == Cardinality(EventsOf(w.job)) + 1 IN
  /\ w # NoEvent /\ hermesJobs[w.job] # "gone"
  /\ Proceed(w.job, w.kind, TRUE)
  /\ \E k \in Places(w.at) :
       /\ log' = InsertAt(log, k + 1, [job |-> w.job, seq |-> seq, kind |-> w.kind,
                                       at |-> w.at])
       /\ stream' = IF k < stream.cursor THEN [stream EXCEPT !.cursor = @ + 1]
                    ELSE stream
  /\ UNCHANGED <<ms, hermesJobs, briefThere, delivered, hermesFaults>>

(* the foreign key: the job is gone *)
CommitRefused(p) ==
  LET w == writing[p] IN
  /\ w # NoEvent /\ hermesJobs[w.job] = "gone"
  /\ Proceed(w.job, w.kind, FALSE)
  /\ UNCHANGED <<ms, hermesJobs, log, briefThere, readerVars, hermesFaults>>

(* the transaction fails *)
CommitFails(p) ==
  LET w == writing[p] IN
  /\ w # NoEvent /\ hermesFaults < HermesFaults
  /\ Proceed(w.job, w.kind, FALSE)
  /\ hermesFaults' = hermesFaults + 1
  /\ UNCHANGED <<ms, hermesJobs, log, briefThere, readerVars>>

------------------------------------------------------------------------------
(* An adapter's run *)

CreateHermesJob(j) ==
  /\ step[j] = "new" /\ briefThere /\ ~Busy(Runner[j])
  /\ Runner[j] = "worker" => \A k \in HermesJob \ {j} :
       Runner[k] = "worker" => step[k] \in {"new", "end", "dead"}
  /\ hermesJobs' = [hermesJobs EXCEPT ![j] = "running"]
  /\ step' = [step EXCEPT ![j] = "started"]
  /\ UNCHANGED <<ms, left, log, writing, briefThere, readerVars, hermesFaults>>

RecordEvent(j) ==
  \E kind \in LogKind : step[j] = kind /\ Draw(j, kind)

(* the runtime service answers, or it does not within the client's timeout *)
RuntimeAnswers(j, ok) ==
  /\ step[j] = "call" /\ ~Busy(Runner[j])
  /\ step' = [step EXCEPT ![j] = IF ~ok THEN "failed"
                ELSE IF RuntimeCount[j] > 0 THEN "runtime" ELSE "completed"]
  /\ left' = [left EXCEPT ![j] = IF ok THEN RuntimeCount[j] ELSE 0]
  /\ UNCHANGED <<ms, hermesJobs, log, writing, briefThere, readerVars, hermesFaults>>

(* updateHermesJob; the row may be gone, and the UPDATE then changes nothing *)
CloseHermesJob(j) ==
  /\ step[j] \in {"done", "error"}
  /\ hermesJobs' = [hermesJobs EXCEPT ![j] =
       IF @ = "gone" THEN @ ELSE IF step[j] = "done" THEN "done" ELSE "failed"]
  /\ step' = [step EXCEPT ![j] = "end"]
  /\ UNCHANGED <<ms, left, log, writing, briefThere, readerVars, hermesFaults>>

(* the UPDATE fails: a finished job is reported as failed after all *)
CloseFails(j) ==
  /\ step[j] \in {"done", "error"} /\ hermesFaults < HermesFaults
  /\ step' = [step EXCEPT ![j] = IF @ = "done" THEN "failed" ELSE "dead"]
  /\ hermesFaults' = hermesFaults + 1
  /\ UNCHANGED <<ms, hermesJobs, left, log, writing, briefThere, readerVars>>

(* the process dies; nothing looks after the jobs it leaves running *)
ProcessDies(p) ==
  /\ hermesFaults < HermesFaults
  /\ hermesFaults' = hermesFaults + 1
  /\ step' = [j \in HermesJob |->
                IF Runner[j] = p /\ step[j] \notin {"new", "end"}
                THEN "dead" ELSE step[j]]
  /\ writing' = [writing EXCEPT ![p] = NoEvent]
  /\ stream' = IF p = "web" THEN Closed ELSE stream
  /\ UNCHANGED <<ms, hermesJobs, left, log, briefThere, delivered>>

(* DELETE of the brief cascades to its jobs and events *)
DeleteHermesBrief ==
  /\ briefThere /\ ~Busy("web")
  /\ briefThere' = FALSE
  /\ log' = <<>> /\ stream' = [stream EXCEPT !.cursor = 0]
  /\ hermesJobs' = [j \in HermesJob |->
                      IF hermesJobs[j] = "none" THEN "none" ELSE "gone"]
  /\ UNCHANGED <<ms, step, left, writing, delivered, hermesFaults>>

HermesClock ==
  /\ ms < LastMs /\ ms' = ms + 1
  /\ UNCHANGED <<hermesJobs, step, left, log, writing, briefThere, readerVars,
                 hermesFaults>>

------------------------------------------------------------------------------
(* The stream and the drawer *)

(* the drawer is closed, or the connection is lost *)
Disconnect ==
  /\ stream.ticks > 0 /\ hermesFaults < HermesFaults
  /\ stream' = [stream EXCEPT !.ticks = 0]
  /\ hermesFaults' = hermesFaults + 1
  /\ UNCHANGED <<ms, hermesJobs, step, left, log, writing, briefThere, delivered>>

\* Mutant of FirstCursor: a new connection goes on where the last one stopped.
FirstCursorResumed == stream.cursor

(* the frames carry no id, so EventSource asks again without a cursor *)
FirstCursor == 0

Connect ==
  /\ stream.ticks = 0 /\ briefThere /\ ~Busy("web")
  /\ stream' = [cursor |-> FirstCursor, ticks |-> StreamTicks]
  /\ UNCHANGED <<ms, hermesJobs, step, left, log, writing, briefThere, delivered,
                 hermesFaults>>

(* listHermesEventsForBrief: the first PageSize events after the cursor *)
Page(cursor) == (cursor + 1)..Min({cursor + PageSize, Len(log)})

(* one tick of the stream; after the last the connection is closed *)
Poll ==
  /\ stream.ticks > 0 /\ ~Busy("web")
  /\ stream' = [cursor |-> stream.cursor + Cardinality(Page(stream.cursor)),
                ticks |-> stream.ticks - 1]
  /\ delivered' = delivered \union
                  {<<log[i].job, log[i].seq>> : i \in Page(stream.cursor)}
  /\ UNCHANGED <<ms, hermesJobs, step, left, log, writing, briefThere, hermesFaults>>

HermesStep ==
  \/ \E j \in HermesJob : RecordEvent(j) \/ CloseHermesJob(j)
  \/ \E p \in Process : CommitEvent(p) \/ CommitRefused(p)

HermesNext ==
  \/ HermesStep
  \/ \E j \in HermesJob : CreateHermesJob(j) \/ CloseFails(j)
  \/ \E j \in HermesJob, ok \in BOOLEAN : RuntimeAnswers(j, ok)
  \/ \E p \in Process : CommitFails(p) \/ ProcessDies(p)
  \/ DeleteHermesBrief \/ HermesClock
  \/ Disconnect \/ Connect \/ Poll

HermesSpec == HermesInit /\ [][HermesNext]_hermesVars

------------------------------------------------------------------------------
(* Properties *)

(* A job that is closed ended with the event that says how: its last event is
   the completion of a done job and the failure of a failed one, although
   events and status are separate writes, any of which may fail, and a
   completion that was stored can still be followed by a failure. *)
OutcomeIsLogged ==
  \A j \in HermesJob :
    /\ hermesJobs[j] = "done" => LastOf(j).kind = "completed"
    /\ hermesJobs[j] = "failed" => LastOf(j).kind = "failed"

(* The drawer has received only events that are stored, under the numbers they
   keep as long as the brief is there; and a connection's cursor is a place of
   the log, whatever was stored before it, deleted, or read since. *)
DrawerShowsTheLog ==
  /\ stream \in [cursor : 0 .. Len(log), ticks : 0 .. StreamTicks]
  /\ briefThere => delivered \subseteq {<<e.job, e.seq>> : e \in ToSet(log)}

(* Every stored event reaches a drawer that connects again and again, although a cursor may
   have passed it: the next connection starts from the beginning.  (Events
   are finitely many and what was received stays.) *)
DrawerCatchesUp ==
  []<>(\/ ~briefThere
       \/ \A e \in ToSet(log) : <<e.job, e.seq>> \in delivered)

(* "The (created_at, id) pair is monotonic enough for SSE / poller resume":
   whatever lies at or before the cursor of a connection was sent. *)
NoEventSkipped ==
  stream.ticks > 0 =>
    \A i \in 1..stream.cursor : <<log[i].job, log[i].seq>> \in delivered
==============================================================================
