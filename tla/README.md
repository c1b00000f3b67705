# AccountBriefBuilder: a verification project

TLA+ models of AccountBriefBuilder (`src/web`), the TLC runs that check them on small
instances, and theorems about them that TLAPS checks for every value of the
constants. `PROJECT.json` is the index: it maps every definition that models code to
the lines it models, and lists components, runs, mutants, hazards, findings and
theorems.

1. [The system](#1-the-system)
2. [Modules](#2-modules)
3. [Runs and what they show](#3-runs-and-what-they-show)
4. [Fairness](#4-fairness)
5. [What is proved](#5-what-is-proved)
6. [What stays with TLC, and why](#6-what-stays-with-tlc-and-why)
7. [Findings](#7-findings)
8. [Observations without a run](#8-observations-without-a-run)
9. [What is not modelled](#9-what-is-not-modelled)
10. [Plan](#10-plan)

## 1. The system

The application produces and maintains *briefs* about companies. It is two Node
processes over one SQLite file (WAL, foreign keys on): the Next.js **web process**,
whose route handlers serve HTTP, and one **worker process**
(`scripts/research-worker.ts`), which executes research jobs. They share no memory;
the browser tabs of its users are further processes, with copies of what they loaded.
`better-sqlite3` is synchronous, so

- inside one process, everything between two `await`s is atomic;
- across the processes, only one SQL statement or one transaction is atomic;
- whatever was read before an `await` may be stale after it: request bodies
  (milliseconds), provider calls (seconds in a chat, minutes in a research job);
- what a browser shows is as old as its last answer, and answers may overtake each
  other.

This is where the system is hard, and what the models keep: each handler that
awaits is split where it awaits, the worker is one action per statement, and a
browser's requests and answers are separate steps.

| component | state | what must hold |
|---|---|---|
| Research queue (`researchQueueLimits.ts`, routes `research`, `refresh`, `monitor`, `monitor/check`, `research-jobs`) | `research_jobs`, the monitor switch | limits and deduplication whoever races |
| Research worker (`researchWorker.ts`, `monitorRuns.ts`) | its loop; jobs, briefs, candidates, runs | a job ends once, in the state its effects say; an accepted check has its row; the queue drains |
| Research pipeline (`researchPipeline.ts`, `monitor.ts`) | one job's calls | a bounded number of paid calls |
| Monitor scheduler (`monitorScheduler.ts`) | day, cadences, attempts | one check per brief, day and account; a completed day missed nobody |
| Proposals (`briefMerge.ts`, `briefPatches.ts`, `briefUpdateReviewBoundary.ts`) | cards in review | the cards rebuild the result; a monitor brings news |
| Accounts and sessions (`auth/*`, `admin/users/*`) | `users`, `sessions` | an admin remains; sessions end with their password, unless a handler breaks off |
| Schema, migrations, cascades (`db.ts`) | ledger, foreign keys | who serves is migrated; no foreign key dangles, nobody's rows are cut off |
| Journal: entries, assistant, catch-ups | `journal_entries`, cache, permits | a catch-up of a deleted reply is not served |
| Journal: candidates, promotion, decisions, tasks | four tables | forest, chains, one record per candidate |
| Journal: documents (`journalDocumentStorage.ts`, `endgameOperations.ts`) | rows and files | rows have bytes; copies are whole |
| Journal: change radar (`journalRadar*.ts`) | checkpoints, panels | nothing is passed over |
| Journal in the browser (`JournalSection.tsx`, …) | address, feed, deep link | address and screen agree; a link ends |
| Brief chat (`chat/route.ts`) | history, permits, candidates | proposals stand on the current brief; turns end |
| Comments, notifications | comments, inbox, bell | honest discussion; whom it concerns is told; the badge catches up |
| Public links, versions | links, dialogs | an internal brief has no live link |
| Canvas (`canvas/*`, `BriefCanvas`) | layout; document, versions, queue | nothing is lost in the layout; versions are accounted for |
| Hermes events (`hermes/*`) | `brief_events`, streams | outcomes are logged; a drawer catches up |
| Research tray (`ResearchTray.tsx`) | shown jobs, polls | it does not show for ever what is over |
| Account graph (`lib/accountGraph/*`, three scripts) | graphs, budget, report | a pass is earned, covers the corpus, and corrections cascade |

How they interact. Handlers and the scheduler put jobs into `research_jobs`; the
worker takes them out; both read roles, ownership, shares and the monitor switch
and act on what they read. Deleting an account or a brief cascades into jobs,
shares, runs and candidates (but not into `briefs.user_id` or `brief_chats`, which
have no foreign key: a chat outlives its brief). The worker, the chat and the reviewers write into one table
of candidates. Journal, chat and comment help compete for the provider permits of
the web process. The radar reads what the Journal's other parts write.

## 2. Modules

Each component is a module of its own, with its types, initial states, one action
per handler or step, and its properties:

```
JobLifecycle <~ ResearchProperties <- ResearchWorker <- ResearchQueue     the two processes
                MonitorSchedule  ProviderRuns  BriefProposals             scheduler, pipeline, cards
Accounts  Migrations  TableRows                                           accounts, boot, foreign keys
Journal  JournalDesk  JournalRadar  DocumentStore                         the Journal
JournalPromotion <- JournalTasks, JournalDecisions <- JournalCandidates   its records
BriefChat  CommentDesk  Notices  NoticeBell  ShareLinks                   people around a brief
CanvasBuilder  CanvasProposals  HermesEvents  ResearchTray
EvidenceGraph <- ValidationRun, GraphCorrections, BriefBackfill           the account graph
```

(`A <- B`: A uses B; `<~`: is refined by.) The modules for TLC:

- **MCResearch** gives ResearchProperties small tables and a set of handlers per run.
- **MCClients**, **MCServices**, **MCLoops** hold several components each. A component
  shares no variable with another, so a run lets one of them move per behaviour: the
  initial state picks a part, the other parts stay. The check of the whole is
  the sum of the checks of the parts, not their product. MCLoops is the one with
  fairness for liveness; what moves in MCClients are things people do.
- A violation run takes one part of these, or the component's own module.

Some correspondences that are not obvious.

**ResearchQueue.** A handler that awaits the body between its authorization check and
its write is two actions: `AuthorizeCreate`, `AuthorizeRefresh`, `AuthorizeToggle` and
`AuthorizeChange` (the audience of a brief, its shares) park the request in `req`;
`SubmitJob`, the `Toggle…` actions, `EditBrief` and `ShareBrief` go on with it, so that
roles, ownership and the brief may change between. Restoring a version (`RevertBrief`)
has no body and is one action. The toggle is a sequence of
separately committed statements: apply, enqueue, throw, roll back, cancel.
**ResearchWorker.** `pc` is the statement the worker executes next; each statement or
transaction of `researchWorker.ts` is an action, and `Crash` is enabled at all of them.
`counted` is no column but a history for the properties: whose check was accepted (counted in
`last_monitored_at`), and whether the worker died before its row was there. Time is left out: the due briefs are any subset of the
monitored ones. Time is **MonitorSchedule**'s, where a day has `DayLength` ticks, the attempts
of a brief are kept per account (they go with it), and `served` and `checks` are histories.

**Accounts.** A handler's statements commit one by one. Nobody else runs between them, so that
they stay one action, but a disjunct of it breaks off after the first: the process dies, or a
statement finds the database busy. `kept` marks, for the property, the sessions left behind.

**TableRows.** Columns without a foreign key are rows' references too (`Bare`). A row may be
inserted with such a reference to an account or a brief that is gone, as the worker and the chat
do after their calls.

**DocumentStore.** One upload, clean-up, backup or restore is a walk through its file
operations; a crash may stop each of them anywhere, and the write lock of SQLite is
a variable.

**ValidationRun.** What the provider *bills* (`spent`) and what the program *observed*
are two variables, because they differ when an answer is lost, or when the SDK sends a request
a second time within one attempt (`Resent`).

**JournalRadar.** A hash stands for the manifest it is computed from. A record is whether it
is there, its status, its wording, and `touched`: the columns the hash covers and the
comparison does not.

**HermesEvents.** The table is a sequence ordered by `(created_at, id)`; since ids are
random, a new event may stand anywhere among those of its millisecond, and a cursor is a
number of events.

**JournalDesk, NoticeBell, ResearchTray, CommentDesk, CanvasProposals, ShareLinks.** One browser tab (or a
few panels) against the server: the requests under way, the answers in any order, some
lost; React effects run when what they read has changed.

**CanvasBuilder, EvidenceGraph, BriefBackfill, BriefProposals.** Largely pure: a brief is
its lists, a list a length and what the code tells apart; the runs enumerate thousands of
inputs. In BriefProposals two texts are the same when they are about the same thing *and* have words
enough for the comparison to tell (`terse`, `mute`: fewer than five, fewer than three that
count): a short signal that is repeated word for word is appended again, as in the code.

Every abstraction is stated in the header of its module. Those that matter most: a
brief's JSON is a member of `Content` (all the code asks of it across an await is
whether it is still the one it read); passwords are versions; texts are the
classes the parsers put them in; amounts of money are whole units.

Assumptions on constants (`…Assumption`) say what a deployment provides: positive
limits, kinds of ids that are disjoint, marker values outside the sets they mark. TLC evaluates
all of them in the runs.

The proofs are in **ResearchProofs**, **BriefChatProofs**, **BriefProofs**,
**JournalProofs**, **ClientProofs**, **ServiceProofs** and **LoopProofs** (see
[What is proved](#5-what-is-proved)).

## 3. Runs and what they show

Every property of a passing run has a mutant in `PROJECT.json`: a plausible bug
defined beside the original, with which TLC finds that property violated under the
same configuration.

| run | question | bounds |
|---|---|---|
| `research_queue` | Do limits and deduplication hold, and is every step of a job a step of its life cycle, with handlers, scheduler, worker and a crash interleaved? | 2 users, 1 brief, 3 jobs, limits 2 and 1, 1 crash, provider on or off in each process (3.8 M states) |
| `research_drain` | Does the history of checks agree with the jobs and miss no accepted one, are monitor candidates proposed only while everything allows it, does every job leave the queue? | 2 contents, 2 jobs, 1 crash, fairness; create, toggle, check, schedule, cancel, restore a version, delete a brief or an account |
| `research_work` | Is a brief saved at most once and exactly when its job is done, and does a refresh propose only what its author still may? | 2 contents, 2 jobs, 1 crash; create, refresh, retry, cancel, edit, roles, disable, delete, share, restart of the web process |
| `clients` | Accounts, canvas, canvas queue, provider calls, chat, discussion: is what people and the provider do kept, counted, current and honest? | 2 accounts with 2 password versions; 31104 briefs to lay out; 4 proposals; 2 calls per turn, 1 permit, 2 turns, 2 rows retained; 3 comments |
| `services` | Eleven parts that promise safety (rows, files, notices, Journal, links, records, validation, corrections, backfill, cards, radar) | 30 rows in 10 groups; 2 uploads of one content; 2 comments, inbox of 2; 3 entries; 1 link, 2 dialogs; 3 tasks, 2 decisions; 2 accounts per validation; 2 changes between displays, 2 panels |
| `loops` | Six parts that must get somewhere (boot, bell, the daily pass whatever is switched, cancelled, full, crashed or deleted, event log, walk through the Journal, tray) | 2 processes, 4 migrations, 2 faults, a first account configured or not; 2 notices; 2 briefs of 2 accounts, a day of 3 ticks and the window of the next, queue of 1, 1 request (the deletion of an account is one), 1 fault; 2 jobs; 3 posts, 2 clicks; 2 tray jobs |
| `toggle_conflict`, `orphan_brief`, `catch_up_stale`, `hidden_reply`, `hermes_stream`, `refresh_refused` | disagreements of code and text, see [Findings](#7-findings) | |

Each passing run ends within about four minutes with two workers.

Why the bounds are enough to be interesting. With three jobs and limits 2 and 1,
both limits are reached, and a refused request can be repeated after one place is
free. Two contents are needed for a baseline to become stale and one change
suffices. One crash per behaviour can hit every statement. Two days are needed to
see an attempt of yesterday, one request or fault to disturb a pass. Three Journal
entries are a root, a question and its answer. Retaining two rows, the second turn
of a chat already prunes; with two calls a turn has a first, a middle and a last
point at which it can fail; with one permit the other conversation can take
it between them. An inbox of two overflows with the second comment and a mention. Two uploads of
one content are the case of sharing, failing and reusing. Two decisions supersede one
another once. Two changes suffice to add and remove a record between two displays.
Four migrations of which two are unguarded cover each order of guarded and not. In the validation
run the second stage may be billed under or over its estimate, the larger ceiling just
suffices for two accounts and for the first stage's last retry, and the smaller one does not.

The bounds on jobs, turns, entries and decisions stop the model by disabling its
actions; liveness is stated about work that has begun, so that they do not make it
true. Deadlock is not checked in the multiplexed runs: their parts may come to an end
(a validation run is over, all entries are written). `research_drain` keeps the
providers on; their switches are in `research_queue`. MCLoops gives the Hermes jobs no
events of the external runtime; the theorem `OutcomesHold` covers any number.

The properties, in the words of the code:

- *Queue and worker.* `QueueLimits`, `OneActivePerTarget`: check and insert are one
  transaction, and race with the scheduler in the other process.
  `ImplementsLifecycle`: a job is queued, claimed by a worker that holds nothing, ended
  once by it, cancelled or deleted by somebody, failed at the boot after a crash; only
  the job in hand can still move after it was cancelled. `RunAgreesWithJob`: rows of history,
  written outside the closing transactions, agree with how the job ended, and an accepted check
  has its row unless the brief is gone or the worker died between the two (see
  [Observations](#8-observations-without-a-run)).
  `SavedOnceWhenDone`, `CandidatesAreSafe` (at the moment candidates appear the job
  runs, the brief is the one compared with, its author may write, monitoring is
  on), `QueueDrains`.
- *Scheduler.* `CompletedDayCoversAll`, `OwedIsServed`.
- *Pipeline and cards.* `CallsAreBounded` (no answer makes a job call more often than
  its settings say), `CardsRebuildTheResult` (accepting every card gives the
  merge), `MonitorBringsNews` (no card repeats what the brief or another card says, as far as
  the comparison of words can tell).
- *Accounts and tables.* `AnAdminRemains`; `SessionsAreCurrent` (a session outlives its password
  or its account only if a handler that broke off left it behind); `NothingDangles` (no step
  leaves a foreign key without its row, and none cuts off a brief or a message that had an account;
  only a chat that outlives its brief, or a row written late for what was deleted, names what is
  not there); `ServingIsMigrated`, `EveryoneBoots` (whoever is configured, if the first account is
  still missing).
- *Journal.* `DeletedIsNotServed`; `TaskForest`; `RowsHaveBytes`,
  `CopiesAreWhole`; `NothingIsPassedOver`; `DeepLinkEnds`.
- *Conversation.* `ProposedFromCurrent`, `TurnsEnd`; `DiscussionIsHonest` (words of the
  assistant are not posted as one's own, replies stay in their thread);
  `CommentsAreTold`; `BadgeCatchesUp`; `InternalHasNoLiveLink`.
- *Canvas and events.* `NothingIsLost` (the reordered and collapsed layout shows every
  item of the brief, in the grid, without overlap, whatever the ids); `VersionsAreAccounted`, `ChangesAreKept`;
  `OutcomeIsLogged`, `DrawerCatchesUp`, `TrayCatchesUp`.
- *Account graph.* `PassIsEarned`, `PassCoversCorpus`, `CascadeIsComplete`.
- `ServicesTypeOK` is the type invariant of the parts of MCServices.

## 4. Fairness

All weak, and none of people, clocks, crashes or faults (which are bounded in
number: a process that always dies gets nowhere).

- `ResearchWorker!Spec`: the worker's step. The loop runs until the process dies, PM2
  restarts it, and provider calls time out.
- `MonitorSchedule!ScheduleSpec`: the worker's loop.
- `BriefChat!ChatSpec`: the end of each call (the client gives up after 90 s) and what the
  handler does after it, which waits for nothing. Getting a permit is not assumed.
- `Journal!JournalSpec`: the end of a call, by an answer or none (45 s).
- Boot (`BootStep` per process): code between two statements, and PM2's restart.
- Bell (`PollCount`, and serving and arrival per kind of request), tray (`TrayStep`):
  timers fire, and every request is answered or fails.
- Hermes (`HermesStep`, `Connect`, `Poll`): adapters run on; the drawer's EventSource
  reconnects, and the stream's timer ticks.
- Desk (`DeskStep`): effects run, answers come or fail.

## 5. What is proved

All proofs are checked by TLAPS with SMT, Zenon and LS4. The only assumptions are
the named `ASSUME`s on constants.

| theorem | states | for every value of |
|---|---|---|
| `TypeCorrect`, `HandHolds`, `Held` | `SystemTypeOK`, `JobInHand`, `RunningIsHeld` | users, briefs, jobs, limits, crashes |
| `Limited`, `Deduplicated` | `QueueLimits`, `OneActivePerTarget` | the same |
| `SavedOnce`, `CandidatesFromDone`, `CandidatesSafe` | `SavedOnceWhenDone`, `CandidatesOnlyFromDone`, `CandidatesAreSafe` | the same |
| `HistoryAgrees`, `CancelledDiscarded` | `RunAgreesWithJob`, `CancelledInCallIsDiscarded` | the same |
| `EditorsMayWrite` | `EditorsAreNotViewers` | the same |
| `LifecycleImplemented` | `ImplementsLifecycle`, the refinement of JobLifecycle | the same |
| `ScheduleTypes`, `OnceADay`, `DayCovered` | types, `ScheduledOncePerDay` (per account), `CompletedDayCoversAll` | briefs, accounts and their deletions, cadences, lengths of a day, limits, faults |
| `CanvasHolds` | `NothingIsLost` | briefs, extensions, ids |
| `CallsBounded` | `CallsAreBounded` | continuation limits |
| `AccountsAreSafe`, `AdminHolds`, `SessionsHold` | `AccountsSafe`, `AnAdminRemains`, `SessionsAreCurrent` | accounts, sessions, handlers that break off |
| `BootTypes`, `ServingHolds` | types, `ServingIsMigrated` | processes, migrations, faults |
| `ChatTypes`, `PermitsHold`, `HistoryHolds`, `ProposalsAreCurrent`, `CallsHold` | types, `PermitsAreCalls`, `HistoryIsTurns`, `ProposedFromCurrent`, `CallsAreAuthorised` | users, contents, rounds, permits, even retention |
| `DiscussionHolds` | `DiscussionIsHonest` | rows, acts, upsets |
| `NoticeTypes`, `ToldHolds` | types, `CommentsAreTold` | readers, comments, inbox length, faults |
| `LinksHold` | `InternalHasNoLiveLink` | links, dialogs, limits, faults |
| `DeletedHolds`, `JournalTypes` | `DeletedIsNotServed`, types | users, keys, entries, changes |
| `StoreTypes`, `BytesHold`, `CopiesHold` | types, `RowsHaveBytes`, `CopiesAreWhole` | uploads, contents, faults |
| `ForestHolds`, `ChainsHold`, `OneRecordHolds`, `HistoryStands` | `TaskForest`, `DecisionChains`, `OneRecordPerCandidate`, `DecisionHistory` | tasks, depth limit, candidates, decisions |
| `RadarHolds` | `NothingIsPassedOver` | records of all kinds, readers, panels, changes |
| `HermesTypes`, `OutcomesHold`, `DrawerHolds` | types, `OutcomeIsLogged`, `DrawerShowsTheLog` | jobs, runtime events, pages, faults |
| `TrayAsksOn`, `EndsAreTold` | `StoppedShowsNothing`, `OnlyTheEndIsTold` | jobs, clicks, faults |
| `AddressHolds` | `AddressAgrees` | posts, threads, clicks |
| `PassHolds`, `ConsentHolds`, `BudgetHolds`, `ValidationTypes` | `PassIsEarned`, `OnlyWithConsent`, `StageStaysInBudget`, types | command lines, accounts, estimates, bills, proposals |
| `RowsHold` | `NothingDangles` | rows of all tables, deletions, rows written late |
| `CascadeHolds` | `CascadeIsComplete` | well-formed graphs |
| `CorpusCovered` | `PassCoversCorpus` | rows, items, texts |
| `CardsHold`, `NewsHolds` | `CardsRebuildTheResult`, `MonitorBringsNews` | briefs, research, scans, limits |
| `VersionsHold`, `ChangesHold` | `VersionsAreAccounted`, `ChangesAreKept` | responses, reviewers, first canvases |
| `ServicesTypes`, `ServicesHold` | `ServicesTypeOK`; the other properties of the run `services` | all that the parts leave open |

Every safety property that a passing run checks is the statement of a theorem.

Several of these properties are in no run: `PermitsAreCalls`, `CallsAreAuthorised`,
`HistoryIsTurns`, `DecisionChains`, `DecisionHistory`, `OneRecordPerCandidate`,
`ScheduledOncePerDay`, `AddressAgrees`, `DrawerShowsTheLog`, `StoppedShowsNothing`, `OnlyTheEndIsTold`, `OnlyWithConsent`, `StageStaysInBudget`,
`CancelledInCallIsDiscarded`, `CandidatesOnlyFromDone`, `EditorsAreNotViewers`,
`RunningIsHeld`, `JobInHand`. TLC checked each on the small instance before it was
proved; with the proof it need not be checked again.

The arguments, component by component.

**Research** (ResearchProofs). The types are not inductive: the worker writes
`jobs[cur]`, which is a row only when `cur` is a job. `Shape` = types /\ `JobInHand`
is inductive. The lemmas `Admission`, `WebRows` and `WorkerRows` say how a step may change a
row of `research_jobs`; from these moves alone follow deduplication, limits (with
cardinalities of the set of active jobs), and the refinement: a row move is a step of
the life cycle or a stutter. `SavedOnce` needs that an unfinished job has spent nothing,
because effect and status change in one transaction. `HistoryAgrees` rests on
`History`, which says for each place of `pc` what row of `monitor_runs` may be there and
which is still to be written, and on `ChecksRecorded`: an accepted check has its row, or its brief
is gone, or the worker stands at the very statement that writes it. No other step takes a row
away but the deletion of the brief (`RecordLeft`).
`CancelledDiscarded` rests on `Discarded`: past the check, a worker holds no job that was
cancelled during its call; a job that left the worker's hand is never held again.

**Accounts** (ClientProofs). `AccountsSafe` is inductive: the types, the admin and the sessions
support each other. A change of role is carried out long after it was found legal; the transaction
looks again whether the caller still is an admin, and the caller then is the one that remains.
`RowStep` and `SameSessions` split a handler into what it does to its row and to the sessions:
a handler that broke off marks the sessions it did not reach (`BrokenOff`).

**Provider calls** (ClientProofs). `WithinBudget` says, stage by stage, what a job may still
spend: each stage keeps what the stages behind it may need. `RunShape` says which stages
belong to which kind of job and how far their loops go.

**Discussion** (ClientProofs). `DiscussionSafe` follows a text through the places where it
waits: rows, the listing on the screen and those under way (old, but their rows are there,
with the same mark and below the same comment), the text being composed, the post and the
edit on their way. In each, the words of the machine carry their mark.

**Chat** (BriefChatProofs). A permit is returned by subtracting one, so types rest on
`PermitsAreCalls`, and that on counting the holders (`Taken`, `Returned`, `Unheld`).
`StillWhole` is about the data: appending a turn to a whole history and pruning to an
even bound leaves a whole history; `EvenGap` is where evenness enters.

**Records** (JournalProofs). `TaskForest` says that the live tasks have a depth function
within the limit. The code computes depths by walking; the proof gives
an explicit new depth function for a move (depths shifted inside the moved
subtree), and subtrees are smallest closed sets, so that no induction is needed.

**Links** (ServiceProofs). `SharesSafe` adds to the property that a link on its way to its
dialog is a link. Only one action makes a link live, and it looks at the audience
again; the writers of the audience withdraw the links in the same transaction.

**Documents** (ServiceProofs). `LockIsHeld`: an upload inside its transaction, or the clean-up
from the moment it reads the rows again, holds the lock, so there is one writer at a time.
`FilesAreKept` is what the lock is for: the file of a row about to be inserted is in
place, and the clean-up removes nothing a row wants. A backup and a restore are judged by
the rows of their snapshot (`CopiesAreWhole`), which the live side does not touch.

**Catch-ups** (ServiceProofs). `JournalSafe`: the fingerprint of each cached summary lists the
summary's own reply as live. A served summary has the fingerprint of the Journal as it is.
The types need `JournalShape`: a permit is returned by subtracting one, so there is at most
one caller (`OneCall`), and it holds the permit; an edit adds to the revision of its entry
after its change was counted, so the revision stays within the changes because only the
author edits an entry, and a user has one request at a time (`RevisionsCount`).

**Validation** (ServiceProofs). `RunSafe`: the gates were passed by whoever spends or
writes (`Consent`); the tally counts the failed attempts of a stage, each reserved in full
before it was made and sent twice at most (`Reserved`, `Sendings`); there is one graph per account that was run and a
good row has a sound graph (`RowsSound`, from what the validator's silence means); while all is
well every account had its two answers (`Answered`). The types need a count beside it
(`RunBounds`): two calls for each row, and one more only where an account is in its middle
(`Halfway`), so that the end of an account, whichever way it comes, restores the bound.

**Notices** (ServiceProofs). `NoticeSafe` is inductive as it stands, because a comment and its
notice are inserted in one transaction. The work is in the pruning: it keeps rows by their
position, and the proof needs that the sources of the rows kept and of those it takes
are together what was there (`PrunedBox`, which rests on `Ranks`: the ranks of a finite set of
positions are 1 to its cardinality).

**Radar** (JournalProofs). What a checkpoint froze is a manifest of the past. `Later`
relates two manifests: all records of the first are still listed in the second,
and a record the first lists as removed has not changed. `RadarSafe` says that every checkpoint,
and every answer under way, is so related to what came after it. `ManifestMoves` is the
key step: a source is listed as removed with its entry, so the manifest may change where
the row does not. Between related manifests the buckets are exact, one kind of record at
a time (`EntryIds`, `SourceIds`, `CandidateIds`, `TaskIds`, `DecisionIds`, `ExactLater`).

**Canvas** (ClientProofs). A canvas is built in stages, and `CanvasStands` says of each what it
carries. A widget is named by the place of its emission, so two extensions of a brief may have
the same id. `EmittedCarry`: the widgets emitted carry all that the brief holds. `PackFits`: the
packer, one widget at a time, admits each one or puts it among the hidden, and says how many
places of the grid are taken. The order of the plan is a bijection of places (`Ordered`), so
reordering loses nothing (`ReorderedCarry`), and a collapsed section stands for its members
(`CollapsedShow`).

**Boot** (LoopProofs). A row of the ledger stands for an effect in the file
(`FilesAreTrue`), and where a process is tells what the ledger and the file hold by now
(`Fits`).

**Scheduler** (LoopProofs). `Coverage`: a pass that put nothing off has served the briefs it is
done with, and a completed day all of them, although an attempt may go with its account; `Once`
and `Fresh`, account by account: the latest job an account has of a brief scheduled today is of
today, and those still in a pass have not been scheduled by it. Without "account by account" it
would be false: with the account of its owner goes the attempt of the day.

**Events** (LoopProofs). `Outcomes`: a job is closed only by the adapter that just saw the
event stored that says how it ended, and nothing is stored for it afterwards; `Numbered` and
`DraftsFit` make the last event of a job the one with the greatest number. The drawer's side is
`DrawerShowsTheLog`: an event stored before the cursor moves it along (`InsertedLength`), and a
page ends within the log (`PageFits`).

**Tray** (LoopProofs). `TraySafe`: an answer, however old, is right about what it says is over,
because nothing moves a job that is over; a retry makes a new one. And whoever sets the stage
"stopped" has just looked at the tray and at the jobs it shows, while an answer to a cancel or
a retry leaves the stage alone only if it shows as many active jobs as before. This is the safety
half of `TrayCatchesUp`: the polls have not stopped while there is something to catch up with.

**Foreign keys** (ServiceProofs). `NothingDangles` is a property of steps. What a deletion takes is
the least closed set of rows (`Doomed`), so no row that stays refers by a cascading key to one
that goes; the other keys are cleared or refuse the statement; and the bare columns that name
accounts name none that goes: the rows were handed over before, and no other account goes
with a deletion. What remains is the brief of a chat.

**Corrections** (ServiceProofs). The correction is one removal or one change of a source; what
the validator then refuses and did not refuse before is at most two references from the
source, and the report walks those two. That an id which occurs has a last place in its
collection is well-foundedness of the natural numbers.

**Backfill** (BriefProofs). `BackfillSafe` says of a row with an artifact that its record is
its class. The merge drops an item only for an earlier one of its section, so the first item
of a section stays (`MergedKeeps`) and the texts of a section whose claims carry their words
are not all without a match (`SectionMatches`: a place that was matched is never free again).
So a row that did not fail has fewer than three sections without a match, all of the
footprint (`FewAreDropped`, `OnlyFootprintDrops`), and a pass has no row that failed
(`FatalFails`).

**Cards** (BriefProofs). `CardsSafe`: nothing is queued before the job ends, and what it then
queued are the cards of some list of patches against the brief it read (`QueuedFrom`). That
these patches make the proposed brief is `PatchesRebuild` for a refresh: field by field, the
patches that append what a list has more than before make that list, but for signatures
(`AppendsGrow`, `BuiltStep`), provided the old list is a prefix of the new one; the handler
refuses the job otherwise. For the monitor it is kept patch by patch by the two passes of the sifting
(`FindKeeps`, `SourceKeeps`), as is that each patch was news when it was taken: whether it was depends
only on the list of its own field (`OneField`), and for a source on the addresses the brief
had or the sources taken before cite (`SourceUrls`).

**Canvas proposals** (ClientProofs). A response is a sequence of actions, each of which saves
a version or files a proposal. `TurnSafe` holds after each of them: every version of the row
is accounted for, what the handler takes for the document has the nodes of the row, and a
canvas whose document is ahead of its row is not saved over. A proposal that may still be
approved holds what its action makes of the document as it is (`ChangesAreKept`).

**Desk** (LoopProofs). `AddressAgrees` is inductive: whoever sets the workspace writes an
address that is read back as that workspace (`ReadBack`), and going back reads the address.

**The services together** (CompositionProofs). A step of the composition is a step of every part
or leaves it alone (`StepsOfParts`), so the composition implies the specification of each part
that starts as it says; a part that starts idle, because it does not move, stays as it is
(`OthersStay`) and satisfies its invariants as it stands.

Some models were changed to be reasoned about, none in what it says: the radar's kinds of
ids are assumed disjoint pairwise rather than by counting them, a new record is written
out, and a superseded row is taken from the log; in TableRows the rows a deletion takes
are a least closed set, not a recursive operator; the graphs of GraphCorrections are a
parameter; the walks of CanvasBuilder, CanvasProposals, BriefBackfill and BriefProposals are
functions of a position, not folds, the widgets of CanvasBuilder are known by the place of
their emission, and the patches of BriefProposals are listed field by field. A fact about
such a walk is proved by well-foundedness of the natural numbers (`OneByOne`): were it false
somewhere, it would be false at a first position.

## 6. What stays with TLC, and why

- *Liveness under fairness* is beyond the provers used: `QueueDrains`, `OwedIsServed`,
  `TurnsEnd`, `EveryoneBoots`, `BadgeCatchesUp`, `DrawerCatchesUp`, `DeepLinkEnds`,
  `TrayCatchesUp`.
- *Types of screens.* The bell has no proved type; neither has the length of the scheduler's
  queue. No proved property rests on them.
- *The other compositions.* MCClients and MCLoops put their parts together as MCServices does;
  only for MCServices is it proved that each part still follows its specification.

## 7. Findings

Each is a run that must end in a violation; `PROJECT.json` quotes the text.

1. `toggle_conflict`. The comment in the monitor route says the first check is
   "deduped if one is already queued". The duplicate's 409 is thrown and the switch
   is rolled back: monitoring cannot be turned on while a check is active.
2. `orphan_brief`. The user-deletion handler says owned content is reassigned "so
   work isn't lost". A create job whose account is deleted during the call saves its
   brief afterwards, for an account that no longer exists.
3. `catch_up_stale`. The interface says cached catch-ups refresh when entries
   change. The summary is made from entries read before the call, and saved under a
   fingerprint computed after it.
4. `hidden_reply`. `journal.ts` says a soft-deleted root cannot accrue a hidden
   sub-thread. The root of a question to the assistant is resolved before the call
   and not looked at after it.
5. `hermes_stream`. `hermes/events.ts` calls `(created_at, id)` monotonic enough to resume
   a stream. The id is random: of two events of one millisecond the later may sort first,
   and an open stream never delivers it (`DrawerCatchesUp`: a reconnect does).
6. `refresh_refused`. The dialog says new findings update matching items and unmatched
   ones are kept. `patchesFromWholeBrief` refuses a list that does not begin with the
   brief's items, which is what the merge makes of a reworded item.

## 8. Observations without a run

Met while modelling. The first two contradict a comment and are in the model, where the property
beside them leaves out exactly that case; of the others no text of the repository says
anything, or the text is beside the model.

- *A check without its row.* `monitorRuns.ts:1` says every scan, no-op or not, records one row, and
  `db.ts:748` that the table records every monitor outcome. The no-op is committed first
  (`researchWorker.ts:755`) and its row written after it: a worker that dies between the two leaves
  a check that was made and counted, and no row; the boot repairs running jobs only. Checks that
  are refused or found stopped before the commit leave none either. `RunAgreesWithJob` asks for the
  row of every accepted check but one whose worker died there.
- *Not signed out everywhere.* The comment in `change-password/route.ts:76` says that anyone else on
  the account is signed out everywhere. The password and the sessions are separate statements: when
  the process dies in between, or the second finds the database busy, the password is the new one
  and the sessions of the old one go on. `reset-password/route.ts:31` and `disable/route.ts:28` are
  built the same way, and after the latter enabling the account brings the sessions back.
  `SessionsAreCurrent` asks this of every session but those that such a handler left behind.
- *Research.* A job cancelled during its call whose account is then deleted is saved
  after all: without its row it is not seen as cancelled. A monitor patch with a value
  over 1200 bytes fails the whole proposal, although the comment at
  `researchWorker.ts` 769–770 says a malformed optional patch should not. The radar's
  monitor bucket reads runs with outcome `updated` (`db.ts:767`), which the worker never
  writes. The chat of a deleted brief stays in `brief_chats`. An account deleted in the middle of a day
  takes the attempts at its briefs with it: while the day is not complete, they may be checked a
  second time for the new owner. `monitorTextsAreDuplicates` needs four words that count on each side and five in common, so
  that a short signal is proposed again at every scan. The dialog of a refresh says "We will snapshot the current brief", though a refresh only
  queues cards. An appended research extension is re-signed "chat" when incorporated.
- *Journal.* The fingerprint's `briefUpdatedAt` is `briefs.created_at`: editing a brief
  never invalidates a catch-up. Post and organise use the `load` of their closure, so
  that toggling the mentions filter during a POST leaves the feed in the other scope
  until the next click, although the comment at `JournalSection.tsx` 593–595 explains that
  state by a failed refetch. Loads of the review list carry no number; text typed while
  posting is cleared. The radar says "No structural changes" after a to-do is moved, while "Mark
  reviewed" then gets 409. Documents are never hard-deleted, so that "Source removed" never shows.
- *Comments.* PATCH reads the row, awaits the body, and updates by id alone: a comment
  deleted meanwhile is still edited (invisibly). An older listing may come last; an
  assistant's draft replaces text typed meanwhile; a lost answer invites a duplicate.
- *Chat.* A reply can appear without its question after a clear or a late load. What is
  sent to the provider is cut by size, row by row, and may begin with a reply.
- *Monitoring panel.* It sends `enabled` from the status it displays, so that a change
  of cadence in a stale panel may switch monitoring back.
- *Tray.* A stale answer can take a job off the list, so that its end is never
  announced or announced twice; a closed tray whose request fails stops polling.
- *Canvas.* Only the seed route calls `ingestCanvasResponse` at this commit, and only its
  fixtures carry a request id (`canvasSeedFixtures.ts`); were a response with an id delivered
  twice and one of its actions applied at once, the second delivery would save a version
  that no row accounts for. A canvas whose
  row version differs from its document's can never be approved. Withdrawing works from any
  status.
- *Account graph.* The client is built with `maxRetries: 1` (`realAnthropic.ts:219`), so that an
  attempt that was reserved once may be billed twice. `budget.ts:11` calls the cap a hard ceiling on observed cost; bills of
  failed and superseded answers are not observed. A brief with an empty required text makes
  the corpus run throw, though `run-account-graph-validation.ts` 711–714 says malformed
  entries are classified. `technical_footprint` claims are stored as "sub: text", so that three
  short sections give `failed_render_parity` although every item is in the graph. The runbook
  (`phase-a7-paid-model-validation.md` 410–430) describes exit codes of the preflight and the
  budget that differ from the script's.

## 9. What is not modelled

- *Prompts and answers of models*: text in, text out. A parser's classes are modelled
  where control depends on them.
- *Other pages and components*: render what they are given; no state that outlives a
  request.
- *E-mail* other than that of links: fired and forgotten.
- *The spike pipeline of the account graph*: an earlier offline experiment.
- *The SQL of each migration, the repair of the radar tables*; hashing; lockout times.
- *Failures to write artifacts* in the validation run; the extraction of text from
  documents; the public page and the diff of versions.
- *The Hermes runtime*: outside the repository; its events enter HermesEvents as inputs.

## 10. Plan

Done: all components above, their runs, and the theorems of section 5. What could come
next, in this order:

1. Abstract specifications still worth stating: the semaphore (a bounded set of
   holders) implemented by Journal and BriefChat; the scheduler (each day each owed brief
   once) implemented by MonitorSchedule.
2. The safety halves of the other liveness properties, as was done for the tray: what must be
   under way while the badge, the drawer or a boot has something to catch up with.
3. The extraction of text from documents, the public page, the diff of versions.
