---------------------------- MODULE JournalRadar ----------------------------
(***************************************************************************)
(* The change radar of a Journal (lib/journalRadar*.ts, the two routes     *)
(* under app/api/briefs/[id]/journal/radar, JournalRadar.tsx): what changed*)
(* in the saved records since the reader last pressed "Mark reviewed".     *)
(*                                                                         *)
(* The server compares the manifest of the records with the manifest the   *)
(* reader's checkpoint froze, in one read transaction.  The panel shows the*)
(* answer and sends its hash back when the reader presses; the server      *)
(* freezes the present manifest only if that is the one displayed.         *)
(*                                                                         *)
(* Abstractions.  A hash stands for its manifest.  A record is whether it  *)
(* is there, its status, its wording, and "touched" for the columns the    *)
(* hash covers and the comparison does not (updated_at: a to-do that is    *)
(* moved).  Sources are never changed or removed but with their entry, and *)
(* no monitor run has the outcome the radar asks for, so these two kinds   *)
(* of change do not happen.                                                *)
(***************************************************************************)
EXTENDS Integers, FiniteSets

CONSTANTS
  RadarEntry, RadarSource, RadarCandidate, RadarTask, RadarDecision,  \* ids of the records
  Panel,          \* open radar panels, tabs of the readers
  ReaderOf,       \* the reader of each panel
  MaxRecordChanges  \* bound: changes of the records

RadarReader == {ReaderOf[p] : p \in Panel}

ASSUME RadarAssumption ==
  /\ MaxRecordChanges \in Nat
  /\ RadarEntry \cap (RadarSource \cup RadarCandidate \cup RadarTask \cup RadarDecision) = {}
  /\ RadarSource \cap (RadarCandidate \cup RadarTask \cup RadarDecision) = {}
  /\ RadarCandidate \cap (RadarTask \cup RadarDecision) = {}
  /\ RadarTask \cap RadarDecision = {}

VARIABLES
  log,          \* the records, as the manifest lists them
  reviewed,     \* journal_radar_checkpoints, by reader
  panel,        \* each panel: its request, the answer under way, the one displayed
  recordChanges

radarVars == <<log, reviewed, panel, recordChanges>>

Records == UNION {RadarEntry, RadarSource, RadarCandidate, RadarTask, RadarDecision}
NoRecord == [at |-> "none", status |-> "", doneAt |-> 0, text |-> 0, touched |-> 0, of |-> ""]
NewRow(status, of) ==
  [at |-> "live", status |-> status, doneAt |-> 0, text |-> 0, touched |-> 0, of |-> of]
There(m, id) == m.rows[id].at # "none"
IsLive(m, id) == m.rows[id].at = "live"

(* buildJournalRadarManifest: a source goes when its entry does. *)
Manifest ==
  [log EXCEPT !.rows = [id \in Records |->
     IF id \in RadarSource /\ There(log, id) /\ ~IsLive(log, log.rows[id].of)
     THEN [log.rows[id] EXCEPT !.at = "removed"] ELSE log.rows[id]]]

Missing == [rows |-> << >>, versions |-> 0]   \* no checkpoint, or none that parses
Frozen(c) == c # Missing

-----------------------------------------------------------------------------
(* compareJournalRadarManifests: the items of the buckets, each with the     *)
(* record its destination opens.                                             *)

Bucket(name, ids) == {[bucket |-> name, id |-> id, to |-> id] : id \in ids}
Unlinked(name, ids) == {[bucket |-> name, id |-> id, to |-> "none"] : id \in ids}

Added(c, m, ids) == {id \in ids : ~There(c, id) /\ There(m, id)}
InBoth(c, m, ids) == {id \in ids : There(c, id) /\ There(m, id)}
In(m, ids) == {id \in ids : IsLive(m, id)}
Differ(c, m, ids, columns) ==
  {id \in InBoth(c, m, ids) : \E f \in columns : c.rows[id][f] # m.rows[id][f]}
Pending(m, id) == IsLive(m, id) /\ m.rows[id].status \in {"new", "reviewing"}

EntryItems(c, m) ==
  LET gone == In(c, RadarEntry) \ In(m, RadarEntry) IN
  Bucket("new_entries", Added(c, m, RadarEntry) \cap In(m, RadarEntry))
    \union Unlinked("removed_entries",
             (Added(c, m, RadarEntry) \ In(m, RadarEntry)) \union gone)
    \union Bucket("edited_entries", Differ(c, m, In(m, RadarEntry), {"text"}))

SourceItems(c, m) ==
  Unlinked("source_changes",
         Added(c, m, RadarSource)
           \union Differ(c, m, RadarSource, {"at", "text", "of"}))

CandidateItems(c, m) ==
  LET pending == {id \in RadarCandidate : Pending(m, id)} IN
  Unlinked("candidates_awaiting_review", Added(c, m, RadarCandidate) \cap pending)
    \union Unlinked("candidate_status_transitions",
             (Added(c, m, RadarCandidate) \ pending)
               \union Differ(c, m, RadarCandidate, {"at", "status"}))

TaskItems(c, m) ==
  LET gone == In(c, RadarTask) \ In(m, RadarTask)
      done == {id \in RadarTask : m.rows[id].status = "done"} IN
  Bucket("new_tasks", Added(c, m, RadarTask) \cap In(m, RadarTask))
    \union Bucket("completed_tasks",
             (Added(c, m, RadarTask) \cap In(m, RadarTask) \cap done)
               \union Differ(c, m, In(m, RadarTask), {"status", "doneAt"}))
    \union Unlinked("removed_tasks",
             (Added(c, m, RadarTask) \ In(m, RadarTask)) \union gone)
    \union Bucket("task_detail_changes", Differ(c, m, In(m, RadarTask), {"text"}))

\* Mutant of DecisionItems: a removed decision is still linked to.
DecisionItemsLinked(c, m) ==
  LET linked == {id \in RadarDecision : m.rows[id].status # "active" \/ m.rows[id].of # ""}
      listed == (Added(c, m, RadarDecision) \ In(m, RadarDecision))
                  \union (Added(c, m, RadarDecision) \cap linked)
                  \union Differ(c, m, RadarDecision,
                           {"at", "status", "text", "of", "touched"}) IN
  Bucket("new_decisions", Added(c, m, RadarDecision) \cap In(m, RadarDecision))
    \union Bucket("decision_lifecycle_changes", listed)

DecisionItems(c, m) ==
  LET linked == {id \in RadarDecision : m.rows[id].status # "active" \/ m.rows[id].of # ""}
      listed == (Added(c, m, RadarDecision) \ In(m, RadarDecision))
                  \union (Added(c, m, RadarDecision) \cap linked)
                  \union Differ(c, m, RadarDecision,
                           {"at", "status", "text", "of", "touched"}) IN
  Bucket("new_decisions", Added(c, m, RadarDecision) \cap In(m, RadarDecision))
    \union Bucket("decision_lifecycle_changes", listed \cap In(m, RadarDecision))
    \union Unlinked("decision_lifecycle_changes", listed \ In(m, RadarDecision))

VersionItems(c, m) == Unlinked("brief_version_changes", (c.versions + 1)..m.versions)

RadarItems(c, m) ==
  IF ~Frozen(c) THEN {}
  ELSE EntryItems(c, m) \union SourceItems(c, m) \union CandidateItems(c, m)
         \union TaskItems(c, m) \union DecisionItems(c, m)
ReviewState(c, m) ==
  IF ~Frozen(c) THEN "no_checkpoint"
  ELSE IF RadarItems(c, m) \union VersionItems(c, m) = {} THEN "unchanged" ELSE "changes"

-----------------------------------------------------------------------------
(* What people do to the records. *)

Change(id, row) ==
  /\ recordChanges < MaxRecordChanges /\ recordChanges' = recordChanges + 1
  /\ log' = [log EXCEPT !.rows[id] = row]
  /\ UNCHANGED <<reviewed, panel>>
Add(id, status, of) == ~There(log, id) /\ Change(id, NewRow(status, of))
Edit(id, row) == IsLive(log, id) /\ Change(id, row)
RecordRow(id) == log.rows[id]

ChangeEntry(e) ==
  \/ Add(e, "posted", "")
  \/ Edit(e, [RecordRow(e) EXCEPT !.text = @ + 1])
  \/ Edit(e, [RecordRow(e) EXCEPT !.at = "removed"])
AddSource(s, e) == IsLive(log, e) /\ Add(s, "stored", e)
ChangeCandidate(c) ==
  \/ Add(c, "new", "")
  \/ \E status \in {"reviewing", "accepted"} :
       Edit(c, [RecordRow(c) EXCEPT !.status = status, !.touched = @ + 1])
ChangeTask(t) ==
  \/ Add(t, "open", "")
  \/ Edit(t, IF RecordRow(t).status = "open"
             THEN [RecordRow(t) EXCEPT !.status = "done", !.touched = @ + 1, !.doneAt = recordChanges + 1]
             ELSE [RecordRow(t) EXCEPT !.status = "open", !.touched = @ + 1, !.doneAt = 0])
  \/ Edit(t, [RecordRow(t) EXCEPT !.text = @ + 1, !.touched = @ + 1])
  \/ Edit(t, [RecordRow(t) EXCEPT !.touched = @ + 1])
  \/ Edit(t, [RecordRow(t) EXCEPT !.at = "removed", !.touched = @ + 1])
ChangeDecision(d) ==
  \/ Add(d, "active", "")
  \/ /\ RecordRow(d).status = "active"
     /\ \/ Edit(d, [RecordRow(d) EXCEPT !.text = @ + 1, !.touched = @ + 1])
        \/ Edit(d, [RecordRow(d) EXCEPT !.status = "revoked", !.touched = @ + 1])
  \/ /\ RecordRow(d).of = ""
     /\ Edit(d, [RecordRow(d) EXCEPT !.at = "removed", !.touched = @ + 1])
Supersede(d, prior) ==
  /\ ~There(log, d) /\ IsLive(log, prior) /\ RecordRow(prior).status = "active"
  /\ recordChanges < MaxRecordChanges /\ recordChanges' = recordChanges + 1
  /\ log' = [log EXCEPT
       !.rows[d] = NewRow("active", prior),
       !.rows[prior] = [RecordRow(prior) EXCEPT !.status = "superseded", !.of = d, !.touched = @ + 1]]
  /\ UNCHANGED <<reviewed, panel>>
SaveVersion ==
  /\ recordChanges < MaxRecordChanges /\ recordChanges' = recordChanges + 1
  /\ log' = [log EXCEPT !.versions = @ + 1]
  /\ UNCHANGED <<reviewed, panel>>

-----------------------------------------------------------------------------
(* The panel and the two routes. *)

NoRadar == [manifest |-> Missing, since |-> Missing]
Closed == [phase |-> "idle", reply |-> NoRadar, radar |-> NoRadar]
PanelIs(p, next) == panel' = [panel EXCEPT ![p] = next]
ButPanel == UNCHANGED <<log, recordChanges>>

(* the panel loads, and GET radar answers with the manifest and the
   checkpoint of one read transaction; until then nothing depends on it *)
ServeRadar(p) ==
  /\ panel[p].phase = "idle"
  /\ PanelIs(p, [panel[p] EXCEPT !.phase = "answered",
       !.reply = [manifest |-> Manifest, since |-> reviewed[ReaderOf[p]]]])
  /\ ButPanel /\ UNCHANGED reviewed
ShowRadar(p) ==
  /\ panel[p].phase = "answered"
  /\ PanelIs(p, [phase |-> "idle", reply |-> NoRadar, radar |-> panel[p].reply])
  /\ ButPanel /\ UNCHANGED reviewed

MarkReviewed(p) ==
  /\ panel[p].phase = "idle" /\ panel[p].radar # NoRadar
  /\ PanelIs(p, [panel[p] EXCEPT !.phase = "marking"])
  /\ ButPanel /\ UNCHANGED reviewed

(* saveJournalRadarCheckpoint: only the manifest whose hash was displayed;
   saved or 409, the panel loads the radar again (ServeRadar) *)
SaveCheckpoint(p) ==
  /\ panel[p].phase = "marking"
  /\ reviewed' = IF panel[p].radar.manifest = Manifest
                 THEN [reviewed EXCEPT ![ReaderOf[p]] = Manifest] ELSE reviewed
  /\ PanelIs(p, [panel[p] EXCEPT !.phase = "idle"])
  /\ ButPanel

(* the request or its answer is lost: an error, and the radar displayed stays *)
RequestFails(p) ==
  /\ panel[p].phase = "answered"
  /\ PanelIs(p, [panel[p] EXCEPT !.phase = "idle", !.reply = NoRadar])
  /\ ButPanel /\ UNCHANGED reviewed
MarkFails(p) ==
  /\ panel[p].phase = "marking"
  /\ PanelIs(p, [panel[p] EXCEPT !.phase = "idle"])
  /\ ButPanel /\ UNCHANGED reviewed

RadarInit ==
  /\ \E old \in BOOLEAN :
       log = [rows |-> [id \in Records |->
                IF ~old \/ id \in RadarSource THEN NoRecord
                ELSE NewRow(CASE id \in RadarEntry -> "posted" [] id \in RadarCandidate -> "new"
                              [] id \in RadarTask -> "open" [] OTHER -> "active", "")],
              versions |-> 0]
  /\ reviewed = [u \in RadarReader |-> Missing]
  /\ panel = [p \in Panel |-> Closed]
  /\ recordChanges = 0

RadarNext ==
  \/ \E e \in RadarEntry : ChangeEntry(e) \/ \E s \in RadarSource : AddSource(s, e)
  \/ \E c \in RadarCandidate : ChangeCandidate(c)
  \/ \E t \in RadarTask : ChangeTask(t)
  \/ \E d \in RadarDecision :
       ChangeDecision(d) \/ \E prior \in RadarDecision : Supersede(d, prior)
  \/ SaveVersion
  \/ \E p \in Panel :
       \/ ServeRadar(p) \/ ShowRadar(p)
       \/ MarkReviewed(p) \/ SaveCheckpoint(p) \/ RequestFails(p) \/ MarkFails(p)

RadarSpec == RadarInit /\ [][RadarNext]_radarVars

-----------------------------------------------------------------------------
(* The radar tells the truth about the interval between the checkpoint and   *)
(* the manifest it displays: a record is in a bucket exactly when what a     *)
(* reader sees of it changed (a removed record shows only that it is gone),  *)
(* records added and removed in between included, and every destination      *)
(* that names a record names one that is there.                              *)
SeenOf(m, id) ==
  LET row == m.rows[id] IN
  IF row.at # "live" THEN [NoRecord EXCEPT !.at = row.at]
  ELSE IF id \in RadarTask \union RadarCandidate THEN [row EXCEPT !.touched = 0] ELSE row
Exact(radar) ==
  LET items == RadarItems(radar.since, radar.manifest) IN
    Frozen(radar.since) =>
      /\ {item.id : item \in items}
           = {id \in Records : SeenOf(radar.since, id) # SeenOf(radar.manifest, id)}
      /\ \A item \in items : item.to # "none" => IsLive(radar.manifest, item.to)

(* No change is passed over: what a panel displays is exact, and what becomes *)
(* the reader's checkpoint is what a panel of that reader displays, although  *)
(* the records, the checkpoint and a second tab move between the display and  *)
(* the press.                                                                 *)
NothingIsPassedOver ==
  [][/\ \A p \in Panel : panel'[p].radar # panel[p].radar => Exact(panel'[p].radar)
     /\ \A u \in RadarReader : reviewed'[u] # reviewed[u] =>
          \E p \in Panel : ReaderOf[p] = u /\ panel[p].radar.manifest = reviewed'[u]]_radarVars
==============================================================================
