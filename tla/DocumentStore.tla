---------------------------- MODULE DocumentStore ----------------------------
(***************************************************************************)
(* The original bytes of uploaded journal documents: a file per content    *)
(* hash beside the database (lib/journalDocumentStorage.ts) and a row per  *)
(* upload (documents/route.ts), written under SQLite's write lock; and the *)
(* operator's scripts that work on both while the web server runs: the     *)
(* orphan cleanup, the backup and the restore (endgameOperations.ts).      *)
(*   docs      the uploads whose row is committed                          *)
(*   blobs     the hashes whose file is linked in place                    *)
(*   temps     the uploads whose temporary file lies about                 *)
(*   lock      who holds the write transaction                             *)
(*   upload    where each upload is; made: whether it linked the file      *)
(*   cleaner   the cleanup: what it read for its report, what it has to do *)
(*   copier    the backup: the rows of its snapshot, the files it listed   *)
(*             and has still to copy, and those copied                     *)
(*   backup, restored   the finished copies                                *)
(***************************************************************************)
EXTENDS Naturals, FiniteSets

CONSTANTS
  Doc,           \* the uploads
  Hash, HashOf,  \* contents, and the content of each upload
  StoreFaults    \* crashes, failing statements and damaged files

Free == "free"
Cleaner == "cleanup"

ASSUME StoreAssumption ==
  /\ HashOf \in [Doc -> Hash] /\ StoreFaults \in Nat
  /\ Doc \cap Hash = {} /\ {Free, Cleaner} \cap Doc = {}

VARIABLES docs, blobs, temps, briefHere, lock, upload, made, cleaner, copier,
          backup, restored, storeFaults
liveVars == <<docs, blobs, temps, briefHere, lock>>
storeVars == <<liveVars, upload, made, cleaner, copier, backup, restored, storeFaults>>

NoCopy == [there |-> FALSE, rows |-> {}, files |-> {}, sound |-> TRUE]
Asleep == [stage |-> "idle", seen |-> {}, todo |-> {}]
NotCopying == [stage |-> "idle", rows |-> {}, todo |-> {}, done |-> {}]

StoreInit ==
  /\ docs = {} /\ blobs = {} /\ temps = {} /\ briefHere = TRUE /\ lock = Free
  /\ upload = [d \in Doc |-> "idle"] /\ made = [d \in Doc |-> FALSE]
  /\ cleaner = Asleep /\ copier = NotCopying
  /\ backup = NoCopy /\ restored = NoCopy /\ storeFaults = 0

Goes(d, from, to) == upload[d] = from /\ upload' = [upload EXCEPT ![d] = to]
StoreFault == storeFaults < StoreFaults /\ storeFaults' = storeFaults + 1
Wanted == {HashOf[d] : d \in docs}

\* The checks of the request and the extraction of its text, in a child process
\* that is killed at its deadline: a refusal, or the upload's transaction next.
Extract(d) ==
  /\ briefHere
  /\ Goes(d, "idle", "begin") \/ Goes(d, "idle", "refused")
  /\ UNCHANGED <<liveVars, made, cleaner, copier, backup, restored, storeFaults>>

\* persistUpload.immediate(): one writer at a time.
BeginUpload(d) ==
  /\ lock = Free /\ lock' = d
  /\ Goes(d, "begin", "write")
  /\ UNCHANGED <<docs, blobs, temps, briefHere, made, cleaner, copier, backup,
                 restored, storeFaults>>

\* persistOriginalBytes: the bytes into a temporary file, then a link.
WriteTemp(d) ==
  /\ Goes(d, "write", "link")
  /\ temps' = temps \cup {d}
  /\ UNCHANGED <<docs, blobs, briefHere, lock, made, cleaner, copier, backup,
                 restored, storeFaults>>

\* A file that is there already is verified and reused.
LinkBlob(d) ==
  /\ Goes(d, "link", "insert")
  /\ made' = [made EXCEPT ![d] = HashOf[d] \notin blobs]
  /\ blobs' = blobs \cup {HashOf[d]}
  /\ temps' = temps \ {d}
  /\ UNCHANGED <<docs, briefHere, lock, cleaner, copier, backup, restored, storeFaults>>

\* The entry and the document, and the commit.
InsertRows(d) ==
  /\ briefHere
  /\ Goes(d, "insert", "done")
  /\ docs' = docs \cup {d} /\ lock' = Free
  /\ UNCHANGED <<blobs, temps, briefHere, made, cleaner, copier, backup, restored, storeFaults>>

\* A statement fails, or the brief is gone: the file this upload linked is
\* removed again, best effort, if no committed row wants it; then the rollback.
Undone(d) == IF made[d] /\ HashOf[d] \notin Wanted THEN {HashOf[d]} ELSE {}
InsertFails(d) ==
  /\ \/ briefHere /\ StoreFault
     \/ ~briefHere /\ UNCHANGED storeFaults
  /\ Goes(d, "insert", "refused")
  /\ \E gone \in {{}, Undone(d)} : blobs' = blobs \ gone
  /\ lock' = Free
  /\ UNCHANGED <<docs, temps, briefHere, made, cleaner, copier, backup, restored>>

\* Writing or linking fails: the temporary file goes in the finally block.
PersistFails(d) ==
  /\ StoreFault
  /\ Goes(d, "write", "refused") \/ Goes(d, "link", "refused")
  /\ temps' = temps \ {d} /\ lock' = Free
  /\ UNCHANGED <<docs, blobs, briefHere, made, cleaner, copier, backup, restored>>

\* The web server dies: SQLite rolls back what it held; files stay.
WebDies ==
  /\ StoreFault
  /\ upload' = [d \in Doc |-> IF upload[d] \in {"idle", "done"} THEN upload[d] ELSE "refused"]
  /\ lock' = IF lock \in Doc THEN Free ELSE lock
  /\ UNCHANGED <<docs, blobs, temps, briefHere, made, cleaner, copier, backup, restored>>

\* Deleting the brief cascades to the rows, never to the files.
DropBrief ==
  /\ lock = Free /\ briefHere
  /\ briefHere' = FALSE /\ docs' = {}
  /\ UNCHANGED <<blobs, temps, lock, upload, made, cleaner, copier, backup, restored, storeFaults>>

\* reconcile --cleanup-orphans: the report is read first, without a lock.
Reconcile ==
  /\ cleaner.stage = "idle"
  /\ cleaner' = [Asleep EXCEPT !.stage = "reported", !.seen = Wanted]
  /\ UNCHANGED <<liveVars, upload, made, copier, backup, restored, storeFaults>>

\* A slip: the rows of the report.
ReferencedInReport(seen) == seen
\* What the cleanup must not touch: the rows read again under the lock.
Referenced(seen) == Wanted
BeginCleanup ==
  /\ cleaner.stage = "reported" /\ lock = Free
  /\ lock' = Cleaner
  /\ cleaner' = [cleaner EXCEPT !.stage = "removing",
                                !.todo = (blobs \ Referenced(cleaner.seen)) \cup temps]
  /\ UNCHANGED <<docs, blobs, temps, briefHere, upload, made, copier, backup, restored, storeFaults>>

RemoveOrphan ==
  /\ cleaner.stage = "removing"
  /\ \E f \in cleaner.todo :
       /\ blobs' = blobs \ {f} /\ temps' = temps \ {f}
       /\ cleaner' = [cleaner EXCEPT !.todo = @ \ {f}]
  /\ UNCHANGED <<docs, briefHere, lock, upload, made, copier, backup, restored, storeFaults>>

\* The commit; or the script is killed with files still to remove.
EndCleanup ==
  /\ cleaner.stage = "removing"
  /\ \/ cleaner.todo = {} /\ UNCHANGED storeFaults
     \/ cleaner.todo # {} /\ StoreFault
  /\ cleaner' = Asleep /\ lock' = Free
  /\ UNCHANGED <<docs, blobs, temps, briefHere, upload, made, copier, backup, restored>>

\* createDataBackup: SQLite's online snapshot, ...
Snapshot ==
  /\ copier.stage = "idle" /\ ~backup.there
  /\ copier' = [NotCopying EXCEPT !.stage = "snapshot", !.rows = Wanted]
  /\ UNCHANGED <<liveVars, upload, made, cleaner, backup, restored, storeFaults>>

\* ... the list of the other files, with no lock against the application, ...
ListFiles ==
  /\ copier.stage = "snapshot"
  /\ copier' = [copier EXCEPT !.stage = "copying", !.todo = blobs \cup temps]
  /\ UNCHANGED <<liveVars, upload, made, cleaner, backup, restored, storeFaults>>

\* ... and their copies: a file that has gone meanwhile ends the backup.
CopyFile ==
  /\ copier.stage = "copying"
  /\ \E f \in copier.todo :
       copier' = IF f \in blobs \cup temps
                   THEN [copier EXCEPT !.todo = @ \ {f}, !.done = @ \cup {f}]
                   ELSE NotCopying
  /\ UNCHANGED <<liveVars, upload, made, cleaner, backup, restored, storeFaults>>

\* A slip: the blob report is written and not acted upon.
VerifiedLoosely(rows, files) == TRUE
\* Every row of the snapshot has its file in the copy.
Verified(rows, files) == rows \subseteq files
Publish ==
  /\ copier.stage = "copying" /\ copier.todo = {}
  /\ backup' = IF Verified(copier.rows, copier.done)
                 THEN [there |-> TRUE, rows |-> copier.rows, files |-> copier.done, sound |-> TRUE]
                 ELSE backup
  /\ copier' = NotCopying
  /\ UNCHANGED <<liveVars, upload, made, cleaner, restored, storeFaults>>

\* A file of the finished backup is lost or altered: its checksum tells.
DamageBackup ==
  /\ StoreFault
  /\ \E f \in backup.files :
       backup' = [backup EXCEPT !.files = @ \ {f}, !.sound = FALSE]
  /\ UNCHANGED <<liveVars, upload, made, cleaner, copier, restored>>

\* restoreDataBackup: the manifest, the copy, the same verification.
Restore ==
  /\ backup.there /\ ~restored.there
  /\ backup.sound /\ Verified(backup.rows, backup.files)
  /\ restored' = backup
  /\ UNCHANGED <<liveVars, upload, made, cleaner, copier, backup, storeFaults>>

StoreNext ==
  \/ \E d \in Doc : \/ Extract(d) \/ BeginUpload(d) \/ WriteTemp(d) \/ LinkBlob(d)
                    \/ InsertRows(d) \/ InsertFails(d) \/ PersistFails(d)
  \/ WebDies \/ DropBrief
  \/ Reconcile \/ BeginCleanup \/ RemoveOrphan \/ EndCleanup
  \/ Snapshot \/ ListFiles \/ CopyFile \/ Publish \/ DamageBackup \/ Restore

StoreSpec == StoreInit /\ [][StoreNext]_storeVars

Copy == [there : BOOLEAN, rows : SUBSET Hash, files : SUBSET (Hash \cup Doc), sound : BOOLEAN]
StoreTypeOK ==
  /\ docs \subseteq Doc /\ blobs \subseteq Hash /\ temps \subseteq Doc
  /\ briefHere \in BOOLEAN /\ lock \in Doc \cup {Free, Cleaner}
  /\ upload \in [Doc -> {"idle", "begin", "write", "link", "insert", "done", "refused"}]
  /\ made \in [Doc -> BOOLEAN]
  /\ cleaner \in [stage : {"idle", "reported", "removing"}, seen : SUBSET Hash,
                  todo : SUBSET (Hash \cup Doc)]
  /\ copier \in [stage : {"idle", "snapshot", "copying"}, rows : SUBSET Hash,
                 todo : SUBSET (Hash \cup Doc), done : SUBSET (Hash \cup Doc)]
  /\ backup \in Copy /\ restored \in Copy /\ storeFaults \in 0 .. StoreFaults

\* The row of a document never outlives its bytes: not when two uploads share a
\* content and one of them fails, not when the cleanup runs beside an upload
\* that finds an orphan of its content and reuses it, whatever crashes
\* (documents/route.ts, journalDocumentStorage.ts, reconcileJournalDocumentBlobs).
RowsHaveBytes == Wanted \subseteq blobs

\* A backup or a restored directory that exists holds the file of every row of
\* its database, although the application went on uploading, deleting and
\* cleaning between the snapshot and the copies (endgameOperations.ts).
CopiesAreWhole ==
  /\ backup.there /\ backup.sound => backup.rows \subseteq backup.files
  /\ restored.there => restored.rows \subseteq restored.files
==============================================================================
