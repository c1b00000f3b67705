------------------------------ MODULE TableRows ------------------------------
(***************************************************************************)
(* The foreign keys of web/lib/db.ts and the two statements that delete    *)
(* the rows they hang from: an account (api/admin/users/[id]) and a brief  *)
(* (api/briefs/[id]).  SQLite, with foreign_keys = ON, deletes or clears   *)
(* what refers to them, or refuses the whole statement.  A column that     *)
(* carries no constraint is kept right by the handlers alone, or is not:   *)
(* the rows of a deleted brief's chat stay, and what a worker or a chat    *)
(* wrote last may be for an account or a brief deleted while it worked.    *)
(*                                                                         *)
(* Left out are the bare columns that only record who or what it was       *)
(* (users.created_by, brief_shares.granted_by, the columns of              *)
(* brief_events, research_jobs.target_brief_id, monitor_runs.job_id and    *)
(* pre_version_id, proposed_by, decided_by, promoted_by, pinned_by and     *)
(* capability_proposal_id of the canvas, notifications.source_entry_id,    *)
(* login_attempts, the columns migration 030 adds to journal_tasks) and    *)
(* the two caches of the Journal, which hang from their brief alone.       *)
(***************************************************************************)
EXTENDS FiniteSets

CONSTANTS
  RowId,        \* the rows that may come to exist
  TableOf,      \* the table of each
  RowGroup,     \* the sets of rows that are looked at together
  Keeper        \* the account of the deleting admin

NoRow == "null"

Reference(to, del, null) == [to |-> to, del |-> del, null |-> null]
Owned(to) == Reference(to, "cascade", FALSE)
Noted(to) == Reference(to, "clear", TRUE)
Bare(to) == Reference(to, "none", FALSE)
BriefRow == Owned("briefs")

\* The base tables, which predate the accounts: a brief names its account and
\* a chat message its brief and its account in bare columns.
BaseKeys ==
  [users |-> << >>,
   briefs |-> [user |-> Bare("users")],
   brief_chats |-> [brief |-> Bare("briefs"), user |-> Bare("users")],
   sessions |-> [user |-> Owned("users")],
   brief_shares |-> [brief |-> BriefRow, user |-> Owned("users")],
   journal_radar_checkpoints |-> [brief |-> BriefRow, user |-> Owned("users")]]

LinkKeys ==
  [brief_share_links |-> [brief |-> BriefRow, creator |-> Reference("users", "refuse", FALSE)],
   brief_share_emails |->
     [link |-> Owned("brief_share_links"), brief |-> BriefRow, sender |-> Owned("users")]]

JobKeys ==
  [research_jobs |->
     [user |-> Owned("users"), brief |-> Noted("briefs"), retry |-> Noted("research_jobs")],
   brief_versions |->
     [brief |-> BriefRow, trigger |-> Owned("users"), job |-> Noted("research_jobs")],
   monitor_runs |-> [brief |-> BriefRow]]

HermesKeys ==
  [hermes_jobs |-> [user |-> Noted("users"), brief |-> Reference("briefs", "cascade", TRUE),
                    job |-> Noted("research_jobs")],
   hermes_job_events |-> [job |-> Owned("hermes_jobs"),
     brief |-> Reference("briefs", "cascade", TRUE), actor |-> Noted("users")],
   canvas_states |-> [brief |-> BriefRow, job |-> Noted("hermes_jobs")],
   canvas_proposals |-> [brief |-> BriefRow, job |-> Noted("hermes_jobs")],
   canvas_capability_proposals |-> [brief |-> BriefRow, job |-> Noted("hermes_jobs")]]

TalkKeys ==
  [brief_comments |-> [brief |-> BriefRow, user |-> Owned("users"),
                       parent |-> Reference("brief_comments", "cascade", TRUE)],
   notifications |-> [brief |-> Reference("briefs", "cascade", TRUE), user |-> Owned("users"), actor |-> Noted("users")]]

EntryKeys ==
  [journal_entries |-> [brief |-> BriefRow, user |-> Noted("users")],
   journal_documents |->
     [brief |-> BriefRow, entry |-> Owned("journal_entries"), user |-> Noted("users")],
   journal_entry_tags |->
     [brief |-> BriefRow, entry |-> Owned("journal_entries"), creator |-> Noted("users")],
   journal_entry_mentions |->
     [brief |-> BriefRow, entry |-> Owned("journal_entries"), user |-> Owned("users")]]

RecordKeys ==
  [journal_review_candidates |->
     [brief |-> BriefRow, user |-> Noted("users"), entry |-> Noted("journal_entries")],
   journal_tasks |-> [brief |-> BriefRow, parent |-> Reference("journal_tasks", "cascade", TRUE),
                      doneBy |-> Noted("users"), creator |-> Noted("users")],
   journal_decisions |->
     [brief |-> BriefRow, entry |-> Noted("journal_entries"),
      candidate |-> Noted("journal_review_candidates"),
      supersedes |-> Reference("journal_decisions", "refuse", TRUE),
      successor |-> Reference("journal_decisions", "refuse", TRUE), creator |-> Noted("users")]]

KeyGroups == {BaseKeys, LinkKeys, JobKeys, HermesKeys, TalkKeys, EntryKeys, RecordKeys}
Keys ==
  [t \in UNION {DOMAIN g : g \in KeyGroups} |->
     (CHOOSE g \in KeyGroups : t \in DOMAIN g)[t]]

ASSUME RowAssumption ==
  /\ TableOf \in [RowId -> DOMAIN Keys]
  /\ RowGroup \subseteq SUBSET RowId /\ \A g \in RowGroup : Keeper \in g
  /\ NoRow \notin RowId /\ TableOf[Keeper] = "users"

VARIABLES
  group,        \* the group under study
  rows,         \* the columns of its live rows
  gone          \* the rows deleted; their ids are not given out again
rowVars == <<group, rows, gone>>

Present == DOMAIN rows
KeysOf(r) == Keys[TableOf[r]]
Columns(r) == DOMAIN KeysOf(r)

RowInit == group \in RowGroup /\ rows = [s \in {Keeper} |-> << >>] /\ gone = {}

\* What an insert may put in a column: a row of the right table, or nothing
\* where the column is nullable.  A foreign key that finds no live row makes the
\* insert fail; a bare column takes whatever was read before, saveBrief and the
\* chat's two rows being written after a provider call.  A row does not refer to
\* itself (the CHECKs of journal_decisions; the others are older rows).
Referents(r, c) ==
  LET k == KeysOf(r)[c]
      known == IF k.del = "none" THEN Present \cup gone ELSE Present
  IN  {t \in known \ {r} : TableOf[t] = k.to} \cup (IF k.null THEN {NoRow} ELSE {})

Insert(r) ==
  /\ r \in group \ (Present \cup gone)
  /\ \E row \in [Columns(r) -> Present \cup gone \cup {NoRow}] :
       /\ \A c \in Columns(r) : row[c] \in Referents(r, c)
       /\ rows' = [s \in Present \cup {r} |-> IF s = r THEN row ELSE rows[s]]
  /\ UNCHANGED <<group, gone>>

\* supersedeDecision names the successor in the row it supersedes.
Succeed(old, new) ==
  /\ {old, new} \subseteq Present /\ old # new
  /\ TableOf[old] = "journal_decisions" /\ TableOf[new] = "journal_decisions"
  /\ rows[new].supersedes = old
  /\ rows' = [rows EXCEPT ![old].successor = new]
  /\ UNCHANGED <<group, gone>>

\* The rows a delete takes with it: the least set that has the row and whatever
\* cascades from a row of the set.
Cascades(s, taken) == \E c \in Columns(s) : KeysOf(s)[c].del = "cascade" /\ rows[s][c] \in taken
IsClosed(taken) == \A s \in Present : Cascades(s, taken) => s \in taken
Doomed(r) ==
  {s \in Present : \A taken \in SUBSET Present : r \in taken /\ IsClosed(taken) => s \in taken}

\* NO ACTION: at the end of the statement a row that stays still refers to one
\* that goes.
Refused(r) ==
  \E s \in Present \ Doomed(r) : \E c \in Columns(s) :
    KeysOf(s)[c].del = "refuse" /\ rows[s][c] \in Doomed(r)

Without(r, table) ==
  LET taken == Doomed(r) IN
    [s \in DOMAIN table \ taken |->
       [c \in Columns(s) |->
          IF KeysOf(s)[c].del = "clear" /\ table[s][c] \in taken THEN NoRow
          ELSE table[s][c]]]

\* A slip: the chats are forgotten, their account being no foreign key.
HandedOverBriefs(u) ==
  [s \in Present |->
     IF TableOf[s] = "briefs" /\ rows[s].user = u
       THEN [rows[s] EXCEPT !.user = Keeper] ELSE rows[s]]
\* The admin handler hands the briefs and the chats over, then deletes, in one
\* transaction: a refused delete takes the handover back.
HandedOver(u) ==
  [s \in Present |->
     IF TableOf[s] \in {"briefs", "brief_chats"} /\ rows[s].user = u
       THEN [rows[s] EXCEPT !.user = Keeper] ELSE rows[s]]

DeleteUserRow(u) ==
  /\ u \in Present \ {Keeper} /\ TableOf[u] = "users"
  /\ ~Refused(u)
  /\ rows' = Without(u, HandedOver(u)) /\ gone' = gone \cup Doomed(u)
  /\ UNCHANGED group

DeleteBriefRow(b) ==
  /\ b \in Present /\ TableOf[b] = "briefs"
  /\ ~Refused(b)
  /\ rows' = Without(b, rows) /\ gone' = gone \cup Doomed(b)
  /\ UNCHANGED group

RowNext ==
  \/ \E r \in group : Insert(r) \/ DeleteUserRow(r) \/ DeleteBriefRow(r)
  \/ \E old, new \in group : Succeed(old, new)

RowSpec == RowInit /\ [][RowNext]_rowVars

\* A reference to a row that is not there.
Loose(s, c) == rows[s][c] \notin Present \cup {NoRow}

\* No step leaves a foreign key without its row, and none cuts off what was
\* attached: a brief or a chat message whose account exists always has an
\* account afterwards, whoever is deleted (api/admin/users/[id]/route.ts), be it
\* a column no foreign key guards.  A reference is only loose where it was
\* written so, to a bare column, or where a chat outlived its brief
\* (api/briefs/[id]/route.ts).
NothingDangles ==
  [][\A s \in Present' : \A c \in Columns(s) :
       Loose(s, c)' =>
         /\ KeysOf(s)[c].del = "none"
         /\ s \in Present => Loose(s, c) \/ (TableOf[s] = "brief_chats" /\ c = "brief")]_rowVars

==============================================================================
