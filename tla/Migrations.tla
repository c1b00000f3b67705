------------------------------ MODULE Migrations -----------------------------
(***************************************************************************)
(* Opening the database: initDb of web/lib/db.ts, run by the web server    *)
(* and by the worker (ecosystem.config.js starts both, and starts again    *)
(* whichever exits) against one SQLite file.  A migration and its ledger   *)
(* row commit in one transaction; the check of the ledger is before it.    *)
(*   schema    the migrations whose effect is in the file                  *)
(*   ledger    the rows of schema_migrations                               *)
(*   radar     what journalRadarCheckpointHealth would answer              *)
(*   seeded    the users table holds an account                            *)
(*   configured  the processes whose environment names an admin account;     *)
(*             never changes                                               *)
(*   owner     who the briefs from before there were accounts belong to    *)
(*   boot      where each process is                                       *)
(***************************************************************************)
EXTENDS Naturals, FiniteSets

CONSTANTS
  Booter,        \* the processes that open the file
  Migration,     \* 1 .. N, in the order of MIGRATIONS; N is the radar table
  Unguarded,     \* the bare ALTER TABLE ADD COLUMN ones (001-003, 005)
  BootFaults     \* crashes and SQLITE_BUSY errors in a run

ASSUME BootAssumption ==
  /\ IsFiniteSet(Migration) /\ Migration # {}
  /\ Migration = 1 .. Cardinality(Migration)
  /\ Unguarded \subseteq Migration \ {Cardinality(Migration)}
  /\ BootFaults \in Nat

VARIABLES schema, ledger, radar, seeded, configured, owner, boot, bootFaults
bootVars == <<schema, ledger, radar, seeded, configured, owner, boot, bootFaults>>

RadarMigration == Cardinality(Migration)

Repairable == {"missing_table", "empty_table", "missing_index", "wrong_index"}
Radar == Repairable \cup {"healthy", "occupied"}
Stage == {"down", "look", "apply", "record", "repair", "count", "seed", "serving"}
Down == [stage |-> "down", next |-> 1]

\* A new file; a file from before the ledger, some columns already added by
\* hand; a file of an earlier release; or one whose radar table was damaged.
BootInit ==
  /\ boot = [p \in Booter |-> Down]
  /\ bootFaults = 0
  /\ \/ /\ ledger = {} /\ schema \in SUBSET Unguarded
        /\ radar = "missing_table"
     \/ \E k \in Migration \ {RadarMigration} :
          ledger = 1 .. k /\ schema = ledger /\ radar = "missing_table"
     \/ ledger = Migration /\ schema = Migration /\ radar \in Radar
  /\ seeded \in BOOLEAN /\ configured \in SUBSET Booter
  /\ owner = IF seeded THEN "account" ELSE "nobody"

At(p, s) == boot[p].stage = s
Advance(p) == boot' = [boot EXCEPT ![p] = [stage |-> "look", next |-> @.next + 1]]
Enter(p, s) == boot' = [boot EXCEPT ![p].stage = s]
\* A slip: the error is logged, and the connection initDb has already kept in
\* _db is used as it is.
ExitSwallowed(p) == Enter(p, "serving")
Exit(p) == boot' = [boot EXCEPT ![p] = Down]
Files == <<schema, ledger, radar, seeded, configured, owner>>

\* The base tables are CREATE TABLE IF NOT EXISTS: opening changes nothing else.
Start(p) == At(p, "down") /\ Enter(p, "look") /\ UNCHANGED <<Files, bootFaults>>

\* seenStmt, and for an applied 031 the health check that precedes its repair.
Look(p) ==
  /\ At(p, "look")
  /\ LET m == boot[p].next IN
       CASE m \notin Migration -> Enter(p, "count")
         [] m \in Migration \ ledger -> Enter(p, "apply")
         [] m = RadarMigration /\ m \in ledger /\ radar = "occupied" -> Exit(p)
         [] m = RadarMigration /\ m \in ledger /\ radar \in Repairable -> Enter(p, "repair")
         [] OTHER -> Advance(p)
  /\ UNCHANGED <<Files, bootFaults>>

\* A slip: the message of a duplicate column is not recognised.
ApplyStrict(p) ==
  /\ At(p, "apply")
  /\ LET m == boot[p].next IN
       IF m \in ledger \cup (Unguarded \cap schema)
         THEN Exit(p) /\ UNCHANGED Files
         ELSE /\ schema' = schema \cup {m} /\ ledger' = ledger \cup {m}
              /\ radar' = IF m = RadarMigration THEN "healthy" ELSE radar
              /\ Advance(p)
              /\ UNCHANGED <<seeded, configured, owner>>
  /\ UNCHANGED bootFaults

\* The transaction: the effect, then the ledger row.  A column that is there
\* already takes the backfill path; a ledger row another process wrote since
\* the look is a primary-key error, which nothing catches.
Apply(p) ==
  /\ At(p, "apply")
  /\ LET m == boot[p].next IN
       \/ /\ m \in Unguarded \cap schema
          /\ Enter(p, "record")
          /\ UNCHANGED Files
       \/ /\ m \notin Unguarded \cap schema /\ m \in ledger
          /\ Exit(p)
          /\ UNCHANGED Files
       \/ /\ m \notin Unguarded \cap schema /\ m \notin ledger
          /\ schema' = schema \cup {m} /\ ledger' = ledger \cup {m}
          /\ radar' = IF m = RadarMigration THEN "healthy" ELSE radar
          /\ Advance(p)
          /\ UNCHANGED <<seeded, configured, owner>>
  /\ UNCHANGED bootFaults

\* The backfill: only the ledger row, outside the rolled-back transaction.
Record(p) ==
  /\ At(p, "record")
  /\ IF boot[p].next \in ledger
       THEN Exit(p) /\ UNCHANGED ledger
       ELSE ledger' = ledger \cup {boot[p].next} /\ Advance(p)
  /\ UNCHANGED <<schema, radar, seeded, configured, owner, bootFaults>>

\* The repair transaction: an index that another process has replaced since
\* the look is dropped again, and each branch ends by verifying the table.
Repair(p) ==
  /\ At(p, "repair")
  /\ radar' = "healthy"
  /\ Advance(p)
  /\ UNCHANGED <<schema, ledger, seeded, configured, owner, bootFaults>>

Count(p) ==
  /\ At(p, "count")
  /\ Enter(p, IF seeded THEN "serving" ELSE "seed")
  /\ UNCHANGED <<Files, bootFaults>>

\* The account, and the briefs and chats handed to it, in one transaction; an
\* account seeded since the count makes the insert a unique-email error, and
\* without ADMIN_EMAIL and ADMIN_PASSWORD there is none to insert.
Seed(p) ==
  /\ At(p, "seed")
  /\ IF seeded \/ p \notin configured
       THEN Exit(p) /\ UNCHANGED <<seeded, owner>>
       ELSE seeded' = TRUE /\ owner' = "account" /\ Enter(p, "serving")
  /\ UNCHANGED <<schema, ledger, radar, configured, bootFaults>>

\* The process is killed, or a statement finds the file locked: a fatal
\* startup error, the open transaction rolled back, and PM2 starts it again.
BootFails(p) ==
  /\ boot[p].stage # "down"
  /\ bootFaults < BootFaults /\ bootFaults' = bootFaults + 1
  /\ Exit(p)
  /\ UNCHANGED Files

BootStep(p) ==
  Start(p) \/ Look(p) \/ Apply(p) \/ Record(p) \/ Repair(p) \/ Count(p) \/ Seed(p)
MigrationNext == \E p \in Booter : BootStep(p) \/ BootFails(p)
MigrationSpec == BootInit /\ [][MigrationNext]_bootVars

MigrationTypeOK ==
  /\ schema \subseteq Migration /\ ledger \subseteq Migration
  /\ radar \in Radar /\ seeded \in BOOLEAN /\ configured \subseteq Booter /\ owner \in {"account", "nobody"}
  /\ boot \in [Booter -> [stage : Stage, next : 1 .. RadarMigration + 1]]
  /\ bootFaults \in 0 .. BootFaults

\* A process that gets past initDb works on a file every migration has reached,
\* with the radar table sound, an account, and every old brief owned: the
\* ledger is what tells later boots to skip a migration, so a row in it for a
\* migration that never took effect would be skipped for ever (db.ts runMigrations,
\* bootstrapAdmin).
ServingIsMigrated ==
  \A p \in Booter : At(p, "serving") =>
    /\ schema = Migration /\ ledger = Migration /\ radar = "healthy"
    /\ seeded /\ owner = "account"

\* Two processes starting at once trip over each other's ledger rows and
\* accounts and exit; restarted by PM2, they all come up, the one without an
\* admin in its environment once the other has made the account.  Excepted
\* are a radar table with rows in a shape the repair refuses to drop, and an
\* empty file for which no process has an admin.
Hopeless == radar = "occupied" \/ (~seeded /\ configured = {})
EveryoneBoots == <>(Hopeless \/ \A p \in Booter : At(p, "serving"))
==============================================================================
