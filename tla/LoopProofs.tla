------------------------------ MODULE LoopProofs ------------------------------
(* Proofs about the parts that run on their own: the boot of the processes on *)
(* one file, the event log of the Hermes jobs, the daily monitor pass, a walk *)
(* through the Journal, and the tray of research jobs.                        *)
EXTENDS Migrations, HermesEvents, MonitorSchedule, JournalDesk, ResearchTray,
        FiniteSetTheorems, SequenceTheorems, TLAPS

------------------------------------------------------------------------------
(* The boot *)

BootRow == [stage : Stage, next : 1 .. RadarMigration + 1]

(* Where a process is tells what the ledger and the file hold by now.        *)
Fits(b) ==
  /\ \A m \in Migration : m < b.next => m \in ledger
  /\ b.next = RadarMigration + 1 => radar = "healthy"
  /\ b.stage \in {"apply", "record", "repair"} => b.next \in Migration
  /\ b.stage = "record" => b.next \in Unguarded \cap schema
  /\ b.stage = "repair" => b.next = RadarMigration /\ RadarMigration \in ledger
  /\ b.stage \in {"count", "seed", "serving"} => b.next = RadarMigration + 1
  /\ b.stage = "serving" => seeded

(* A ledger row stands for an effect, an account for the owner of old briefs. *)
FilesAreTrue == ledger \subseteq schema /\ (seeded => owner = "account")

BootSafe == MigrationTypeOK /\ FilesAreTrue /\ \A p \in Booter : Fits(boot[p])

LEMMA LastMigration ==
  /\ RadarMigration \in Nat \ {0} /\ Migration = 1 .. RadarMigration
  /\ RadarMigration \in Migration /\ RadarMigration \notin Unguarded
<1>1. RadarMigration \in Nat
  BY BootAssumption, FS_CardinalityType DEF RadarMigration
<1>2. Migration = 1 .. RadarMigration /\ Migration # {}
  BY BootAssumption DEF RadarMigration
<1>3. RadarMigration # 0
  BY <1>1, <1>2
<1> QED  BY <1>1, <1>2, <1>3, BootAssumption DEF RadarMigration

LEMMA BootStart == BootInit => BootSafe
<1> SUFFICES ASSUME BootInit PROVE BootSafe
  OBVIOUS
<1>1. Down \in BootRow
  BY LastMigration DEF Down, Stage, BootRow
<1>2. boot \in [Booter -> BootRow] /\ \A p \in Booter : boot[p] = Down
  BY <1>1 DEF BootInit
<1>3. ledger \subseteq schema /\ schema \subseteq Migration /\ radar \in Radar
  <2>1. ASSUME NEW k \in Migration PROVE 1 .. k \subseteq Migration
    BY LastMigration
  <2>2. Unguarded \subseteq Migration
    BY BootAssumption
  <2> QED  BY <2>1, <2>2 DEF BootInit, Radar, Repairable
<1>4. bootFaults \in 0 .. BootFaults
  BY BootAssumption DEF BootInit
<1>5. seeded \in BOOLEAN /\ configured \subseteq Booter /\ owner \in {"account", "nobody"} /\ (seeded => owner = "account")
  BY DEF BootInit
<1>6. Fits(Down)
  BY LastMigration DEF Fits, Down
<1> QED  BY <1>2, <1>3, <1>4, <1>5, <1>6 DEF BootSafe, MigrationTypeOK, FilesAreTrue, BootRow

(* The table of processes after a step of one of them. *)
LEMMA BootMoves ==
  ASSUME MigrationTypeOK, NEW p \in Booter
  PROVE  /\ \A s \in Stage : Enter(p, s) =>
              boot' = [boot EXCEPT ![p] = [stage |-> s, next |-> boot[p].next]]
         /\ Exit(p) => boot' = [boot EXCEPT ![p] = [stage |-> "down", next |-> 1]]
         /\ Advance(p) =>
              boot' = [boot EXCEPT ![p] = [stage |-> "look", next |-> boot[p].next + 1]]
BY DEF MigrationTypeOK, Enter, Exit, Advance, Down

(* The files only grow: what fitted before fits after. *)
LEMMA FilesGrow ==
  ASSUME MigrationTypeOK,
         ledger \subseteq ledger', schema \subseteq schema', radar' \in {radar, "healthy"},
         seeded => seeded',
         NEW b, Fits(b)
  PROVE  Fits(b)'
BY DEF Fits

(* A step of one process keeps the invariant if the files stay true and it    *)
(* ends where they allow it.                                                  *)
LEMMA OneProcess ==
  ASSUME BootSafe, NEW p \in Booter, NEW s \in Stage, NEW n \in 1 .. RadarMigration + 1,
         boot' = [boot EXCEPT ![p] = [stage |-> s, next |-> n]],
         schema' \subseteq Migration, ledger \subseteq ledger', schema \subseteq schema',
         FilesAreTrue', radar' \in {radar, "healthy"}, seeded' \in {seeded, TRUE},
         owner' \in {"account", "nobody"}, bootFaults' \in 0 .. BootFaults,
         configured' = configured, Fits([stage |-> s, next |-> n])'
  PROVE  BootSafe'
<1> DEFINE row == [stage |-> s, next |-> n]
<1>1. boot \in [Booter -> BootRow] /\ row \in BootRow
  BY DEF BootSafe, MigrationTypeOK, BootRow
<1>2. boot' \in [Booter -> BootRow] /\ \A q \in Booter : boot'[q] = IF q = p THEN row ELSE boot[q]
  BY <1>1
<1>3. seeded => seeded'
  OBVIOUS
<1>4. ASSUME NEW q \in Booter PROVE Fits(boot[q])'
  <2>1. PICK b : b = boot'[q]
    OBVIOUS
  <2>2. Fits(b)'
    BY <1>2, <1>3, <2>1, FilesGrow DEF BootSafe
  <2> QED  BY <2>1, <2>2 DEF Fits
<1>6. radar' \in Radar /\ seeded' \in BOOLEAN /\ ledger' \subseteq Migration
  BY DEF BootSafe, MigrationTypeOK, Radar, FilesAreTrue
<1> QED  BY <1>2, <1>4, <1>6 DEF BootSafe, MigrationTypeOK, BootRow

LEMMA LookKeeps ==
  ASSUME BootSafe, NEW p \in Booter, Look(p)
  PROVE  BootSafe'
<1> USE LastMigration
<1>m. PICK m \in 1 .. RadarMigration + 1 : m = boot[p].next
  BY DEF BootSafe, MigrationTypeOK
<1>0. /\ MigrationTypeOK /\ FilesAreTrue /\ Fits(boot[p])
      /\ At(p, "look") /\ UNCHANGED <<Files, bootFaults>>
      /\ m \in 1 .. RadarMigration + 1
  BY <1>m DEF BootSafe, Look, MigrationTypeOK
<1>1. /\ schema' \subseteq Migration /\ ledger \subseteq ledger' /\ schema \subseteq schema'
      /\ FilesAreTrue' /\ radar' \in {radar, "healthy"} /\ seeded' \in {seeded, TRUE}
      /\ owner' \in {"account", "nobody"} /\ bootFaults' \in 0 .. BootFaults
      /\ configured' = configured
  BY <1>0 DEF MigrationTypeOK, FilesAreTrue, Files
<1> DEFINE Ends(s, n) == boot' = [boot EXCEPT ![p] = [stage |-> s, next |-> n]]
<1>2. \/ m \notin Migration /\ Ends("count", m)
      \/ m \in Migration \ ledger /\ Ends("apply", m)
      \/ Ends("down", 1)
      \/ m = RadarMigration /\ m \in ledger /\ Ends("repair", m)
      \/ m \in ledger /\ (m = RadarMigration => radar = "healthy") /\ Ends("look", m + 1)
  <2>1. /\ \A s \in Stage : Enter(p, s) => Ends(s, m)
        /\ Exit(p) => Ends("down", 1)
        /\ Advance(p) => Ends("look", m + 1)
    BY <1>0, <1>m, BootMoves
  <2>2. radar \in Repairable \cup {"healthy", "occupied"}
    BY <1>0 DEF MigrationTypeOK, Radar
  <2>3. \/ m \notin Migration /\ Enter(p, "count")
        \/ m \in Migration \ ledger /\ Enter(p, "apply")
        \/ Exit(p)
        \/ m = RadarMigration /\ m \in ledger /\ Enter(p, "repair")
        \/ m \in ledger /\ (m = RadarMigration => radar = "healthy") /\ Advance(p)
    BY <1>m, <2>2 DEF Look
  <2> HIDE DEF Ends
  <2> QED  BY <2>1, <2>3 DEF Stage
<1> HIDE DEF Ends
<1>3. CASE m \notin Migration /\ Ends("count", m)
  <2>1. Fits([stage |-> "count", next |-> m])'
    BY <1>0, <1>m, <1>3 DEF Fits, Files
  <2> QED  BY <1>0, <1>1, <1>3, <2>1, OneProcess DEF Ends, Stage
<1>4. CASE m \in Migration \ ledger /\ Ends("apply", m)
  <2>1. Fits([stage |-> "apply", next |-> m])'
    BY <1>0, <1>m, <1>4 DEF Fits, Files
  <2> QED  BY <1>0, <1>1, <1>4, <2>1, OneProcess DEF Ends, Stage
<1>5. CASE Ends("down", 1)
  <2>1. Fits([stage |-> "down", next |-> 1])'
    BY DEF Fits
  <2>2. 1 \in 1 .. RadarMigration + 1 /\ "down" \in Stage
    BY DEF Stage
  <2> QED  BY <1>0, <1>1, <1>5, <2>1, <2>2, OneProcess DEF Ends
<1>6. CASE m = RadarMigration /\ m \in ledger /\ Ends("repair", m)
  <2>1. Fits([stage |-> "repair", next |-> m])'
    BY <1>0, <1>m, <1>6 DEF Fits, Files
  <2> QED  BY <1>0, <1>1, <1>6, <2>1, OneProcess DEF Ends, Stage
<1>7. CASE m \in ledger /\ (m = RadarMigration => radar = "healthy") /\ Ends("look", m + 1)
  <2>1. m \in Migration
    BY <1>0, <1>7 DEF MigrationTypeOK
  <2>2. Fits([stage |-> "look", next |-> m + 1])'
    BY <1>0, <1>m, <1>7, <2>1 DEF Fits, Files
  <2>3. m + 1 \in 1 .. RadarMigration + 1 /\ "look" \in Stage
    BY <2>1 DEF Stage
  <2> QED  BY <1>0, <1>1, <1>7, <2>2, <2>3, OneProcess DEF Ends
<1> QED  BY <1>2, <1>3, <1>4, <1>5, <1>6, <1>7

(* A migration takes effect, and its ledger row commits with it or follows.   *)
LEMMA ApplyKeeps ==
  ASSUME BootSafe, NEW p \in Booter, Apply(p) \/ Record(p) \/ Repair(p)
  PROVE  BootSafe'
<1> USE LastMigration
<1>m. PICK m \in 1 .. RadarMigration + 1 : m = boot[p].next
  BY DEF BootSafe, MigrationTypeOK
<1> DEFINE Ends(s, n) == boot' = [boot EXCEPT ![p] = [stage |-> s, next |-> n]]
<1>0. /\ MigrationTypeOK /\ FilesAreTrue /\ Fits(boot[p])
      /\ m \in Migration /\ m + 1 \in 1 .. RadarMigration + 1
      /\ UNCHANGED <<seeded, configured, owner, bootFaults>>
  <2>1. boot[p].stage \in {"apply", "record", "repair"}
    BY DEF Apply, Record, Repair, At
  <2> QED  BY <1>m, <2>1 DEF BootSafe, Fits, Apply, Record, Repair, Files
<1>1. /\ owner' \in {"account", "nobody"} /\ bootFaults' \in 0 .. BootFaults
      /\ seeded' \in {seeded, TRUE}
  BY <1>0 DEF MigrationTypeOK
<1>2. /\ \A s \in Stage : Enter(p, s) => Ends(s, m)
      /\ Exit(p) => Ends("down", 1)
      /\ Advance(p) => Ends("look", m + 1)
  BY <1>0, <1>m, BootMoves
<1>3. Fits([stage |-> "down", next |-> 1])'
  BY DEF Fits
<1> HIDE DEF Ends
<1>4. CASE Exit(p) /\ UNCHANGED Files
  <2>1. /\ schema' \subseteq Migration /\ ledger \subseteq ledger' /\ schema \subseteq schema'
        /\ FilesAreTrue' /\ radar' \in {radar, "healthy"}
    BY <1>0, <1>4 DEF Files, MigrationTypeOK, FilesAreTrue
  <2>2. 1 \in 1 .. RadarMigration + 1 /\ "down" \in Stage
    BY DEF Stage
  <2> QED  BY <1>0, <1>1, <1>2, <1>3, <1>4, <2>1, <2>2, OneProcess DEF Ends
<1>5. CASE m \in Unguarded \cap schema /\ Enter(p, "record") /\ UNCHANGED Files
  <2>1. /\ schema' \subseteq Migration /\ ledger \subseteq ledger' /\ schema \subseteq schema'
        /\ FilesAreTrue' /\ radar' \in {radar, "healthy"}
    BY <1>0, <1>5 DEF Files, MigrationTypeOK, FilesAreTrue
  <2>2. Fits([stage |-> "record", next |-> m])'
    BY <1>0, <1>m, <1>5 DEF Fits, Files
  <2> QED  BY <1>0, <1>1, <1>2, <1>5, <2>1, <2>2, OneProcess DEF Ends, Stage
<1>6. CASE /\ schema' = schema \cup {m} /\ ledger' = ledger \cup {m}
           /\ radar' = IF m = RadarMigration THEN "healthy" ELSE radar
           /\ Advance(p)
  <2>1. /\ schema' \subseteq Migration /\ ledger \subseteq ledger' /\ schema \subseteq schema'
        /\ FilesAreTrue' /\ radar' \in {radar, "healthy"}
    BY <1>0, <1>6 DEF MigrationTypeOK, FilesAreTrue
  <2>2. Fits([stage |-> "look", next |-> m + 1])'
    BY <1>0, <1>m, <1>6 DEF Fits
  <2> QED  BY <1>0, <1>1, <1>2, <1>6, <2>1, <2>2, OneProcess DEF Ends, Stage
<1>7. CASE /\ m \in Unguarded \cap schema
           /\ ledger' = ledger \cup {m} /\ Advance(p) /\ UNCHANGED <<schema, radar>>
  <2>1. /\ schema' \subseteq Migration /\ ledger \subseteq ledger' /\ schema \subseteq schema'
        /\ FilesAreTrue' /\ radar' \in {radar, "healthy"}
    BY <1>0, <1>7 DEF MigrationTypeOK, FilesAreTrue
  <2>2. Fits([stage |-> "look", next |-> m + 1])'
    BY <1>0, <1>m, <1>7 DEF Fits
  <2> QED  BY <1>0, <1>1, <1>2, <1>7, <2>1, <2>2, OneProcess DEF Ends, Stage
<1>8. CASE Repair(p)
  <2>1. m = RadarMigration /\ RadarMigration \in ledger
    BY <1>0, <1>m, <1>8 DEF Repair, At, Fits
  <2>2. /\ schema' \subseteq Migration /\ ledger \subseteq ledger' /\ schema \subseteq schema'
        /\ FilesAreTrue' /\ radar' = "healthy" /\ Advance(p)
    BY <1>0, <1>8 DEF Repair, MigrationTypeOK, FilesAreTrue
  <2>3. Fits([stage |-> "look", next |-> m + 1])'
    BY <1>0, <1>m, <1>8, <2>1, <2>2 DEF Fits, Repair
  <2> QED  BY <1>0, <1>1, <1>2, <2>2, <2>3, OneProcess DEF Ends, Stage
<1>9. CASE Apply(p)
  BY <1>m, <1>4, <1>5, <1>6, <1>9 DEF Apply
<1>10. CASE Record(p)
  <2>1. m \in Unguarded \cap schema
    BY <1>0, <1>m, <1>10 DEF Record, At, Fits
  <2>2. UNCHANGED <<schema, radar, seeded, configured, owner>>
    BY <1>10 DEF Record
  <2>3. CASE Exit(p) /\ UNCHANGED ledger
    BY <1>4, <2>2, <2>3 DEF Files
  <2>4. CASE ledger' = ledger \cup {m} /\ Advance(p)
    BY <1>7, <2>1, <2>2, <2>4
  <2> QED  BY <1>m, <1>10, <2>3, <2>4 DEF Record
<1> QED  BY <1>8, <1>9, <1>10

(* The first account, the start and the end of a process. *)
LEMMA AccountKeeps ==
  ASSUME BootSafe, NEW p \in Booter, Start(p) \/ Count(p) \/ Seed(p) \/ BootFails(p)
  PROVE  BootSafe'
<1> USE LastMigration
<1>m. PICK m \in 1 .. RadarMigration + 1 : m = boot[p].next
  BY DEF BootSafe, MigrationTypeOK
<1> DEFINE Ends(s, n) == boot' = [boot EXCEPT ![p] = [stage |-> s, next |-> n]]
<1>0. /\ MigrationTypeOK /\ FilesAreTrue /\ Fits(boot[p])
      /\ m \in 1 .. RadarMigration + 1
      /\ UNCHANGED <<schema, ledger, radar, configured>>
  BY <1>m DEF BootSafe, MigrationTypeOK, Start, Count, Seed, BootFails, Files
<1>1. /\ schema' \subseteq Migration /\ ledger \subseteq ledger' /\ schema \subseteq schema'
      /\ radar' \in {radar, "healthy"}
  BY <1>0 DEF MigrationTypeOK
<1>2. /\ seeded' \in {seeded, TRUE} /\ owner' \in {"account", "nobody"} /\ FilesAreTrue'
  <2>1. \/ UNCHANGED <<seeded, owner>>
        \/ seeded' = TRUE /\ owner' = "account"
    BY DEF Start, Count, Seed, BootFails, Files
  <2>2. seeded \in BOOLEAN /\ owner \in {"account", "nobody"}
    BY <1>0 DEF MigrationTypeOK
  <2>3. CASE UNCHANGED <<seeded, owner>>
    BY <1>0, <2>2, <2>3 DEF FilesAreTrue
  <2>4. CASE seeded' = TRUE /\ owner' = "account"
    BY <1>0, <2>4 DEF FilesAreTrue
  <2> QED  BY <2>1, <2>3, <2>4
<1>3. bootFaults' \in 0 .. BootFaults
  BY <1>0, BootAssumption DEF MigrationTypeOK, Start, Count, Seed, BootFails
<1>4. /\ \A s \in Stage : Enter(p, s) => Ends(s, m)
      /\ Exit(p) => Ends("down", 1)
  BY <1>0, <1>m, BootMoves
<1> HIDE DEF Ends
<1>5. CASE Exit(p)
  <2>1. Fits([stage |-> "down", next |-> 1])'
    BY DEF Fits
  <2>2. 1 \in 1 .. RadarMigration + 1 /\ "down" \in Stage
    BY DEF Stage
  <2> QED  BY <1>0, <1>1, <1>2, <1>3, <1>4, <1>5, <2>1, <2>2, OneProcess DEF Ends
<1>6. CASE Start(p)
  <2>1. Fits([stage |-> "look", next |-> m])'
    BY <1>0, <1>m DEF Fits
  <2> QED  BY <1>0, <1>1, <1>2, <1>3, <1>4, <1>6, <2>1, OneProcess DEF Ends, Stage, Start
<1>7. CASE Count(p)
  <2>1. PICK s \in {"serving", "seed"} : Enter(p, s) /\ (s = "serving" => seeded) /\ UNCHANGED seeded
    BY <1>7 DEF Count, Files
  <2>2. Fits([stage |-> s, next |-> m])'
    BY <1>0, <1>m, <1>7, <2>1 DEF Fits, Count, At
  <2>3. s \in Stage
    BY <2>1 DEF Stage
  <2> QED  BY <1>0, <1>1, <1>2, <1>3, <1>4, <2>1, <2>2, <2>3, OneProcess DEF Ends
<1>8. CASE Seed(p) /\ Enter(p, "serving") /\ seeded' = TRUE
  <2>1. Fits([stage |-> "serving", next |-> m])'
    BY <1>0, <1>m, <1>8 DEF Fits, Seed, At
  <2> QED  BY <1>0, <1>1, <1>2, <1>3, <1>4, <1>8, <2>1, OneProcess DEF Ends, Stage
<1> QED  BY <1>5, <1>6, <1>7, <1>8 DEF Seed, BootFails

LEMMA BootStepKeeps == BootSafe /\ [MigrationNext]_bootVars => BootSafe'
<1> SUFFICES ASSUME BootSafe, [MigrationNext]_bootVars PROVE BootSafe'
  OBVIOUS
<1>1. CASE UNCHANGED bootVars
  BY <1>1 DEF bootVars, BootSafe, MigrationTypeOK, FilesAreTrue, Fits
<1>2. CASE MigrationNext
  BY <1>2, LookKeeps, ApplyKeeps, AccountKeeps DEF MigrationNext, BootStep
<1> QED  BY <1>1, <1>2

LEMMA BootServes == BootSafe => ServingIsMigrated
<1> SUFFICES ASSUME BootSafe, NEW p \in Booter, At(p, "serving")
             PROVE  /\ schema = Migration /\ ledger = Migration /\ radar = "healthy"
                    /\ seeded /\ owner = "account"
  BY DEF ServingIsMigrated
<1>1. /\ boot[p].next = RadarMigration + 1 /\ radar = "healthy" /\ seeded
      /\ \A m \in Migration : m < boot[p].next => m \in ledger
  BY DEF BootSafe, Fits, At
<1>2. \A m \in Migration : m < RadarMigration + 1
  BY LastMigration
<1> QED  BY <1>1, <1>2 DEF BootSafe, MigrationTypeOK, FilesAreTrue

(* Types of the boot, for any processes and any number of migrations. *)
THEOREM BootTypes == MigrationSpec => []MigrationTypeOK
<1>1. BootSafe => MigrationTypeOK
  BY DEF BootSafe
<1> QED  BY <1>1, BootStart, BootStepKeeps, PTL DEF MigrationSpec

(* Whoever serves, serves from a migrated file, whatever crashed or raced.   *)
THEOREM ServingHolds == MigrationSpec => []ServingIsMigrated
BY BootStart, BootStepKeeps, BootServes, PTL DEF MigrationSpec

------------------------------------------------------------------------------
(* The event log of the Hermes jobs *)

(* A sequence with one more element at a place. *)
LEMMA Inserted ==
  ASSUME NEW S, NEW s \in Seq(S), NEW x \in S, NEW k \in 0 .. Len(s)
  PROVE  /\ InsertAt(s, k + 1, x) \in Seq(S)
         /\ ToSet(InsertAt(s, k + 1, x)) = ToSet(s) \cup {x}
<1> DEFINE before == SubSeq(s, 1, k)
           after == SubSeq(s, k + 1, Len(s))
           r == InsertAt(s, k + 1, x)
<1>0. Len(s) \in Nat /\ k \in Nat /\ k <= Len(s) /\ \A i \in 1 .. Len(s) : s[i] \in S
  BY LenProperties, ElementOfSeq
<1>1. /\ before \in Seq(S) /\ Len(before) = k
      /\ \A i \in 1 .. k : before[i] = s[i]
  <2>1. /\ before \in Seq(S) /\ Len(before) = IF 1 <= k THEN k - 1 + 1 ELSE 0
        /\ \A i \in 1 .. k - 1 + 1 : before[i] = s[1 + i - 1]
    BY <1>0, SubSeqProperties
  <2> QED  BY <1>0, <2>1
<1>2. /\ after \in Seq(S) /\ Len(after) = Len(s) - k
      /\ \A i \in 1 .. Len(s) - k : after[i] = s[k + i]
  <2>1. /\ after \in Seq(S)
        /\ Len(after) = IF k + 1 <= Len(s) THEN Len(s) - (k + 1) + 1 ELSE 0
        /\ \A i \in 1 .. Len(s) - (k + 1) + 1 : after[i] = s[k + 1 + i - 1]
    BY <1>0, SubSeqProperties
  <2> QED  BY <1>0, <2>1
<1>3. /\ <<x>> \in Seq(S) /\ Len(<<x>>) = 1 /\ <<x>>[1] = x
  OBVIOUS
<1>4. r = before \o <<x>> \o after
  <2>1. (k + 1) - 1 = k
    BY <1>0
  <2> QED  BY <2>1, Zenon DEF InsertAt
<1> HIDE DEF before, after, r
<1>5. /\ before \o <<x>> \in Seq(S) /\ Len(before \o <<x>>) = k + 1
      /\ \A i \in 1 .. k + 1 : (before \o <<x>>)[i] = IF i <= k THEN s[i] ELSE x
  <2>1. /\ before \o <<x>> \in Seq(S) /\ Len(before \o <<x>>) = Len(before) + Len(<<x>>)
        /\ \A i \in 1 .. Len(before) + Len(<<x>>) : (before \o <<x>>)[i]
             = IF i <= Len(before) THEN before[i] ELSE <<x>>[i - Len(before)]
    BY <1>1, <1>3, ConcatProperties
  <2> QED  BY <1>0, <1>1, <1>3, <2>1
<1>6. /\ r \in Seq(S) /\ Len(r) = Len(s) + 1
      /\ \A i \in 1 .. Len(s) + 1 :
           r[i] = IF i <= k THEN s[i] ELSE IF i = k + 1 THEN x ELSE s[i - 1]
  <2>1. /\ r \in Seq(S) /\ Len(r) = Len(before \o <<x>>) + Len(after)
        /\ \A i \in 1 .. Len(before \o <<x>>) + Len(after) : r[i]
             = IF i <= Len(before \o <<x>>) THEN (before \o <<x>>)[i]
               ELSE after[i - Len(before \o <<x>>)]
    BY <1>2, <1>4, <1>5, ConcatProperties
  <2>2. Len(r) = Len(s) + 1
    <3>1. Len(r) = (k + 1) + (Len(s) - k)
      BY <1>2, <1>5, <2>1, Zenon
    <3>2. (k + 1) + (Len(s) - k) = Len(s) + 1
      BY <1>0
    <3> QED  BY <3>1, <3>2
  <2>3. ASSUME NEW i \in 1 .. Len(s) + 1
        PROVE  r[i] = IF i <= k THEN s[i] ELSE IF i = k + 1 THEN x ELSE s[i - 1]
    <3>1. CASE i <= k + 1
      <4>1. i \in 1 .. k + 1 /\ i \in 1 .. Len(before \o <<x>>) + Len(after)
        BY <1>0, <1>2, <1>5, <3>1
      <4>2. r[i] = (before \o <<x>>)[i]
        BY <1>5, <2>1, <3>1, <4>1
      <4> QED  BY <1>0, <1>5, <3>1, <4>1, <4>2
    <3>2. CASE i > k + 1
      <4>1. i - (k + 1) \in 1 .. Len(s) - k /\ k + (i - (k + 1)) = i - 1
        BY <1>0, <3>2
      <4>2. r[i] = after[i - (k + 1)]
        BY SMTT(30), <1>0, <1>2, <1>5, <2>1, <3>2
      <4> QED  BY SMTT(30), <1>0, <1>2, <3>2, <4>1, <4>2
    <3> QED  BY <1>0, <3>1, <3>2
  <2> QED  BY <2>1, <2>2, <2>3
<1>7. /\ ToSet(r) = {r[i] : i \in 1 .. Len(s) + 1}
      /\ ToSet(s) = {s[i] : i \in 1 .. Len(s)}
  BY <1>6, LenProperties DEF ToSet
<1>8. ToSet(r) \subseteq ToSet(s) \cup {x}
  <2> SUFFICES ASSUME NEW i \in 1 .. Len(s) + 1 PROVE r[i] = x \/ \E j \in 1 .. Len(s) : r[i] = s[j]
    BY <1>7
  <2> QED  BY SMTT(30), <1>0, <1>6
<1>9. ToSet(s) \cup {x} \subseteq ToSet(r)
  <2>1. x \in ToSet(r)
    <3>1. k + 1 \in 1 .. Len(s) + 1 /\ ~(k + 1 <= k)
      BY <1>0
    <3>2. r[k + 1] = x
      BY <1>6, <3>1
    <3> QED  BY <1>7, <3>1, <3>2
  <2>2. ASSUME NEW j \in 1 .. Len(s) PROVE s[j] \in ToSet(r)
    <3>1. \E i \in 1 .. Len(s) + 1 : r[i] = s[j]
      <4>1. CASE j <= k
        BY <1>0, <1>6, <4>1
      <4>2. CASE j > k
        <5>1. j + 1 \in 1 .. Len(s) + 1 /\ ~(j + 1 <= k) /\ j + 1 # k + 1 /\ (j + 1) - 1 = j
          BY <1>0, <4>2
        <5> QED  BY <1>6, <5>1
      <4> QED  BY <1>0, <4>1, <4>2
    <3> QED  BY <1>7, <3>1
  <2> QED  BY <1>7, <2>1, <2>2
<1> QED  BY <1>6, <1>8, <1>9 DEF r

(* It is one longer. *)
LEMMA InsertedLength ==
  ASSUME NEW S, NEW s \in Seq(S), NEW x \in S, NEW k \in 0 .. Len(s)
  PROVE  Len(InsertAt(s, k + 1, x)) = Len(s) + 1
<1> DEFINE before == SubSeq(s, 1, k)
           after == SubSeq(s, k + 1, Len(s))
<1>0. Len(s) \in Nat /\ k \in Nat /\ k <= Len(s)
  BY LenProperties
<1>1. before \in Seq(S) /\ Len(before) = k
  <2>1. before \in Seq(S) /\ Len(before) = IF 1 <= k THEN k - 1 + 1 ELSE 0
    BY <1>0, SubSeqProperties
  <2> QED  BY <1>0, <2>1
<1>2. after \in Seq(S) /\ Len(after) = Len(s) - k
  <2>1. after \in Seq(S) /\ Len(after) = IF k + 1 <= Len(s) THEN Len(s) - (k + 1) + 1 ELSE 0
    BY <1>0, SubSeqProperties
  <2> QED  BY <1>0, <2>1
<1>3. <<x>> \in Seq(S) /\ Len(<<x>>) = 1
  OBVIOUS
<1>4. InsertAt(s, k + 1, x) = before \o <<x>> \o after
  <2>1. (k + 1) - 1 = k
    BY <1>0
  <2> QED  BY <2>1, Zenon DEF InsertAt
<1> HIDE DEF before, after
<1>5. before \o <<x>> \in Seq(S) /\ Len(before \o <<x>>) = k + 1
  BY <1>1, <1>3, ConcatProperties
<1>6. Len((before \o <<x>>) \o after) = Len(before \o <<x>>) + Len(after)
  BY <1>2, <1>5, ConcatProperties
<1>7. Len(InsertAt(s, k + 1, x)) = (k + 1) + (Len(s) - k)
  BY <1>2, <1>4, <1>5, <1>6, Zenon
<1> QED  BY <1>0, <1>7

(* A drafted event is the one its adapter waits for, in its own process.      *)
DraftsFit ==
  \A p \in Process : writing[p] # NoEvent =>
    Runner[writing[p].job] = p /\ step[writing[p].job] = writing[p].kind

(* The numbers of a job's events do not exceed how many there are.            *)
Numbered ==
  \A j \in HermesJob :
    /\ IsFiniteSet(EventsOf(j))
    /\ \A e \in EventsOf(j) : e.seq <= Cardinality(EventsOf(j))

Ended(j, kind) ==
  \E e \in EventsOf(j) : e.kind = kind /\ \A f \in EventsOf(j) \ {e} : f.seq < e.seq

(* A job is closed only by the adapter that just saw the event stored that    *)
(* says how it ended, and nothing is stored for it afterwards.                *)
Outcomes ==
  \A j \in HermesJob :
    /\ hermesJobs[j] = "none" => step[j] = "new"
    /\ hermesJobs[j] \in {"done", "failed"} => step[j] = "end"
    /\ hermesJobs[j] = "done" \/ (hermesJobs[j] = "running" /\ step[j] = "done")
         => Ended(j, "completed")
    /\ hermesJobs[j] = "failed" \/ (hermesJobs[j] = "running" /\ step[j] = "error")
         => Ended(j, "failed")

LogSafe == HermesTypeOK /\ DraftsFit /\ Numbered /\ Outcomes

LEMMA LastIsTop ==
  ASSUME NEW j \in HermesJob, NEW kind, log \in Seq(Event), Ended(j, kind)
  PROVE  LastOf(j).kind = kind
<1>1. PICK e \in EventsOf(j) : e.kind = kind /\ \A f \in EventsOf(j) \ {e} : f.seq < e.seq
  BY DEF Ended
<1>2. \A f \in EventsOf(j) : f.seq \in Nat
  <2>1. \A i \in DOMAIN log : log[i] \in Event
    BY ElementOfSeq, LenProperties
  <2> QED  BY <2>1 DEF EventsOf, ToSet, Event
<1>3. \A f \in EventsOf(j) : f.seq <= e.seq
  BY <1>1, <1>2
<1>4. /\ LastOf(j) \in EventsOf(j)
      /\ \A f \in EventsOf(j) : f.seq <= LastOf(j).seq
  BY <1>3 DEF LastOf
<1>5. LastOf(j) = e
  <2>1. LastOf(j).seq \in Nat /\ e.seq \in Nat /\ e.seq <= LastOf(j).seq
    BY <1>2, <1>4
  <2>2. LastOf(j) # e => LastOf(j).seq < e.seq
    BY <1>1, <1>4
  <2> QED  BY <2>1, <2>2
<1> QED  BY <1>1, <1>5

LEMMA LogStart == HermesInit => LogSafe
<1> SUFFICES ASSUME HermesInit PROVE LogSafe
  OBVIOUS
<1>1. \A j \in HermesJob : EventsOf(j) = {}
  BY DEF HermesInit, EventsOf, ToSet
<1>2. Numbered
  BY <1>1, FS_EmptySet DEF Numbered
<1>3. HermesTypeOK
  <2>1. ms \in 0 .. LastMs
    BY HermesAssumption DEF HermesInit
  <2> QED  BY <2>1 DEF HermesInit, HermesTypeOK, Followed, HermesStatus
<1>4. DraftsFit /\ Outcomes
  BY DEF HermesInit, DraftsFit, Outcomes
<1> QED  BY <1>2, <1>3, <1>4 DEF LogSafe

(* The log stays: a step moves one job that has no draft, or drafts for it.   *)
LEMMA OneJobMoves ==
  ASSUME LogSafe, NEW j \in HermesJob, NEW s \in Followed, NEW h \in HermesStatus,
         log' = log, ms' \in 0 .. LastMs, writing' = writing,
         step' = [step EXCEPT ![j] = s], hermesJobs' = [hermesJobs EXCEPT ![j] = h],
         step[j] \notin LogKind,
         h = "none" => s = "new",
         h \in {"done", "failed"} => s = "end",
         h = "done" \/ (h = "running" /\ s = "done") => Ended(j, "completed"),
         h = "failed" \/ (h = "running" /\ s = "error") => Ended(j, "failed")
  PROVE  LogSafe'
<1>1. HermesTypeOK'
  BY DEF LogSafe, HermesTypeOK
<1>2. \A k \in HermesJob : /\ step'[k] = IF k = j THEN s ELSE step[k]
                           /\ hermesJobs'[k] = IF k = j THEN h ELSE hermesJobs[k]
                           /\ EventsOf(k)' = EventsOf(k)
  BY DEF LogSafe, HermesTypeOK, EventsOf
<1>3. DraftsFit'
  <2> SUFFICES ASSUME NEW p \in Process, writing[p] # NoEvent
               PROVE  Runner[writing[p].job] = p /\ step'[writing[p].job] = writing[p].kind
    BY DEF DraftsFit
  <2>1. writing[p] \in Draft
    BY DEF LogSafe, HermesTypeOK
  <2>2. writing[p].job \in HermesJob /\ writing[p].kind \in LogKind
    BY <2>1 DEF Draft
  <2> QED  BY <1>2, <2>2 DEF LogSafe, DraftsFit
<1>4. Numbered'
  BY <1>2 DEF LogSafe, Numbered
<1>5. Outcomes'
  <2>1. \A k \in HermesJob, kind \in LogKind : Ended(k, kind)' <=> Ended(k, kind)
    BY <1>2 DEF Ended
  <2> QED  BY <1>2, <2>1 DEF LogSafe, Outcomes, LogKind
<1> QED  BY <1>1, <1>3, <1>4, <1>5 DEF LogSafe

LEMMA AdaptersKeep ==
  ASSUME LogSafe, NEW j \in HermesJob,
         \/ CreateHermesJob(j) \/ CloseHermesJob(j) \/ CloseFails(j)
         \/ \E ok \in BOOLEAN : RuntimeAnswers(j, ok)
  PROVE  LogSafe'
<1>0. /\ log' = log /\ ms' \in 0 .. LastMs /\ writing' = writing
      /\ hermesJobs[j] \in HermesStatus /\ step[j] \in Followed
      /\ step \in [HermesJob -> Followed] /\ hermesJobs \in [HermesJob -> HermesStatus]
  BY DEF LogSafe, HermesTypeOK, CreateHermesJob, CloseHermesJob, CloseFails, RuntimeAnswers
<1>1. /\ hermesJobs[j] = "none" => step[j] = "new"
      /\ hermesJobs[j] \in {"done", "failed"} => step[j] = "end"
      /\ hermesJobs[j] = "running" /\ step[j] = "done" => Ended(j, "completed")
      /\ hermesJobs[j] = "running" /\ step[j] = "error" => Ended(j, "failed")
  BY DEF LogSafe, Outcomes
<1>2. CASE CreateHermesJob(j)
  <2>1. /\ step' = [step EXCEPT ![j] = "started"]
        /\ hermesJobs' = [hermesJobs EXCEPT ![j] = "running"]
        /\ step[j] \notin LogKind
    BY <1>2 DEF CreateHermesJob, LogKind
  <2> QED  BY <1>0, <2>1, OneJobMoves DEF Followed, HermesStatus
<1>3. CASE \E ok \in BOOLEAN : RuntimeAnswers(j, ok)
  <2>1. PICK s \in {"failed", "runtime", "completed"} : step' = [step EXCEPT ![j] = s]
    BY <1>3 DEF RuntimeAnswers
  <2>2. /\ hermesJobs' = [hermesJobs EXCEPT ![j] = hermesJobs[j]]
        /\ step[j] \notin LogKind /\ hermesJobs[j] \notin {"none", "done", "failed"}
    BY <1>0, <1>1, <1>3 DEF RuntimeAnswers, LogKind
  <2>3. s \in Followed /\ s \notin {"done", "error"}
    BY <2>1 DEF Followed
  <2> QED  BY <1>0, <2>1, <2>2, <2>3, OneJobMoves
<1>4. CASE CloseFails(j)
  <2>1. PICK s \in {"failed", "dead"} : step' = [step EXCEPT ![j] = s]
    BY <1>4 DEF CloseFails
  <2>2. /\ hermesJobs' = [hermesJobs EXCEPT ![j] = hermesJobs[j]]
        /\ step[j] \notin LogKind /\ hermesJobs[j] \notin {"none", "done", "failed"}
    BY <1>0, <1>1, <1>4 DEF CloseFails, LogKind
  <2>3. s \in Followed /\ s \notin {"done", "error"}
    BY <2>1 DEF Followed
  <2> QED  BY <1>0, <2>1, <2>2, <2>3, OneJobMoves
<1>5. CASE CloseHermesJob(j)
  <2> DEFINE h == IF hermesJobs[j] = "gone" THEN "gone"
                  ELSE IF step[j] = "done" THEN "done" ELSE "failed"
  <2>1. /\ step' = [step EXCEPT ![j] = "end"] /\ hermesJobs' = [hermesJobs EXCEPT ![j] = h]
        /\ step[j] \in {"done", "error"} /\ step[j] \notin LogKind
    BY <1>5 DEF CloseHermesJob, LogKind
  <2>2. hermesJobs[j] \in {"running", "gone"}
    BY <1>0, <1>1, <2>1 DEF HermesStatus
  <2>3. /\ h \in {"gone", "done", "failed"}
        /\ h = "done" => Ended(j, "completed")
        /\ h = "failed" => Ended(j, "failed")
    BY <1>1, <2>1, <2>2
  <2> HIDE DEF h
  <2>4. h \in HermesStatus /\ "end" \in Followed
    BY <2>3 DEF HermesStatus, Followed
  <2> QED  BY <1>0, <2>1, <2>3, <2>4, OneJobMoves
<1> QED  BY <1>2, <1>3, <1>4, <1>5

(* What is said of the log, when it and the jobs stay as they are.            *)
LEMMA SameLog ==
  ASSUME UNCHANGED log
  PROVE  /\ \A j \in HermesJob : EventsOf(j)' = EventsOf(j)
         /\ Numbered => Numbered'
         /\ \A j \in HermesJob, kind \in LogKind : Ended(j, kind) => Ended(j, kind)'
BY DEF EventsOf, Numbered, Ended

LEMMA DrawKeeps ==
  ASSUME LogSafe, NEW j \in HermesJob, RecordEvent(j)
  PROVE  LogSafe'
<1>1. PICK kind \in LogKind :
        /\ step[j] = kind /\ writing[Runner[j]] = NoEvent
        /\ writing' = [writing EXCEPT ![Runner[j]] = [job |-> j, kind |-> kind, at |-> ms]]
        /\ UNCHANGED <<ms, hermesJobs, step, log>>
  BY DEF RecordEvent, Draw
<1>2. Runner[j] \in Process /\ [job |-> j, kind |-> kind, at |-> ms] \in Draft
  BY HermesAssumption DEF LogSafe, HermesTypeOK, Draft
<1>3. HermesTypeOK'
  BY <1>1, <1>2 DEF LogSafe, HermesTypeOK
<1>4. DraftsFit'
  BY <1>1, <1>2 DEF LogSafe, HermesTypeOK, DraftsFit
<1>5. Numbered' /\ Outcomes'
  BY <1>1, SameLog DEF LogSafe, Outcomes, LogKind
<1> QED  BY <1>3, <1>4, <1>5 DEF LogSafe

(* The event of process p is stored, or is not.                               *)
LEMMA Proceeded ==
  ASSUME LogSafe, NEW p \in Process, NEW stored \in BOOLEAN, writing[p] # NoEvent,
         Proceed(writing[p].job, writing[p].kind, stored)
  PROVE  \E w \in Draft :
           /\ w = writing[p] /\ w.job \in HermesJob /\ w.kind \in LogKind
           /\ hermesJobs[w.job] \in {"running", "gone"}
           /\ step' \in [HermesJob -> Followed] /\ writing' \in [Process -> Draft \cup {NoEvent}]
           /\ \A k \in HermesJob : k # w.job => step'[k] = step[k]
           /\ DraftsFit'
           /\ step'[w.job] = "done" => stored = TRUE /\ w.kind = "completed"
           /\ step'[w.job] = "error" => stored = TRUE /\ w.kind = "failed"
<1>1. PICK w \in Draft : w = writing[p]
  BY DEF LogSafe, HermesTypeOK
<1>2. w.job \in HermesJob /\ w.kind \in LogKind /\ Runner[w.job] = p /\ step[w.job] = w.kind
  BY <1>1 DEF Draft, LogSafe, DraftsFit
<1>3. hermesJobs[w.job] \in {"running", "gone"}
  BY <1>2 DEF LogSafe, HermesTypeOK, Outcomes, HermesStatus, LogKind
<1>4. /\ Follows(w.job, w.kind, stored) \in Followed
      /\ Follows(w.job, w.kind, stored) = "done" => stored = TRUE /\ w.kind = "completed"
      /\ Follows(w.job, w.kind, stored) = "error" => stored = TRUE /\ w.kind = "failed"
  BY <1>2 DEF Follows, Followed, LogKind
<1>5. /\ step' \in [HermesJob -> Followed]
      /\ \A k \in HermesJob : step'[k] = IF k = w.job THEN Follows(w.job, w.kind, stored)
                                        ELSE step[k]
  BY <1>1, <1>2, <1>4 DEF LogSafe, HermesTypeOK, Proceed
<1>6. /\ writing' \in [Process -> Draft \cup {NoEvent}]
      /\ \A q \in Process : writing'[q] = IF q = p THEN NoEvent ELSE writing[q]
  BY <1>1, <1>2 DEF LogSafe, HermesTypeOK, Proceed
<1>7. DraftsFit'
  <2> SUFFICES ASSUME NEW q \in Process, writing'[q] # NoEvent
               PROVE  Runner[writing'[q].job] = q /\ step'[writing'[q].job] = writing'[q].kind
    BY DEF DraftsFit
  <2>1. q # p /\ writing'[q] = writing[q] /\ writing[q] # NoEvent
    BY <1>6
  <2>2. writing[q] \in Draft /\ Runner[writing[q].job] = q /\ step[writing[q].job] = writing[q].kind
    BY <2>1 DEF LogSafe, HermesTypeOK, DraftsFit
  <2>3. writing[q].job \in HermesJob /\ writing[q].job # w.job
    BY <1>2, <2>1, <2>2 DEF Draft
  <2> QED  BY <1>5, <2>1, <2>2, <2>3
<1> QED  BY <1>1, <1>2, <1>3, <1>4, <1>5, <1>6, <1>7

LEMMA NotStoredKeeps ==
  ASSUME LogSafe, NEW p \in Process, CommitRefused(p) \/ CommitFails(p)
  PROVE  LogSafe'
<1>1. /\ writing[p] # NoEvent /\ Proceed(writing[p].job, writing[p].kind, FALSE)
      /\ UNCHANGED <<ms, hermesJobs, log>>
  BY DEF CommitRefused, CommitFails
<1>2. PICK w \in Draft :
           /\ w = writing[p] /\ w.job \in HermesJob /\ w.kind \in LogKind
           /\ hermesJobs[w.job] \in {"running", "gone"}
           /\ step' \in [HermesJob -> Followed] /\ writing' \in [Process -> Draft \cup {NoEvent}]
           /\ \A k \in HermesJob : k # w.job => step'[k] = step[k]
           /\ DraftsFit'
           /\ step'[w.job] \notin {"done", "error"}
  BY <1>1, Proceeded
<1>3. HermesTypeOK'
  BY <1>1, <1>2 DEF LogSafe, HermesTypeOK
<1>4. Numbered' /\ Outcomes'
  BY <1>1, <1>2, SameLog DEF LogSafe, Outcomes, LogKind
<1> QED  BY <1>2, <1>3, <1>4 DEF LogSafe

(* The event gets the next number of its job: it is the job's last one.       *)
LEMMA StoredKeeps ==
  ASSUME LogSafe, NEW p \in Process, CommitEvent(p)
  PROVE  LogSafe'
<1>1. /\ writing[p] # NoEvent /\ Proceed(writing[p].job, writing[p].kind, TRUE)
      /\ UNCHANGED <<ms, hermesJobs>>
  BY DEF CommitEvent
<1>2. PICK w \in Draft :
           /\ w = writing[p] /\ w.job \in HermesJob /\ w.kind \in LogKind
           /\ hermesJobs[w.job] \in {"running", "gone"}
           /\ step' \in [HermesJob -> Followed] /\ writing' \in [Process -> Draft \cup {NoEvent}]
           /\ \A k \in HermesJob : k # w.job => step'[k] = step[k]
           /\ DraftsFit'
           /\ step'[w.job] = "done" => w.kind = "completed"
           /\ step'[w.job] = "error" => w.kind = "failed"
  BY <1>1, Proceeded
<1>3. /\ IsFiniteSet(EventsOf(w.job)) /\ Cardinality(EventsOf(w.job)) \in Nat
      /\ \A e \in EventsOf(w.job) : e.seq <= Cardinality(EventsOf(w.job))
  BY <1>2, FS_CardinalityType DEF LogSafe, Numbered
<1>4. PICK n \in Nat : n = Cardinality(EventsOf(w.job))
  BY <1>3
<1>5. PICK x \in Event : x = [job |-> w.job, seq |-> n + 1, kind |-> w.kind, at |-> w.at]
  <2>1. n + 1 \in Nat \ {0}
    BY <1>4
  <2>2. w.at \in 0 .. LastMs
    BY <1>2 DEF Draft
  <2> QED  BY <1>2, <2>1, <2>2 DEF Event
<1>6. PICK k \in 0 .. Len(log) : log' = InsertAt(log, k + 1, x)
  BY <1>2, <1>4, <1>5 DEF CommitEvent, Places
<1>7. log' \in Seq(Event) /\ ToSet(log') = ToSet(log) \cup {x}
  <2>1. log \in Seq(Event)
    BY DEF LogSafe, HermesTypeOK
  <2>2. /\ InsertAt(log, k + 1, x) \in Seq(Event)
        /\ ToSet(InsertAt(log, k + 1, x)) = ToSet(log) \cup {x}
    <3>1. x \in Event /\ k \in 0 .. Len(log)
      OBVIOUS
    <3> QED  BY <2>1, <3>1, Inserted
  <2> QED  BY <1>6, <2>2
<1>8. /\ \A j \in HermesJob : j # w.job => EventsOf(j)' = EventsOf(j)
      /\ EventsOf(w.job)' = EventsOf(w.job) \cup {x}
      /\ x.seq = n + 1 /\ x.kind = w.kind
  BY <1>5, <1>7 DEF EventsOf
<1>9. \A e \in EventsOf(w.job) : e.seq \in Nat /\ e.seq < n + 1
  <2>1. \A i \in DOMAIN log : log[i] \in Event
    BY ElementOfSeq, LenProperties DEF LogSafe, HermesTypeOK
  <2>2. \A e \in EventsOf(w.job) : e.seq \in Nat
    BY <2>1 DEF EventsOf, ToSet, Event
  <2>3. \A e \in EventsOf(w.job) : e.seq <= n
    BY <1>3, <1>4
  <2> QED  BY <2>2, <2>3
<1>10. x \notin EventsOf(w.job)
  BY <1>8, <1>9
<1>11. /\ IsFiniteSet(EventsOf(w.job) \cup {x})
       /\ Cardinality(EventsOf(w.job) \cup {x}) = n + 1
  BY <1>3, <1>4, <1>10, FS_AddElement
<1>12. Numbered'
  <2> SUFFICES ASSUME NEW j \in HermesJob
               PROVE  /\ IsFiniteSet(EventsOf(j)')
                      /\ \A e \in EventsOf(j)' : e.seq <= Cardinality(EventsOf(j)')
    BY DEF Numbered
  <2>1. CASE j # w.job
    BY <1>8, <2>1 DEF LogSafe, Numbered
  <2>2. CASE j = w.job
    <3>1. EventsOf(j)' = EventsOf(w.job) \cup {x} /\ Cardinality(EventsOf(j)') = n + 1
      BY <1>8, <1>11, <2>2
    <3>2. \A e \in EventsOf(w.job) \cup {x} : e.seq <= n + 1
      BY <1>8, <1>9
    <3> QED  BY <1>11, <3>1, <3>2
  <2> QED  BY <2>1, <2>2
<1>13. Ended(w.job, w.kind)'
  BY <1>8, <1>9 DEF Ended
<1>14. Outcomes'
  <2> SUFFICES ASSUME NEW j \in HermesJob
               PROVE  /\ hermesJobs[j] = "none" => step'[j] = "new"
                      /\ hermesJobs[j] \in {"done", "failed"} => step'[j] = "end"
                      /\ hermesJobs[j] = "done" \/ (hermesJobs[j] = "running" /\ step'[j] = "done")
                           => Ended(j, "completed")'
                      /\ hermesJobs[j] = "failed" \/ (hermesJobs[j] = "running" /\ step'[j] = "error")
                           => Ended(j, "failed")'
    BY <1>1 DEF Outcomes
  <2>1. CASE j # w.job
    <3>1. \A kind \in LogKind : Ended(j, kind) => Ended(j, kind)'
      BY <1>8, <2>1 DEF Ended
    <3> QED  BY <1>2, <2>1, <3>1 DEF LogSafe, Outcomes, LogKind
  <2>2. CASE j = w.job
    BY <1>2, <1>13, <2>2
  <2> QED  BY <2>1, <2>2
<1> QED  BY <1>1, <1>2, <1>7, <1>12, <1>14 DEF LogSafe, HermesTypeOK

(* A process dies, the brief is deleted, time passes, a browser reads.        *)
LEMMA OthersKeepLog ==
  ASSUME LogSafe,
         \/ \E p \in Process : ProcessDies(p)
         \/ DeleteHermesBrief \/ HermesClock \/ Disconnect \/ Connect \/ Poll
  PROVE  LogSafe'
<1>1. ASSUME NEW p \in Process, ProcessDies(p) PROVE LogSafe'
  <2>1. /\ \A j \in HermesJob : /\ step'[j] \in {step[j], "dead"}
                                /\ step[j] \in {"new", "end"} => step'[j] = step[j]
                                /\ Runner[j] # p => step'[j] = step[j]
        /\ step' \in [HermesJob -> Followed]
    BY <1>1 DEF ProcessDies, LogSafe, HermesTypeOK, Followed
  <2>2. HermesTypeOK' /\ UNCHANGED <<ms, hermesJobs, log>>
    BY <1>1, <2>1 DEF ProcessDies, LogSafe, HermesTypeOK
  <2>3. DraftsFit'
    <3> SUFFICES ASSUME NEW q \in Process, writing'[q] # NoEvent
                 PROVE  Runner[writing'[q].job] = q /\ step'[writing'[q].job] = writing'[q].kind
      BY DEF DraftsFit
    <3>1. q # p /\ writing'[q] = writing[q] /\ writing[q] \in Draft
      BY <1>1 DEF ProcessDies, LogSafe, HermesTypeOK
    <3> QED  BY <2>1, <3>1 DEF Draft, LogSafe, DraftsFit
  <2>4. Numbered' /\ Outcomes'
    BY <2>1, <2>2, SameLog DEF LogSafe, Outcomes, LogKind
  <2> QED  BY <2>2, <2>3, <2>4 DEF LogSafe
<1>2. ASSUME DeleteHermesBrief PROVE LogSafe'
  <2>1. /\ \A j \in HermesJob : hermesJobs'[j] = IF hermesJobs[j] = "none" THEN "none" ELSE "gone"
        /\ hermesJobs' \in [HermesJob -> HermesStatus]
        /\ log' = <<>> /\ UNCHANGED <<ms, step, writing>>
    BY <1>2 DEF DeleteHermesBrief, LogSafe, HermesTypeOK, HermesStatus
  <2>2. \A j \in HermesJob : EventsOf(j)' = {}
    BY <2>1 DEF EventsOf, ToSet
  <2>3. Numbered'
    BY <2>2, FS_EmptySet DEF Numbered
  <2>4. HermesTypeOK' /\ DraftsFit' /\ Outcomes'
    BY <2>1 DEF LogSafe, HermesTypeOK, DraftsFit, Outcomes
  <2> QED  BY <2>3, <2>4 DEF LogSafe
<1>3. ASSUME HermesClock \/ Disconnect \/ Connect \/ Poll PROVE LogSafe'
  <2>1. UNCHANGED <<hermesJobs, step, log, writing>>
    BY <1>3 DEF HermesClock, Disconnect, Connect, Poll
  <2>2. ms' \in 0 .. LastMs
    BY <1>3, HermesAssumption DEF HermesClock, Disconnect, Connect, Poll, LogSafe, HermesTypeOK
  <2>3. Numbered' /\ Outcomes'
    BY <2>1, SameLog DEF LogSafe, Outcomes, LogKind
  <2> QED  BY <2>1, <2>2, <2>3 DEF LogSafe, HermesTypeOK, DraftsFit
<1> QED  BY <1>1, <1>2, <1>3

LEMMA LogStep == LogSafe /\ [HermesNext]_hermesVars => LogSafe'
<1> SUFFICES ASSUME LogSafe, [HermesNext]_hermesVars PROVE LogSafe'
  OBVIOUS
<1>1. CASE UNCHANGED hermesVars
  <2>1. UNCHANGED <<ms, hermesJobs, step, log, writing>>
    BY <1>1 DEF hermesVars
  <2>2. Numbered' /\ Outcomes'
    BY <2>1, SameLog DEF LogSafe, Outcomes, LogKind
  <2> QED  BY <2>1, <2>2 DEF LogSafe, HermesTypeOK, DraftsFit
<1>2. CASE HermesNext
  BY <1>2, AdaptersKeep, DrawKeeps, NotStoredKeeps, StoredKeeps, OthersKeepLog
  DEF HermesNext, HermesStep
<1> QED  BY <1>1, <1>2

(* Types of the event log and its writers (hermes/events.ts). *)
THEOREM HermesTypes == HermesSpec => []HermesTypeOK
<1>1. LogSafe => HermesTypeOK
  BY DEF LogSafe
<1> QED  BY <1>1, LogStart, LogStep, PTL DEF HermesSpec

(* A closed job ended with the event that says how, for any jobs, runtime     *)
(* events, crashes and storage errors.                                        *)
THEOREM OutcomesHold == HermesSpec => []OutcomeIsLogged
<1>1. LogSafe => OutcomeIsLogged
  BY LastIsTop DEF LogSafe, HermesTypeOK, Outcomes, OutcomeIsLogged
<1> QED  BY <1>1, LogStart, LogStep, PTL DEF HermesSpec

(* The drawer's side of the log: what it received is stored. *)
Received == delivered \subseteq {<<e.job, e.seq>> : e \in ToSet(log)}
Connection(n) == [cursor : 0 .. n, ticks : 0 .. StreamTicks]

(* A page of the log ends within the log. *)
LEMMA PageFits ==
  ASSUME NEW c \in Nat, log \in Seq(Event), c <= Len(log)
  PROVE  /\ Page(c) \subseteq 1 .. Len(log)
         /\ c + Cardinality(Page(c)) \in 0 .. Len(log)
<1> DEFINE top == Min({c + PageSize, Len(log)})
<1>0. Len(log) \in Nat /\ PageSize \in Nat
  BY LenProperties, HermesAssumption
<1>1. \A a, b \in Nat : Min({a, b}) \in {a, b} /\ Min({a, b}) <= a /\ Min({a, b}) <= b
  <2> TAKE a, b \in Nat
  <2>1. CASE a <= b
    <3>1. a \in {a, b} /\ \A y \in {a, b} : a =< y
      BY <2>1
    <3> QED  BY <3>1 DEF Min
  <2>2. CASE b <= a
    <3>1. b \in {a, b} /\ \A y \in {a, b} : b =< y
      BY <2>2
    <3> QED  BY <3>1 DEF Min
  <2> QED  BY <2>1, <2>2
<1>2. top \in Nat /\ top <= Len(log)
  BY <1>0, <1>1
<1>3. c <= top
  BY <1>0, <1>1
<1> HIDE DEF top
<1>4. Page(c) = (c + 1) .. top
  BY DEF Page, top
<1>5. Cardinality(Page(c)) = IF c + 1 > top THEN 0 ELSE top - (c + 1) + 1
  BY <1>2, <1>4, FS_Interval
<1>6. c + Cardinality(Page(c)) = top
  BY <1>2, <1>3, <1>5
<1> QED  BY <1>0, <1>2, <1>4, <1>6

(* The first connection, and each step of the log or of the drawer. *)
LEMMA ReaderStart == HermesInit => DrawerShowsTheLog
<1> SUFFICES ASSUME HermesInit PROVE DrawerShowsTheLog
  OBVIOUS
<1>1. log = << >> /\ stream = [cursor |-> 0, ticks |-> 0] /\ delivered = {}
  BY DEF HermesInit, Closed
<1>2. 0 \in 0 .. Len(log) /\ 0 \in 0 .. StreamTicks
  BY <1>1, HermesAssumption
<1> QED  BY <1>1, <1>2 DEF DrawerShowsTheLog

(* Storing, deleting, polling and reconnecting keep the cursor in the log. *)
LEMMA ReaderStep == LogSafe /\ DrawerShowsTheLog /\ [HermesNext]_hermesVars => DrawerShowsTheLog'
<1> SUFFICES ASSUME LogSafe, DrawerShowsTheLog, [HermesNext]_hermesVars
             PROVE  DrawerShowsTheLog'
  OBVIOUS
<1>0. /\ log \in Seq(Event) /\ Len(log) \in Nat
      /\ stream \in Connection(Len(log)) /\ stream.cursor \in 0 .. Len(log)
      /\ stream.ticks \in 0 .. StreamTicks /\ StreamTicks \in Nat \ {0}
      /\ briefThere => Received
  BY LenProperties, HermesAssumption
  DEF LogSafe, HermesTypeOK, DrawerShowsTheLog, Connection, Received
<1>1. ASSUME UNCHANGED <<log, stream, delivered, briefThere>> PROVE DrawerShowsTheLog'
  BY <1>1 DEF DrawerShowsTheLog
<1>2. ASSUME log' = log, delivered' = delivered, briefThere' = briefThere, stream' \in Connection(Len(log))
      PROVE  DrawerShowsTheLog'
  BY <1>0, <1>2 DEF DrawerShowsTheLog, Connection, Received
<1>3. ASSUME NEW j \in HermesJob,
             RecordEvent(j) \/ CloseHermesJob(j) \/ CreateHermesJob(j) \/ CloseFails(j)
             \/ \E ok \in BOOLEAN : RuntimeAnswers(j, ok)
      PROVE  DrawerShowsTheLog'
  BY <1>1, <1>3
  DEF RecordEvent, Draw, CloseHermesJob, CreateHermesJob, CloseFails, RuntimeAnswers, readerVars
<1>4. ASSUME NEW p \in Process, CommitRefused(p) \/ CommitFails(p) PROVE DrawerShowsTheLog'
  BY <1>1, <1>4 DEF CommitRefused, CommitFails, readerVars
<1>5. ASSUME NEW p \in Process, CommitEvent(p) PROVE DrawerShowsTheLog'
  <2> DEFINE w == writing[p]
             e == [job |-> w.job, seq |-> Cardinality(EventsOf(w.job)) + 1, kind |-> w.kind,
                   at |-> w.at]
  <2>1. PICK k \in Places(w.at) :
          /\ log' = InsertAt(log, k + 1, e)
          /\ stream' = IF k < stream.cursor THEN [stream EXCEPT !.cursor = @ + 1] ELSE stream
    BY <1>5 DEF CommitEvent
  <2>2. k \in 0 .. Len(log) /\ UNCHANGED <<delivered, briefThere>>
    BY <1>5 DEF CommitEvent, Places
  <2>3. log \in Seq(Event \cup {e}) /\ e \in Event \cup {e}
    <3>1. Event \subseteq Event \cup {e}
      OBVIOUS
    <3> HIDE DEF e
    <3> QED  BY <1>0, <3>1, SeqMonotonic
  <2> HIDE DEF e
  <2>4. Len(log') = Len(log) + 1 /\ ToSet(log') = ToSet(log) \cup {e}
    <3>1. PICK T : log \in Seq(T) /\ e \in T
      BY <2>3
    <3>2. ToSet(InsertAt(log, k + 1, e)) = ToSet(log) \cup {e}
      BY <2>2, <3>1, Inserted
    <3>3. Len(InsertAt(log, k + 1, e)) = Len(log) + 1
      BY <2>2, <3>1, InsertedLength
    <3> QED  BY <2>1, <3>2, <3>3
  <2>5. stream' \in Connection(Len(log'))
    BY <1>0, <2>1, <2>2, <2>4 DEF Connection
  <2>6. ToSet(log)' = ToSet(log) \cup {e}
    BY <2>4 DEF ToSet
  <2> QED  BY <1>0, <2>2, <2>5, <2>6 DEF DrawerShowsTheLog, Connection, Received
<1>6. ASSUME NEW p \in Process, ProcessDies(p) PROVE DrawerShowsTheLog'
  <2>1. Closed \in Connection(Len(log))
    BY <1>0 DEF Closed, Connection
  <2> QED  BY <1>0, <1>2, <1>6, <2>1 DEF ProcessDies
<1>7. CASE DeleteHermesBrief
  <2>1. log' = << >> /\ ~briefThere' /\ stream' = [stream EXCEPT !.cursor = 0]
    BY <1>7 DEF DeleteHermesBrief
  <2>2. stream' \in Connection(0) /\ Len(log') = 0
    BY <1>0, <2>1 DEF Connection
  <2> QED  BY <2>1, <2>2 DEF DrawerShowsTheLog, Connection
<1>8. CASE HermesClock
  BY <1>1, <1>8 DEF HermesClock, readerVars
<1>9. CASE Disconnect
  BY <1>0, <1>2, <1>9 DEF Disconnect, Connection
<1>10. CASE Connect
  <2>1. [cursor |-> 0, ticks |-> StreamTicks] \in Connection(Len(log))
    BY <1>0 DEF Connection
  <2> QED  BY <1>2, <1>10, <2>1 DEF Connect, FirstCursor
<1>11. CASE Poll
  <2> DEFINE c == stream.cursor
  <2>1. /\ Page(c) \subseteq 1 .. Len(log) /\ c + Cardinality(Page(c)) \in 0 .. Len(log)
    BY <1>0, PageFits
  <2>2. /\ stream' = [cursor |-> c + Cardinality(Page(c)), ticks |-> stream.ticks - 1]
        /\ delivered' = delivered \cup {<<log[i].job, log[i].seq>> : i \in Page(c)}
        /\ stream.ticks > 0 /\ UNCHANGED <<log, briefThere>>
    BY <1>11 DEF Poll
  <2>3. stream' \in Connection(Len(log))
    BY <1>0, <2>1, <2>2 DEF Connection
  <2>4. {<<log[i].job, log[i].seq>> : i \in Page(c)} \subseteq {<<e.job, e.seq>> : e \in ToSet(log)}
    BY <2>1, LenProperties, <1>0 DEF ToSet
  <2> QED  BY <1>0, <2>2, <2>3, <2>4 DEF DrawerShowsTheLog, Connection, Received
<1>12. CASE UNCHANGED hermesVars
  BY <1>1, <1>12 DEF hermesVars
<1> QED
  BY <1>3, <1>4, <1>5, <1>6, <1>7, <1>8, <1>9, <1>10, <1>11, <1>12 DEF HermesNext, HermesStep

(* The drawer receives stored events only, and its cursor stays in the log,   *)
(* whatever is stored before it or deleted under it.                          *)
THEOREM DrawerHolds == HermesSpec => []DrawerShowsTheLog
BY LogStart, LogStep, ReaderStart, ReaderStep, PTL DEF HermesSpec

------------------------------------------------------------------------------
(* The daily pass *)

(* Where a moment is in its day. *)
LEMMA DayFacts ==
  ASSUME NEW t \in Nat
  PROVE  /\ Day(t) \in Nat /\ Hour(t) \in 0 .. DayLength - 1
         /\ t = Day(t) * DayLength + Hour(t)
BY ScheduleAssumption DEF Day, Hour

LEMMA WindowIsNat == ASSUME NEW d \in Nat PROVE Window(d) \in Nat
<1>1. d * DayLength \in Nat
  BY ScheduleAssumption
<1> QED  BY <1>1, ScheduleAssumption DEF Window

LEMMA DayInTime == ASSUME NEW t \in Time PROVE Day(t) \in Days
<1>1. /\ t \in Nat /\ Horizon \in Nat /\ t <= Horizon /\ DayLength \in Nat /\ DayLength > 0
  BY ScheduleAssumption DEF Time
<1>2. /\ Day(t) \in Nat /\ Day(Horizon) \in Nat
      /\ t = Day(t) * DayLength + Hour(t) /\ Hour(t) \in 0 .. DayLength - 1
      /\ Horizon = Day(Horizon) * DayLength + Hour(Horizon)
      /\ Hour(Horizon) \in 0 .. DayLength - 1
  BY <1>1, DayFacts
<1>3. SUFFICES ASSUME Day(t) > Day(Horizon) PROVE FALSE
  BY <1>2 DEF Days
<1>4. Day(t) = Day(Horizon) + (Day(t) - Day(Horizon)) /\ Day(t) - Day(Horizon) >= 1
  BY <1>2, <1>3
<1>5. \A a, b, k \in Nat : a >= b + 1 => a * k >= b * k + k
  OBVIOUS
<1>6. Day(t) * DayLength >= Day(Horizon) * DayLength + DayLength
  BY <1>1, <1>2, <1>3, <1>5
<1> QED  BY <1>1, <1>2, <1>6

(* A brief needs no check on day d, or has had or has one. *)
Attended(b, d) ==
  briefs[b].monitored /\ Due(b, Window(d)) /\ cadenceSet[b] < Window(d)
    => Pending(b) \/ served[b] >= Window(d)

(* A brief is scheduled once a day for one account: then the latest job of    *)
(* the two is of that day, as long as there is the account, and those still   *)
(* in a pass have not been scheduled by it.                                   *)
Once ==
  \A b \in Brief, d \in Days, u \in Account :
    /\ checks[b][d][u] <= 1
    /\ checks[b][d][u] = 1 => /\ now >= Window(d)
                              /\ u \in live => attempt[b][u] >= Window(d)
Fresh ==
  pc = "pass" => /\ Window(pass.day) <= now
                 /\ \A b \in pass.todo :
                      pass.owner[b] \in live => checks[b][pass.day][pass.owner[b]] = 0
(* A check that was asked for counts as served.                               *)
Recent ==
  \A b \in Brief : served[b] <= now /\ \A u \in Account : attempt[b][u] <= served[b]
(* A pass that put nothing off has served the briefs it is done with; a       *)
(* completed day, all.                                                        *)
Coverage ==
  /\ pc = "pass" /\ pass.deferred = 0 => \A b \in Brief \ pass.todo : Attended(b, pass.day)
  /\ lastRun # Never =>
       Window(lastRun) <= now /\ \A b \in Brief : Attended(b, lastRun)
PassSafe == ScheduleTypeOK /\ Once /\ Fresh /\ Recent /\ Coverage

(* What a step may do to a brief: begin or end a check of it, take it out of  *)
(* the monitoring, change its cadence, or leave it alone.                     *)
Left(b) ==
  /\ briefs'[b] = briefs[b] /\ cadenceSet'[b] = cadenceSet[b]
  /\ served'[b] = served[b]
  /\ Pending(b) => Pending(b)'
Moved(b) ==
  \/ served'[b] = now
  \/ ~briefs'[b].monitored \/ cadenceSet'[b] = now
  \/ Left(b)
(* And to the record of its checks: one is asked for, or goes with its        *)
(* account.                                                                   *)
Asked(b) ==
  /\ served'[b] \in {served[b], now}
  /\ \A u \in Account :
       \/ attempt'[b][u] = attempt[b][u]
       \/ attempt'[b][u] = now /\ served'[b] = now
       \/ attempt'[b][u] = Never /\ u \notin live'

LEMMA AttendedStays ==
  ASSUME ScheduleTypeOK, NEW b \in Brief, NEW d \in Nat, Moved(b),
         Window(d) <= now, Attended(b, d)
  PROVE  Attended(b, d)'
<1>1. Window(d) \in Nat /\ now \in Nat
  BY WindowIsNat, ScheduleAssumption DEF ScheduleTypeOK, Time
<1>2. CASE served'[b] = now
  BY <1>1, <1>2 DEF Attended, Window
<1>3. CASE ~briefs'[b].monitored \/ cadenceSet'[b] = now
  BY <1>1, <1>3 DEF Attended, Window
<1>4. CASE Left(b)
  BY <1>4 DEF Left, Attended, Due, Window
<1> QED  BY <1>2, <1>3, <1>4 DEF Moved

------------------------------------------------------------------------------
(* The queue *)

Waiting(b) == \E i \in DOMAIN queue : queue[i].brief = b
InHand(b) == running.state = "running" /\ running.brief = b

LEMMA PendingIs == \A b : Pending(b) <=> Waiting(b) \/ InHand(b)
<1> SUFFICES ASSUME NEW b PROVE Pending(b) <=> Waiting(b) \/ InHand(b)
  OBVIOUS
<1> DEFINE rows == [i \in DOMAIN queue |-> <<i, queue[i]>>]
<1>1. (\E a \in ToSet(rows) : a[2].brief = b) <=> Waiting(b)
  <2>1. /\ DOMAIN rows = DOMAIN queue
        /\ \A i \in DOMAIN queue : rows[i][2].brief = queue[i].brief
    OBVIOUS
  <2> QED  BY ZenonT(30), <2>1 DEF ToSet, Waiting
<1>2. (\E a \in {<<0, [brief |-> running.brief, user |-> running.user]>> :
                   x \in {running.state} \intersect {"running"}} : a[2].brief = b)
       <=> InHand(b)
  <2>1. <<0, [brief |-> running.brief, user |-> running.user]>>[2].brief = running.brief
    OBVIOUS
  <2> QED  BY <2>1, Zenon DEF InHand
<1> QED  BY <1>1, <1>2 DEF Pending, ActiveJobs

LEMMA RemovalKeeps ==
  ASSUME NEW q \in Seq(Job), NEW i \in DOMAIN q
  PROVE  /\ RemoveAt(q, i) \in Seq(Job)
         /\ \A j \in DOMAIN q \ {i} : \E k \in DOMAIN RemoveAt(q, i) : RemoveAt(q, i)[k] = q[j]
<1>1. /\ DOMAIN q = 1 .. Len(q) /\ Len(q) \in Nat /\ i \in 1 .. Len(q)
      /\ \A j \in 1 .. Len(q) : q[j] \in Job
  BY LenProperties, ElementOfSeq
<1> DEFINE front == SubSeq(q, 1, i - 1)
           back == SubSeq(q, i + 1, Len(q))
<1>2. /\ front \in Seq(Job) /\ Len(front) = i - 1
      /\ \A k \in 1 .. i - 1 : front[k] = q[k]
  <2>1. \A k \in 1 .. i - 1 : q[k] \in Job
    BY <1>1
  <2> QED  BY <1>1, <2>1, SubSeqProperties
<1>3. /\ back \in Seq(Job) /\ Len(back) = Len(q) - i
      /\ \A k \in 1 .. Len(q) - i : back[k] = q[i + k]
  <2>1. \A k \in i + 1 .. Len(q) : q[k] \in Job
    BY <1>1
  <2>2. /\ back \in Seq(Job)
        /\ Len(back) = IF i + 1 <= Len(q) THEN Len(q) - (i + 1) + 1 ELSE 0
        /\ \A k \in 1 .. Len(q) - (i + 1) + 1 : back[k] = q[i + 1 + k - 1]
    BY <1>1, <2>1, SubSeqProperties
  <2> QED  BY SMTT(30), <1>1, <2>2
<1> HIDE DEF front, back
<1>4. /\ front \o back \in Seq(Job) /\ Len(front \o back) = Len(q) - 1
      /\ \A k \in 1 .. Len(q) - 1 :
           (front \o back)[k] = IF k <= i - 1 THEN front[k] ELSE back[k - (i - 1)]
  <2>1. /\ front \o back \in Seq(Job) /\ Len(front \o back) = Len(front) + Len(back)
        /\ \A k \in 1 .. Len(front) + Len(back) :
             (front \o back)[k] = IF k <= Len(front) THEN front[k] ELSE back[k - Len(front)]
    BY <1>2, <1>3, ConcatProperties
  <2>2. Len(front) + Len(back) = Len(q) - 1
    BY <1>1, <1>2, <1>3
  <2> QED  BY <1>2, <2>1, <2>2
<1>5. DOMAIN (front \o back) = 1 .. Len(q) - 1
  BY <1>4, LenProperties
<1>6. ASSUME NEW j \in DOMAIN q \ {i}
      PROVE  \E k \in DOMAIN (front \o back) : (front \o back)[k] = q[j]
  <2>1. CASE j < i
    <3>1. j \in 1 .. Len(q) - 1 /\ j \in 1 .. i - 1 /\ j <= i - 1
      BY <1>1, <2>1
    <3> QED  BY <1>2, <1>4, <1>5, <3>1
  <2>2. CASE j > i
    <3>1. j - 1 \in 1 .. Len(q) - 1 /\ j - 1 - (i - 1) = j - i /\ j - i \in 1 .. Len(q) - i
          /\ i + (j - i) = j /\ ~(j - 1 <= i - 1)
      BY <1>1, <2>2
    <3> QED  BY <1>3, <1>4, <1>5, <3>1
  <2> QED  BY <1>1, <2>1, <2>2
<1> QED  BY <1>4, <1>6 DEF RemoveAt, front, back

LEMMA PendingNext == (\A b : Pending(b) <=> Waiting(b) \/ InHand(b))'
BY PendingIs, PTL

(* A job is added for a brief, or the checks of one are cancelled. *)
LEMMA QueueKeeps ==
  ASSUME ScheduleTypeOK, NEW j \in Job, queue' = Append(queue, j), running' = running
  PROVE  queue' \in Seq(Job) /\ \A b \in Brief : Pending(b) => Pending(b)'
<1>1. /\ queue' \in Seq(Job) /\ Len(queue') = Len(queue) + 1
      /\ \A i \in 1 .. Len(queue) : queue'[i] = queue[i]
  BY AppendProperties DEF ScheduleTypeOK
<1>2. DOMAIN queue = 1 .. Len(queue) /\ DOMAIN queue' = 1 .. Len(queue) + 1 /\ Len(queue) \in Nat
  BY <1>1, LenProperties DEF ScheduleTypeOK
<1>3. \A b \in Brief : Waiting(b) => Waiting(b)'
  BY <1>1, <1>2 DEF Waiting
<1> QED  BY <1>1, <1>3, PendingIs, PendingNext DEF InHand

LEMMA CancelKeeps ==
  ASSUME ScheduleTypeOK, NEW b \in Brief, CancelChecks(b)
  PROVE  /\ queue' \in Seq(Job)
         /\ running' \in [brief : Brief \union {0}, user : Account \union {NoJob.user},
                         state : {"none", "running", "cancelled"}]
         /\ served' \in [Brief -> Time \union {Never}]
         /\ \A c \in Brief : served'[c] = served[c] \/ served'[c] = now
         /\ \A c \in Brief \ {b} : Pending(c) => Pending(c)'
         /\ Pending(b) => served'[b] = now
         /\ running.state = "none" => running'.state = "none"
<1>1. /\ queue' \in Seq(Job)
      /\ \A c \in Brief \ {b} : Waiting(c) => Waiting(c)'
  <2>1. CASE queue' = queue
    BY <2>1 DEF ScheduleTypeOK, Waiting
  <2>2. ASSUME NEW i \in DOMAIN queue, queue[i].brief = b, queue' = RemoveAt(queue, i)
        PROVE  <1>1!1 /\ <1>1!2
    <3>1. /\ queue' \in Seq(Job)
          /\ \A k \in DOMAIN queue \ {i} : \E l \in DOMAIN queue' : queue'[l] = queue[k]
      BY <2>2, RemovalKeeps DEF ScheduleTypeOK
    <3> QED  BY <2>2, <3>1 DEF Waiting
  <2> QED  BY <2>1, <2>2 DEF CancelChecks
<1>2. /\ running' \in [brief : Brief \union {0}, user : Account \union {NoJob.user},
                      state : {"none", "running", "cancelled"}]
      /\ \A c \in Brief \ {b} : InHand(c) => InHand(c)'
      /\ running.state = "none" => running'.state = "none"
  BY DEF CancelChecks, ScheduleTypeOK, InHand
<1>3. /\ served' \in [Brief -> Time \union {Never}]
      /\ \A c \in Brief : served'[c] = served[c] \/ served'[c] = now
      /\ Pending(b) => served'[b] = now
  <2> HIDE DEF Pending
  <2> QED  BY DEF CancelChecks, ScheduleTypeOK
<1> QED  BY <1>1, <1>2, <1>3, PendingIs, PendingNext

(* An account is deleted: its jobs go, and the checks among them are over.    *)
LEMMA DeletionKeeps ==
  ASSUME ScheduleTypeOK, NEW a \in Account, NEW u \in Account, DeleteAccount(a, u)
  PROVE  /\ queue' \in Seq(Job) /\ served' \in [Brief -> Time \union {Never}]
         /\ \A b \in Brief : served'[b] \in {served[b], now}
         /\ \A b \in Brief : Pending(b) => Pending(b)' \/ served'[b] = now
<1>1. PICK place \in [1 .. Cardinality(Others(u)) -> Others(u)] :
        /\ \A o \in Others(u) : \E i \in DOMAIN place : place[i] = o
        /\ queue' = [i \in DOMAIN place |-> queue[place[i]]]
  BY DEF DeleteAccount
<1>2. /\ DOMAIN queue = 1 .. Len(queue) /\ Len(queue) \in Nat
      /\ \A i \in DOMAIN queue : queue[i] \in Job
  BY LenProperties, ElementOfSeq DEF ScheduleTypeOK
<1>3. Cardinality(Others(u)) \in Nat
  <2>1. IsFiniteSet(1 .. Len(queue)) /\ Others(u) \subseteq 1 .. Len(queue)
    BY <1>2, FS_Interval DEF Others
  <2> QED  BY <2>1, FS_Subset, FS_CardinalityType
<1>4. Others(u) \subseteq DOMAIN queue
  BY DEF Others
<1> DEFINE m == Cardinality(Others(u))
<1>5. queue' = [i \in 1 .. m |-> queue[place[i]]] /\ \A i \in 1 .. m : queue[place[i]] \in Job
  BY <1>1, <1>2, <1>4
<1>6. queue' \in Seq(Job)
  <2> HIDE DEF m
  <2> QED  BY <1>3, <1>5, IsASeq DEF m
<1>7. served' = [b \in Brief |->
                  IF \E j \in ActiveJobs : j[2] = [brief |-> b, user |-> u] THEN now ELSE served[b]]
  BY DEF DeleteAccount
<1>8. \A b \in Brief : served'[b] \in {served[b], now}
  BY <1>7
<1>9. served' \in [Brief -> Time \union {Never}]
  BY <1>7 DEF ScheduleTypeOK
<1>10. ASSUME NEW b \in Brief, NEW i \in DOMAIN queue, queue[i].brief = b
       PROVE  Pending(b)' \/ served'[b] = now
  <2>1. CASE queue[i].user = u
    <3>1. queue[i] = [brief |-> b, user |-> u]
      BY <1>2, <1>10, <2>1 DEF Job
    <3>2. <<i, queue[i]>> \in ActiveJobs
      <4> DEFINE rows == [k \in DOMAIN queue |-> <<k, queue[k]>>]
      <4>1. i \in DOMAIN rows /\ rows[i] = <<i, queue[i]>>
        BY <1>10
      <4> QED  BY <4>1, Zenon DEF ActiveJobs, ToSet
    <3>3. <<i, queue[i]>>[2] = [brief |-> b, user |-> u]
      BY <3>1
    <3> QED  BY <1>7, <3>2, <3>3
  <2>2. CASE queue[i].user # u
    <3>1. PICK k \in DOMAIN place : place[k] = i
      BY <1>1, <2>2 DEF Others
    <3>2. k \in DOMAIN queue' /\ queue'[k].brief = b
      BY <1>1, <1>10, <3>1
    <3> QED  BY <3>2, PendingNext DEF Waiting
  <2> QED  BY <2>1, <2>2
<1>11. ASSUME NEW b \in Brief, InHand(b)
       PROVE  Pending(b)' \/ served'[b] = now
  <2>1. CASE running.user = u
    <3>1. <<0, [brief |-> running.brief, user |-> running.user]>> \in ActiveJobs
      BY <1>11, Zenon DEF ActiveJobs, InHand
    <3>2. <<0, [brief |-> running.brief, user |-> running.user]>>[2] = [brief |-> b, user |-> u]
      BY <1>11, <2>1 DEF InHand
    <3> QED  BY <1>7, <3>1, <3>2
  <2>2. CASE running.user # u
    <3>1. running' = running
      BY <2>2 DEF DeleteAccount
    <3> QED  BY <1>11, <3>1, PendingNext DEF InHand
  <2> QED  BY <2>1, <2>2
<1> QED  BY <1>6, <1>8, <1>9, <1>10, <1>11, PendingIs DEF Waiting

------------------------------------------------------------------------------
(* The steps *)

(* What every step keeps, and a step outside of a pass. *)
Passes ==
  /\ ScheduleTypeOK' /\ now <= now' /\ live' \subseteq live
  /\ \A b \in Brief : Moved(b) /\ Asked(b)
Elsewhere ==
  /\ checks' = checks /\ lastRun' = lastRun
  /\ pc' = "pass" => pc = "pass" /\ pass' = pass

LEMMA EnqueueMoves ==
  ASSUME ScheduleTypeOK, NEW b \in Brief, NEW u \in Account, EnqueueCheck(b, u),
         running' = running
  PROVE  /\ queue' \in Seq(Job) /\ u \in live
         /\ attempt' \in [Brief -> [Account -> Time \union {Never}]]
         /\ served' \in [Brief -> Time \union {Never}]
         /\ \A c \in Brief : Pending(c) => Pending(c)'
         /\ served'[b] = now /\ attempt'[b][u] = now
         /\ \A c \in Brief \ {b} : attempt'[c] = attempt[c] /\ served'[c] = served[c]
         /\ \A v \in Account \ {u} : attempt'[b][v] = attempt[b][v]
<1>1. [brief |-> b, user |-> u] \in Job
  BY DEF Job
<1>2. queue' = Append(queue, [brief |-> b, user |-> u])
  BY DEF EnqueueCheck
<1>3. queue' \in Seq(Job) /\ \A c \in Brief : Pending(c) => Pending(c)'
  BY <1>1, <1>2, QueueKeeps
<1>4. /\ attempt' = [attempt EXCEPT ![b][u] = now] /\ served' = [served EXCEPT ![b] = now]
      /\ u \in live /\ now \in Time
      /\ attempt \in [Brief -> [Account -> Time \union {Never}]]
      /\ served \in [Brief -> Time \union {Never}]
  BY DEF EnqueueCheck, ScheduleTypeOK
<1>5. attempt' = [attempt EXCEPT ![b] = [attempt[b] EXCEPT ![u] = now]]
  BY <1>4
<1>6. attempt[b] \in [Account -> Time \union {Never}]
  BY <1>4
<1>7. /\ [attempt[b] EXCEPT ![u] = now] \in [Account -> Time \union {Never}]
      /\ [attempt[b] EXCEPT ![u] = now][u] = now
      /\ \A v \in Account \ {u} : [attempt[b] EXCEPT ![u] = now][v] = attempt[b][v]
  BY <1>4, <1>6
<1> QED  BY <1>3, <1>4, <1>5, <1>7

LEMMA SwitchKeeps ==
  ASSUME ScheduleTypeOK, NEW b \in Brief, NEW x \in BOOLEAN,
         briefs' = [briefs EXCEPT ![b].monitored = x]
  PROVE  /\ briefs' \in [Brief -> MonitorRow]
         /\ \A c \in Brief \ {b} : briefs'[c] = briefs[c]
         /\ briefs'[b].monitored = x
<1>1. briefs[b] \in MonitorRow /\ briefs \in [Brief -> MonitorRow]
  BY DEF ScheduleTypeOK
<1>2. [briefs[b] EXCEPT !.monitored = x] \in MonitorRow
      /\ [briefs[b] EXCEPT !.monitored = x].monitored = x
  BY <1>1 DEF MonitorRow
<1>3. briefs' = [briefs EXCEPT ![b] = [briefs[b] EXCEPT !.monitored = x]]
  OBVIOUS
<1> QED  BY <1>1, <1>2, <1>3

LEMMA UsersPass ==
  ASSUME ScheduleTypeOK, Tick \/ Users
  PROVE  Passes /\ Elsewhere
<1>0. now \in Nat
  BY ScheduleAssumption DEF ScheduleTypeOK, Time
<1>1. CASE Tick
  <2>1. \A b \in Brief : Left(b) /\ Asked(b)
    BY <1>1, PendingIs, PendingNext DEF Tick, Left, Asked, userVars, accountVars, Waiting, InHand
  <2>2. now' = now + 1 /\ now' \in Time
    BY <1>0, <1>1, ScheduleAssumption DEF Tick, Time
  <2>3. ScheduleTypeOK'
    BY <1>1, <2>2 DEF Tick, ScheduleTypeOK, userVars, accountVars
  <2> QED  BY <1>0, <1>1, <2>1, <2>2, <2>3 DEF Tick, Passes, Elsewhere, Moved, Left, accountVars
<1>2. ASSUME NEW b \in Brief, NEW u \in Account, SwitchOn(b, u) \/ CheckNow(b, u)
      PROVE  Passes /\ Elsewhere
  <2>1. /\ EnqueueCheck(b, u)
        /\ UNCHANGED <<now, ownerOf, live, lastRun, pc, pass, checks, running, cadenceSet>>
    BY <1>2 DEF SwitchOn, CheckNow, Request, accountVars
  <2>2. /\ briefs' \in [Brief -> MonitorRow]
        /\ \A c \in Brief \ {b} : briefs'[c] = briefs[c]
    <3>1. CASE briefs' = [briefs EXCEPT ![b].monitored = TRUE]
      BY <3>1, SwitchKeeps
    <3>2. CASE briefs' = briefs
      BY <3>2 DEF ScheduleTypeOK
    <3> QED  BY <1>2, <3>1, <3>2 DEF SwitchOn, CheckNow
  <2>3. /\ queue' \in Seq(Job) /\ attempt' \in [Brief -> [Account -> Time \union {Never}]]
        /\ served' \in [Brief -> Time \union {Never}]
        /\ \A c \in Brief : Pending(c) => Pending(c)'
        /\ served'[b] = now /\ attempt'[b][u] = now
        /\ \A c \in Brief \ {b} : attempt'[c] = attempt[c] /\ served'[c] = served[c]
        /\ \A v \in Account \ {u} : attempt'[b][v] = attempt[b][v]
    BY <2>1, EnqueueMoves
  <2>4. ScheduleTypeOK'
    BY <2>1, <2>2, <2>3 DEF ScheduleTypeOK
  <2>5. \A c \in Brief : Moved(c) /\ Asked(c)
    BY <2>1, <2>2, <2>3 DEF Moved, Left, Asked
  <2> QED  BY <1>0, <2>1, <2>4, <2>5 DEF Passes, Elsewhere
<1>3. ASSUME NEW b \in Brief, SwitchOff(b) \/ CancelCheck(b)
      PROVE  Passes /\ Elsewhere
  <2>1. /\ CancelChecks(b)
        /\ UNCHANGED <<now, ownerOf, live, lastRun, pc, pass, checks, attempt, cadenceSet>>
    BY <1>3 DEF SwitchOff, CancelCheck, Request, accountVars
  <2>2. /\ briefs' \in [Brief -> MonitorRow]
        /\ \A c \in Brief \ {b} : briefs'[c] = briefs[c]
        /\ ~briefs'[b].monitored \/ Pending(b)
    <3>1. CASE briefs' = [briefs EXCEPT ![b].monitored = FALSE]
      BY <3>1, SwitchKeeps
    <3>2. CASE briefs' = briefs /\ Pending(b)
      BY <3>2 DEF ScheduleTypeOK
    <3> QED  BY <1>3, <3>1, <3>2 DEF SwitchOff, CancelCheck
  <2>3. /\ ScheduleTypeOK'
        /\ \A c \in Brief : served'[c] = served[c] \/ served'[c] = now
        /\ \A c \in Brief \ {b} : Pending(c) => Pending(c)'
        /\ Pending(b) => served'[b] = now
    BY <2>1, <2>2, CancelKeeps DEF ScheduleTypeOK
  <2>4. \A c \in Brief : Moved(c) /\ Asked(c)
    BY <2>1, <2>2, <2>3 DEF Moved, Left, Asked
  <2> QED  BY <1>0, <2>1, <2>3, <2>4 DEF Passes, Elsewhere
<1>4. ASSUME NEW b \in Brief, NEW c \in Cadence, SetCadence(b, c)
      PROVE  Passes /\ Elsewhere
  <2>1. UNCHANGED <<now, ownerOf, live, lastRun, pc, pass, checks, attempt, served, queue, running>>
    BY <1>4 DEF SetCadence, Request, accountVars
  <2>2. /\ briefs' \in [Brief -> MonitorRow]
        /\ \A e \in Brief \ {b} : briefs'[e] = briefs[e] /\ cadenceSet'[e] = cadenceSet[e]
        /\ cadenceSet' \in [Brief -> Time \union {Never}] /\ cadenceSet'[b] = now
    BY <1>4 DEF SetCadence, ScheduleTypeOK, MonitorRow
  <2>3. \A e \in Brief : Pending(e) => Pending(e)'
    BY <2>1, PendingIs, PendingNext DEF Waiting, InHand
  <2>4. \A e \in Brief : Moved(e) /\ Asked(e)
    BY <2>1, <2>2, <2>3 DEF Moved, Left, Asked
  <2>5. ScheduleTypeOK'
    BY <2>1, <2>2 DEF ScheduleTypeOK
  <2> QED  BY <1>0, <2>1, <2>4, <2>5 DEF Passes, Elsewhere
<1>5. ASSUME NEW u \in Account, SubmitOther(u) PROVE Passes /\ Elsewhere
  <2>1. /\ queue' = Append(queue, [brief |-> 0, user |-> u])
        /\ UNCHANGED <<now, ownerOf, live, lastRun, pc, pass, checks, briefs, attempt, served,
                       running, cadenceSet>>
    BY <1>5 DEF SubmitOther, Request, accountVars
  <2>2. [brief |-> 0, user |-> u] \in Job
    BY DEF Job
  <2>3. queue' \in Seq(Job) /\ \A b \in Brief : Pending(b) => Pending(b)'
    BY <2>1, <2>2, QueueKeeps
  <2>4. \A b \in Brief : Moved(b) /\ Asked(b)
    BY <2>1, <2>3 DEF Moved, Left, Asked
  <2>5. ScheduleTypeOK'
    BY <2>1, <2>3 DEF ScheduleTypeOK
  <2> QED  BY <1>0, <2>1, <2>4, <2>5 DEF Passes, Elsewhere
<1>6. ASSUME NEW a \in Account, NEW u \in Account, DeleteAccount(a, u)
      PROVE  Passes /\ Elsewhere
  <2>1. /\ UNCHANGED <<now, briefs, lastRun, pc, pass, checks, cadenceSet>>
        /\ live' = live \ {u}
        /\ ownerOf' = [b \in Brief |-> IF ownerOf[b] = u THEN a ELSE ownerOf[b]]
        /\ running' = IF running.user = u /\ running.state = "running"
                      THEN [running EXCEPT !.state = "cancelled"] ELSE running
        /\ attempt' = [b \in Brief |-> [attempt[b] EXCEPT ![u] = Never]]
    BY <1>6 DEF DeleteAccount
  <2>2. /\ queue' \in Seq(Job) /\ served' \in [Brief -> Time \union {Never}]
        /\ \A b \in Brief : served'[b] \in {served[b], now}
        /\ \A b \in Brief : Pending(b) => Pending(b)' \/ served'[b] = now
    BY <1>6, DeletionKeeps
  <2>3. \A b \in Brief : Moved(b)
    BY <2>1, <2>2 DEF Moved, Left
  <2>4. \A b \in Brief : Asked(b)
    <3>1. ASSUME NEW b \in Brief, NEW v \in Account
          PROVE  attempt'[b][v] = attempt[b][v] \/ (attempt'[b][v] = Never /\ v = u)
      BY <2>1 DEF ScheduleTypeOK
    <3> QED  BY <2>1, <2>2, <3>1 DEF Asked
  <2>5. ScheduleTypeOK'
    <3>1. attempt' \in [Brief -> [Account -> Time \union {Never}]]
      BY <2>1 DEF ScheduleTypeOK
    <3>2. /\ running' \in [brief : Brief \union {0}, user : Account \union {NoJob.user},
                           state : {"none", "running", "cancelled"}]
          /\ pc # "run" => running'.state = "none"
      BY <2>1 DEF ScheduleTypeOK
    <3> QED  BY <2>1, <2>2, <3>1, <3>2 DEF ScheduleTypeOK
  <2> QED  BY <1>0, <2>1, <2>3, <2>4, <2>5 DEF Passes, Elsewhere
<1> QED  BY <1>1, <1>2, <1>3, <1>4, <1>5, <1>6 DEF Users

(* The loop outside of its pass, a pass that fails, a crash. *)
LEMMA LoopPasses ==
  ASSUME ScheduleTypeOK, \/ NoPassToday \/ PassThrows \/ Claim \/ Crash
                        \/ \E r \in BOOLEAN : EndJob(r)
                        \/ \E b \in Brief : PassLosesOwner(b)
  PROVE  Passes /\ Elsewhere
<1> DEFINE Hands == [brief : Brief \union {0}, user : Account \union {NoJob.user},
                     state : {"none", "running", "cancelled"}]
<1>0. /\ NoJob \in Hands /\ NoJob.state = "none" /\ 0 \in Days
      /\ NoPass \in [day : Days, todo : SUBSET Brief, owner : [Brief -> Account], deferred : Nat]
  <2>1. 0 \in Days
    <3>1. Horizon \in Nat
      BY ScheduleAssumption
    <3> QED  BY <3>1, DayFacts DEF Days
  <2> QED  BY <2>1, ScheduleAssumption DEF NoJob, NoPass
<1>1. now \in Nat /\ now <= now
  BY ScheduleAssumption DEF ScheduleTypeOK, Time
<1>2. CASE NoPassToday \/ PassThrows \/ \E b \in Brief : PassLosesOwner(b)
  <2>1. /\ UNCHANGED <<now, briefs, ownerOf, live, attempt, served, queue, running, lastRun,
                       checks, cadenceSet>>
        /\ pc' = "claim" /\ (pass' = pass \/ pass' = NoPass) /\ pc # "run"
    BY <1>2 DEF NoPassToday, PassThrows, PassLosesOwner, IsNext, userVars, accountVars
  <2>2. \A b \in Brief : Left(b) /\ Asked(b)
    BY <2>1, PendingIs, PendingNext DEF Left, Asked, Waiting, InHand
  <2>3. ScheduleTypeOK'
    BY <1>0, <2>1 DEF ScheduleTypeOK
  <2> QED  BY <1>1, <2>1, <2>2, <2>3 DEF Passes, Elsewhere, Moved, Left
<1>3. CASE Claim
  <2>1. /\ UNCHANGED <<now, briefs, ownerOf, live, attempt, served, lastRun, pass, checks, cadenceSet>>
        /\ pc' # "pass"
    BY <1>3 DEF Claim, userVars, accountVars
  <2>a. \A b \in Brief : Asked(b)
    BY <2>1 DEF Asked
  <2>2. CASE queue = <<>>
    <3>1. UNCHANGED <<queue, running>> /\ pc = "claim"
      BY <1>3, <2>2 DEF Claim
    <3>2. \A b \in Brief : Left(b)
      BY <2>1, <3>1, PendingIs, PendingNext DEF Left, Waiting, InHand
    <3> QED  BY <1>1, <2>1, <2>a, <3>1, <3>2 DEF Passes, Elsewhere, Moved, Left, ScheduleTypeOK
  <2>3. CASE queue # <<>>
    <3>1. /\ queue' = Tail(queue)
          /\ running' = [brief |-> Head(queue).brief, user |-> Head(queue).user, state |-> "running"]
      BY <1>3, <2>3 DEF Claim
    <3>2. /\ Head(queue) \in Job /\ queue' \in Seq(Job) /\ Len(queue') = Len(queue) - 1
          /\ \A i \in 1 .. Len(queue') : queue'[i] = queue[i + 1]
      BY <2>3, <3>1, HeadTailProperties DEF ScheduleTypeOK
    <3>3. /\ DOMAIN queue = 1 .. Len(queue) /\ DOMAIN queue' = 1 .. Len(queue')
          /\ Len(queue) \in Nat /\ Head(queue) = queue[1]
      BY <3>2, LenProperties DEF ScheduleTypeOK
    <3>4. ASSUME NEW b \in Brief, Pending(b) PROVE Pending(b)'
      <4>1. PICK i \in 1 .. Len(queue) : queue[i].brief = b
        BY <1>3, <3>3, <3>4, PendingIs DEF Claim, ScheduleTypeOK, InHand, Waiting
      <4>2. CASE i = 1
        BY <3>1, <3>3, <4>1, <4>2, PendingNext DEF InHand
      <4>3. CASE i # 1
        <5>1. i - 1 \in 1 .. Len(queue') /\ (i - 1) + 1 = i
          BY <3>2, <3>3, <4>3
        <5> QED  BY <3>2, <3>3, <4>1, <5>1, PendingNext DEF Waiting
      <4> QED  BY <4>2, <4>3
    <3>5. \A b \in Brief : Left(b)
      BY <2>1, <3>4 DEF Left
    <3>6. running' \in Hands /\ pc' = "run"
      BY <1>3, <2>3, <3>1, <3>2 DEF Job, Claim
    <3>7. ScheduleTypeOK'
      BY <2>1, <3>2, <3>6 DEF ScheduleTypeOK
    <3> QED  BY <1>1, <2>1, <2>a, <3>5, <3>7 DEF Passes, Elsewhere, Moved, Left
  <2> QED  BY <2>2, <2>3
<1>4. CASE Crash
  <2>1. /\ UNCHANGED <<now, briefs, ownerOf, live, attempt, queue, lastRun, checks, cadenceSet>>
        /\ pc' = "tick" /\ pass' = NoPass /\ running' = NoJob
    BY <1>4 DEF Crash, userVars, accountVars
  <2>2. /\ served' \in [Brief -> Time \union {Never}]
        /\ \A b \in Brief : served'[b] = served[b] \/ served'[b] = now
        /\ \A b \in Brief : InHand(b) => served'[b] = now
    <3>1. running.brief \in Brief \union {0} /\ 0 \notin Brief
      BY ScheduleAssumption DEF ScheduleTypeOK, Brief
    <3> QED  BY <1>4, <3>1 DEF Crash, ScheduleTypeOK, InHand
  <2>3. \A b \in Brief : Pending(b) => Pending(b)' \/ served'[b] = now
    BY <2>1, <2>2, PendingIs, PendingNext DEF Waiting
  <2>4. \A b \in Brief : Moved(b) /\ Asked(b)
    BY <2>1, <2>2, <2>3 DEF Moved, Left, Asked
  <2>5. ScheduleTypeOK'
    BY <1>0, <2>1, <2>2 DEF ScheduleTypeOK
  <2> QED  BY <1>1, <2>1, <2>4, <2>5 DEF Passes, Elsewhere
<1>5. ASSUME NEW r \in BOOLEAN, EndJob(r) PROVE Passes /\ Elsewhere
  <2>1. /\ UNCHANGED <<now, ownerOf, live, attempt, queue, lastRun, pass, checks, cadenceSet>>
        /\ pc' = "tick" /\ running' = NoJob
    BY <1>5 DEF EndJob, userVars, accountVars
  <2>2. running.brief \in Brief \union {0} /\ 0 \notin Brief
    BY ScheduleAssumption DEF ScheduleTypeOK, Brief
  <2>3. /\ served' \in [Brief -> Time \union {Never}]
        /\ \A b \in Brief : served'[b] = served[b] \/ served'[b] = now
        /\ \A b \in Brief : InHand(b) => served'[b] = now
    BY <1>5, <2>2 DEF EndJob, ScheduleTypeOK, InHand
  <2>4. /\ briefs' \in [Brief -> MonitorRow]
        /\ \A b \in Brief : briefs'[b] = briefs[b] \/ served'[b] = now
    <3>1. CASE r = FALSE
      BY <1>5, <3>1 DEF EndJob, ScheduleTypeOK
    <3>2. CASE r = TRUE
      <4> DEFINE b == running.brief
      <4>1. /\ b \in Brief /\ briefs' = [briefs EXCEPT ![b].last = now]
            /\ served' = [served EXCEPT ![b] = now]
        BY <1>5, <2>2, <3>2 DEF EndJob
      <4>2. briefs[b] \in MonitorRow /\ now \in Time
        BY <4>1 DEF ScheduleTypeOK
      <4>3. [briefs[b] EXCEPT !.last = now] \in MonitorRow
        BY <4>2 DEF MonitorRow
      <4>4. briefs' = [briefs EXCEPT ![b] = [briefs[b] EXCEPT !.last = now]]
        BY <4>1
      <4> HIDE DEF b
      <4> QED  BY <4>1, <4>3, <4>4 DEF ScheduleTypeOK
    <3> QED  BY <3>1, <3>2
  <2>5. \A b \in Brief : Pending(b) => Pending(b)' \/ served'[b] = now
    BY <2>1, <2>3, PendingIs, PendingNext DEF Waiting
  <2>6. \A b \in Brief : Moved(b) /\ Asked(b)
    BY <2>1, <2>3, <2>4, <2>5 DEF Moved, Left, Asked
  <2>7. ScheduleTypeOK'
    BY <1>0, <2>1, <2>3, <2>4 DEF ScheduleTypeOK
  <2> QED  BY <1>1, <2>1, <2>6, <2>7 DEF Passes, Elsewhere
<1> QED  BY <1>2, <1>3, <1>4, <1>5

------------------------------------------------------------------------------
(* The invariant *)

LEMMA LastRunStays ==
  ASSUME PassSafe, Passes, lastRun' = lastRun, lastRun # Never
  PROVE  Window(lastRun') <= now' /\ \A b \in Brief : Attended(b, lastRun)'
<1>1. PICK d \in Nat : d = lastRun
  BY DEF PassSafe, ScheduleTypeOK, Days
<1>2. /\ Window(d) \in Nat /\ now \in Nat /\ now' \in Nat /\ Window(d) <= now /\ now <= now'
      /\ \A b \in Brief : Attended(b, d)
  BY <1>1, WindowIsNat, ScheduleAssumption DEF PassSafe, Coverage, Passes, ScheduleTypeOK, Time
<1>3. \A b \in Brief : Attended(b, d)'
  BY <1>2, AttendedStays DEF PassSafe, Passes
<1>4. Window(lastRun') = Window(d) /\ lastRun' = d
  BY <1>1
<1> QED  BY <1>2, <1>3, <1>4 DEF Attended, Due, Window

LEMMA OnceStays ==
  ASSUME PassSafe, Passes, NEW b \in Brief, NEW d \in Days, NEW u \in Account, checks[b][d][u] = 1
  PROVE  now' >= Window(d) /\ (u \in live' => attempt'[b][u] >= Window(d))
<1>1. d \in Nat /\ Window(d) \in Nat
  BY WindowIsNat DEF Days
<1>2. now \in Nat /\ now' \in Nat /\ now <= now' /\ live' \subseteq live
  BY ScheduleAssumption DEF Passes, PassSafe, ScheduleTypeOK, Time
<1>3. attempt[b][u] \in Int
  BY ScheduleAssumption DEF PassSafe, ScheduleTypeOK, Time, Never
<1>4. now >= Window(d) /\ (u \in live => attempt[b][u] >= Window(d))
  BY DEF PassSafe, Once
<1>5. u \in live' => attempt'[b][u] \in {attempt[b][u], now}
  BY DEF Passes, Asked
<1> QED  BY <1>1, <1>2, <1>3, <1>4, <1>5

(* What is asked for is served, also after the step.                          *)
LEMMA Moments ==
  ASSUME ScheduleTypeOK
  PROVE  /\ now \in Nat
         /\ \A b \in Brief : /\ served[b] \in Int /\ served[b] >= Never
                            /\ \A u \in Account : attempt[b][u] \in Int
<1>1. \A t \in Time \union {Never} : t \in Int /\ t >= Never
  BY ScheduleAssumption DEF Time, Never
<1>2. now \in Nat
  BY ScheduleAssumption DEF ScheduleTypeOK, Time
<1>3. \A b \in Brief : served[b] \in Time \union {Never}
  BY DEF ScheduleTypeOK
<1>4. \A b \in Brief, u \in Account : attempt[b][u] \in Time \union {Never}
  <2>1. \A b \in Brief : attempt[b] \in [Account -> Time \union {Never}]
    BY DEF ScheduleTypeOK
  <2> QED  BY <2>1
<1> QED  BY <1>1, <1>2, <1>3, <1>4

LEMMA RecentStays == ASSUME PassSafe, Passes PROVE Recent'
<1> SUFFICES ASSUME NEW b \in Brief, NEW u \in Account
             PROVE  served'[b] <= now' /\ attempt'[b][u] <= served'[b]
  <2>1. ASSUME NEW b \in Brief PROVE served'[b] <= now'
    <3>1. now \in Nat /\ served[b] \in Int /\ served[b] <= now
      BY Moments DEF PassSafe, Recent
    <3>2. now' \in Nat /\ now <= now'
      BY ScheduleAssumption DEF Passes, ScheduleTypeOK, Time
    <3>3. served'[b] \in {served[b], now}
      BY DEF Passes, Asked
    <3> QED  BY <3>1, <3>2, <3>3
  <2> QED  BY <2>1 DEF Recent
<1>1. /\ now \in Nat /\ served[b] \in Int /\ served[b] >= Never /\ attempt[b][u] \in Int
      /\ now' \in Nat /\ now <= now'
  <2>1. now' \in Nat /\ now <= now'
    BY ScheduleAssumption DEF Passes, ScheduleTypeOK, Time
  <2> QED  BY <2>1, Moments DEF PassSafe
<1>2. served[b] <= now /\ attempt[b][u] <= served[b]
  BY DEF PassSafe, Recent
<1>3. Asked(b)
  BY DEF Passes
<1> QED  BY <1>1, <1>2, <1>3 DEF Asked, Never

LEMMA ElsewhereKeeps ==
  ASSUME PassSafe, Passes, Elsewhere
  PROVE  PassSafe'
<1>1. Once'
  BY OnceStays DEF Once, Elsewhere, PassSafe, Window
<1>r. Recent'
  BY RecentStays
<1>2. CASE pc' # "pass"
  BY <1>1, <1>r, <1>2, LastRunStays DEF PassSafe, Passes, Elsewhere, Fresh, Coverage, Window
<1>3. CASE pc' = "pass"
  <2>1. /\ pc = "pass" /\ pass' = pass /\ checks' = checks
    BY <1>3 DEF Elsewhere
  <2>2. PICK d \in Nat : d = pass.day
    BY DEF PassSafe, ScheduleTypeOK, Days
  <2>3. PICK T \in SUBSET Brief : T = pass.todo
    BY DEF PassSafe, ScheduleTypeOK
  <2>4. /\ Window(d) \in Nat /\ now \in Nat /\ now' \in Nat /\ Window(d) <= now /\ now <= now'
    BY <2>1, <2>2, WindowIsNat, ScheduleAssumption
    DEF PassSafe, Fresh, Passes, ScheduleTypeOK, Time
  <2>5. Fresh'
    BY <2>1, <2>2, <2>4 DEF Fresh, PassSafe, Passes, Window
  <2>6. pass'.deferred = 0 => \A b \in Brief \ pass'.todo : Attended(b, pass.day)'
    <3>1. SUFFICES ASSUME pass.deferred = 0, NEW b \in Brief \ T PROVE Attended(b, pass.day)'
      BY <2>1, <2>3
    <3>2. Attended(b, d)
      BY <2>1, <2>2, <2>3, <3>1 DEF PassSafe, Coverage
    <3>3. Attended(b, d)'
      BY <2>4, <3>2, AttendedStays DEF PassSafe, Passes
    <3>4. pass'.day = d
      BY <2>1, <2>2
    <3> QED  BY <3>3, <3>4 DEF Attended, Due, Window
  <2> QED  BY <1>1, <1>r, <2>5, <2>6, LastRunStays DEF PassSafe, Passes, Elsewhere, Coverage, Window
<1> QED  BY <1>2, <1>3

(* The pass is opened for the briefs that still need a check today. *)
LEMMA OpenKeeps ==
  ASSUME PassSafe, OpenPass
  PROVE  PassSafe'
<1>1. PICK d \in Days : d = Day(now)
  BY DayInTime DEF PassSafe, ScheduleTypeOK
<1>2. /\ UNCHANGED <<now, briefs, ownerOf, live, attempt, served, queue, running, lastRun, checks,
                     cadenceSet>>
      /\ pc = "tick" /\ pc' = "pass"
      /\ pass' = [day |-> d, todo |-> Selected, owner |-> ownerOf, deferred |-> 0]
  BY <1>1 DEF OpenPass, userVars, accountVars
<1>3. /\ now \in Nat /\ d \in Nat /\ Window(d) \in Nat /\ Window(d) <= now
  <2>1. now \in Nat /\ d \in Nat /\ Window(d) \in Nat
    BY <1>1, WindowIsNat, ScheduleAssumption DEF PassSafe, ScheduleTypeOK, Time, Days
  <2>2. now = d * DayLength + Hour(now) /\ Hour(now) >= MonitorHour
    BY <1>1, <2>1, DayFacts DEF OpenPass, MayOpen
  <2>3. Hour(now) \in Nat /\ d * DayLength \in Nat
    BY <2>1, DayFacts, ScheduleAssumption
  <2> HIDE DEF Hour
  <2> QED  BY <2>1, <2>2, <2>3, ScheduleAssumption DEF Window
<1>4. /\ ScheduleTypeOK'
      /\ \A b \in Brief : Left(b) /\ Asked(b)
  <2>1. Selected \in SUBSET Brief
    BY DEF Selected
  <2>2. ScheduleTypeOK'
    BY <1>2, <2>1 DEF PassSafe, ScheduleTypeOK
  <2> QED  BY <1>2, <2>2, PendingIs, PendingNext DEF Left, Asked, Waiting, InHand
<1>5. Passes
  BY <1>2, <1>3, <1>4 DEF Passes, Moved, Left
<1>6. Once'
  BY <1>2, <1>5, OnceStays DEF Once, PassSafe, Window
<1>7. ASSUME NEW b \in Selected PROVE ownerOf[b] \in live => checks[b][d][ownerOf[b]] = 0
  <2> DEFINE u == ownerOf[b]
  <2>1. b \in Brief /\ u \in Account /\ checks[b][d][u] \in Nat
    BY <1>7 DEF Selected, PassSafe, ScheduleTypeOK
  <2>2. attempt[b][u] < Window(d) /\ attempt[b][u] \in Int
    BY <1>1, <1>7, <2>1, ScheduleAssumption DEF Selected, PassSafe, ScheduleTypeOK, Time, Never
  <2>3. u \in live => checks[b][d][u] # 1
    BY <1>1, <1>3, <2>1, <2>2 DEF PassSafe, Once
  <2>4. checks[b][d][u] <= 1
    BY <1>1, <2>1 DEF PassSafe, Once
  <2> HIDE DEF u
  <2> QED  BY <2>1, <2>3, <2>4 DEF u
<1>8. ASSUME NEW b \in Brief \ Selected PROVE Attended(b, d)
  <2>1. \/ ~briefs[b].monitored \/ ~Due(b, now)
        \/ \E u \in Account : ~(attempt[b][u] < Window(d))
    BY <1>1, <1>8 DEF Selected
  <2>2. Due(b, Window(d)) => Due(b, now)
    <3>1. briefs[b] \in MonitorRow
      BY DEF PassSafe, ScheduleTypeOK
    <3>2. /\ briefs[b].last \in Int /\ Interval[briefs[b].cadence] * DayLength \in Nat /\ Slack \in Nat
      BY <3>1, ScheduleAssumption DEF MonitorRow, Time, Never
    <3> QED  BY <1>3, <3>2 DEF Due
  <2>3. ASSUME NEW u \in Account, ~(attempt[b][u] < Window(d)) PROVE served[b] >= Window(d)
    <3>1. attempt[b][u] \in Int /\ served[b] \in Int /\ attempt[b][u] <= served[b]
      BY Moments DEF PassSafe, Recent
    <3> QED  BY <1>3, <2>3, <3>1
  <2> QED  BY <2>1, <2>2, <2>3 DEF Attended
<1>9. Fresh'
  BY <1>2, <1>3, <1>7 DEF Fresh, Window
<1>10. \A b \in Brief \ pass'.todo : Attended(b, pass.day)'
  <2>1. \A b \in Brief \ Selected : Attended(b, d)'
    BY <1>1, <1>3, <1>5, <1>8, AttendedStays DEF Passes, PassSafe
  <2>2. pass'.day = d /\ pass'.todo = Selected
    BY <1>2
  <2> QED  BY <2>1, <2>2 DEF Attended, Due, Window
<1> QED  BY <1>2, <1>4, <1>5, <1>6, <1>9, <1>10, LastRunStays, RecentStays DEF PassSafe, Coverage

LEMMA CheckIsCounted ==
  ASSUME ScheduleTypeOK, NEW b \in Brief, NEW d \in Days, NEW u \in Account,
         checks' = [checks EXCEPT ![b][d][u] = @ + 1]
  PROVE  /\ checks' \in [Brief -> [Days -> [Account -> Nat]]]
         /\ checks'[b][d][u] = checks[b][d][u] + 1
         /\ \A c \in Brief, e \in Days, v \in Account :
              <<c, e, v>> # <<b, d, u>> => checks'[c][e][v] = checks[c][e][v]
<1> DEFINE of == checks[b]
           on == of[d]
           more == [on EXCEPT ![u] = @ + 1]
<1>1. /\ checks \in [Brief -> [Days -> [Account -> Nat]]]
      /\ of \in [Days -> [Account -> Nat]] /\ on \in [Account -> Nat]
  <2>1. checks \in [Brief -> [Days -> [Account -> Nat]]]
    BY DEF ScheduleTypeOK
  <2> QED  BY <2>1
<1>2. checks' = [checks EXCEPT ![b] = [of EXCEPT ![d] = more]]
  OBVIOUS
<1>3. /\ more \in [Account -> Nat] /\ more[u] = on[u] + 1
      /\ \A v \in Account \ {u} : more[v] = on[v]
  BY <1>1
<1> HIDE DEF more
<1> QED  BY <1>1, <1>2, <1>3

(* A brief of the pass is scheduled, found to be checked already, or put off. *)
LEMMA WalkKeeps ==
  ASSUME PassSafe, NEW b \in Brief, PassEnqueues(b) \/ PassSkips(b) \/ PassDefers(b)
  PROVE  PassSafe'
<1>1. PICK d \in Days : d = pass.day
  BY DEF PassSafe, ScheduleTypeOK
<1>2. PICK T \in SUBSET Brief : T = pass.todo
  BY DEF PassSafe, ScheduleTypeOK
<1>3. /\ pc = "pass" /\ b \in T
      /\ UNCHANGED <<now, briefs, ownerOf, live, running, lastRun, pc, cadenceSet>>
      /\ pass'.day = d /\ pass'.todo = T \ {b} /\ pass'.owner = pass.owner
      /\ pass.owner \in [Brief -> Account]
      /\ pass' \in [day : Days, todo : SUBSET Brief, owner : [Brief -> Account], deferred : Nat]
      /\ pass'.deferred = 0 => pass.deferred = 0 /\ ~PassDefers(b)
  <2>1. pc = "pass" /\ b \in T
    BY <1>2 DEF PassEnqueues, PassSkips, PassDefers, IsNext
  <2>2. UNCHANGED <<now, briefs, ownerOf, live, running, lastRun, pc, cadenceSet>>
    BY DEF PassEnqueues, PassSkips, PassDefers, userVars, accountVars
  <2>3. /\ pass \in [day : Days, todo : SUBSET Brief, owner : [Brief -> Account], deferred : Nat]
        /\ \/ pass' = [pass EXCEPT !.todo = @ \ {b}] /\ ~PassDefers(b)
           \/ pass' = [pass EXCEPT !.todo = @ \ {b}, !.deferred = @ + 1]
    BY DEF PassEnqueues, PassSkips, PassDefers, PassSafe, ScheduleTypeOK
  <2>4. CASE pass' = [pass EXCEPT !.todo = @ \ {b}] /\ ~PassDefers(b)
    BY <1>1, <1>2, <2>1, <2>2, <2>3, <2>4
  <2>5. CASE pass' = [pass EXCEPT !.todo = @ \ {b}, !.deferred = @ + 1]
    <3>1. /\ pass'.deferred = pass.deferred + 1 /\ pass.deferred \in Nat
          /\ pass'.day = d /\ pass'.todo = T \ {b}
          /\ pass' = [day |-> d, todo |-> T \ {b}, owner |-> pass.owner,
                      deferred |-> pass.deferred + 1]
      BY <1>1, <1>2, <2>3, <2>5
    <3>2. pass'.deferred # 0
      BY <3>1
    <3> QED  BY <2>1, <2>2, <2>3, <3>1, <3>2
  <2> QED  BY <2>3, <2>4, <2>5
<1> DEFINE o == pass.owner[b]
<1>4. /\ now \in Nat /\ d \in Nat /\ Window(d) \in Nat /\ Window(d) <= now
      /\ \A c \in T : pass.owner[c] \in live => checks[c][d][pass.owner[c]] = 0
  <2>1. d \in Nat /\ Window(d) \in Nat
    BY WindowIsNat DEF Days
  <2>2. now \in Nat
    BY Moments DEF PassSafe
  <2>3. Window(d) <= now /\ \A c \in T : pass.owner[c] \in live => checks[c][d][pass.owner[c]] = 0
    BY <1>1, <1>2, <1>3 DEF PassSafe, Fresh
  <2> QED  BY <2>1, <2>2, <2>3
<1>5. /\ Passes
      /\ Attended(b, d)' \/ pass'.deferred # 0
  <2>1. CASE PassEnqueues(b)
    <3>1. o \in Account /\ EnqueueCheck(b, o)
      BY <1>3, <2>1 DEF PassEnqueues
    <3>2. /\ queue' \in Seq(Job) /\ attempt' \in [Brief -> [Account -> Time \union {Never}]]
          /\ served' \in [Brief -> Time \union {Never}]
          /\ \A c \in Brief : Pending(c) => Pending(c)'
          /\ served'[b] = now /\ attempt'[b][o] = now
          /\ \A c \in Brief \ {b} : attempt'[c] = attempt[c] /\ served'[c] = served[c]
          /\ \A v \in Account \ {o} : attempt'[b][v] = attempt[b][v]
      BY <1>3, <3>1, EnqueueMoves DEF PassSafe
    <3>4. checks' \in [Brief -> [Days -> [Account -> Nat]]]
      BY <3>1, <1>1, <2>1, CheckIsCounted DEF PassSafe, PassEnqueues
    <3>5. ScheduleTypeOK'
      BY <1>3, <3>2, <3>4 DEF PassSafe, ScheduleTypeOK
    <3>6. \A c \in Brief : Moved(c) /\ Asked(c)
      BY <1>3, <3>2 DEF Moved, Left, Asked
    <3> QED  BY <1>3, <1>4, <3>2, <3>5, <3>6 DEF Passes, Attended, Window
  <2>2. CASE PassSkips(b) \/ PassDefers(b)
    <3>1. UNCHANGED <<attempt, served, queue, checks>>
      BY <2>2 DEF PassSkips, PassDefers
    <3>2. \A c \in Brief : Left(c) /\ Asked(c)
      BY <1>3, <3>1, PendingIs, PendingNext DEF Left, Asked, Waiting, InHand
    <3>3. ScheduleTypeOK'
      BY <1>3, <3>1 DEF PassSafe, ScheduleTypeOK
    <3>4. Passes
      BY <1>3, <1>4, <3>1, <3>2, <3>3 DEF Passes, Moved, Left
    <3>5. PassSkips(b) => Attended(b, d)'
      BY <3>2 DEF PassSkips, Left, Attended
    <3> QED  BY <1>3, <2>2, <3>4, <3>5
  <2> QED  BY <2>1, <2>2
<1>6. Once' /\ Fresh'
  <2>1. /\ \A c \in Brief, e \in Days, u \in Account :
             <<c, e, u>> # <<b, d, o>> => checks'[c][e][u] = checks[c][e][u]
        /\ \/ checks'[b][d][o] = checks[b][d][o]
           \/ checks'[b][d][o] = 1 /\ attempt'[b][o] = now
    <3>1. CASE PassEnqueues(b)
      <4>1. o \in Account /\ o \in live /\ attempt' = [attempt EXCEPT ![b][o] = now]
        BY <1>3, <3>1 DEF PassEnqueues, EnqueueCheck
      <4>2. attempt'[b][o] = now
        BY <4>1 DEF PassSafe, ScheduleTypeOK
      <4>3. checks[b][d][o] = 0
        BY <1>3, <1>4, <4>1
      <4> QED  BY <1>1, <3>1, <4>1, <4>2, <4>3, CheckIsCounted DEF PassSafe, PassEnqueues
    <3>2. CASE PassSkips(b) \/ PassDefers(b)
      BY <3>2 DEF PassSkips, PassDefers
    <3> QED  BY <3>1, <3>2
  <2>2. Once'
    <3> SUFFICES ASSUME NEW c \in Brief, NEW e \in Days, NEW u \in Account
                 PROVE  /\ checks'[c][e][u] <= 1
                        /\ checks'[c][e][u] = 1 =>
                             now' >= Window(e) /\ (u \in live' => attempt'[c][u] >= Window(e))
      BY DEF Once, Window
    <3>1. CASE checks'[c][e][u] = checks[c][e][u]
      BY <1>5, <3>1, OnceStays DEF PassSafe, Once
    <3>2. CASE c = b /\ e = d /\ u = o /\ checks'[b][d][o] = 1 /\ attempt'[b][o] = now
      BY <1>3, <1>4, <3>2
    <3> QED  BY <2>1, <3>1, <3>2
  <2>3. \A c \in T \ {b} : pass.owner[c] \in live => checks'[c][d][pass.owner[c]] = 0
    BY <1>1, <1>2, <1>3, <1>4, <2>1
  <2> QED  BY <1>3, <1>4, <2>2, <2>3 DEF Fresh, Window
<1>7. pass'.deferred = 0 => \A c \in Brief \ pass'.todo : Attended(c, pass.day)'
  <2>1. SUFFICES ASSUME pass'.deferred = 0, NEW c \in Brief \ (T \ {b}) PROVE Attended(c, pass.day)'
    BY <1>3
  <2>2. Attended(c, d)'
    <3>1. CASE c = b
      BY <1>5, <2>1, <3>1
    <3>2. CASE c # b
      <4>1. Attended(c, d)
        BY <1>1, <1>2, <1>3, <2>1, <3>2 DEF PassSafe, Coverage
      <4> QED  BY <1>4, <1>5, <4>1, AttendedStays DEF PassSafe, Passes
    <3> QED  BY <3>1, <3>2
  <2> QED  BY <1>3, <2>2 DEF Attended, Due, Window
<1> QED  BY <1>3, <1>5, <1>6, <1>7, LastRunStays, RecentStays DEF PassSafe, Passes, Coverage

LEMMA CloseKeeps ==
  ASSUME PassSafe, ClosePass
  PROVE  PassSafe'
<1>1. /\ UNCHANGED <<now, briefs, ownerOf, live, attempt, served, queue, running, checks, cadenceSet>>
      /\ pc = "pass" /\ pass.todo = {} /\ pc' = "claim" /\ pass' = NoPass
      /\ lastRun' = IF pass.deferred = 0 THEN pass.day ELSE lastRun
  BY DEF ClosePass, userVars, accountVars
<1>2. NoPass \in [day : Days, todo : SUBSET Brief, owner : [Brief -> Account], deferred : Nat]
  <2>1. Horizon \in Nat
    BY ScheduleAssumption
  <2> QED  BY <2>1, DayFacts, ScheduleAssumption DEF NoPass, Days
<1>3. ScheduleTypeOK'
  BY <1>1, <1>2 DEF PassSafe, ScheduleTypeOK
<1>4. \A b \in Brief : Left(b) /\ Asked(b)
  BY <1>1, PendingIs, PendingNext DEF Left, Asked, Waiting, InHand
<1>5. Passes
  <2>1. now <= now' /\ live' \subseteq live
    BY <1>1, Moments DEF PassSafe
  <2> QED  BY <1>3, <1>4, <2>1 DEF Passes, Moved
<1>6. Once' /\ Fresh' /\ Recent'
  <2>1. Recent'
    BY <1>5, RecentStays
  <2> QED  BY <1>1, <1>5, <2>1, OnceStays DEF Once, Fresh, PassSafe, Window
<1>7. CASE lastRun' = lastRun
  BY <1>1, <1>3, <1>5, <1>6, <1>7, LastRunStays DEF PassSafe, Coverage
<1>8. CASE lastRun' = pass.day /\ pass.deferred = 0
  <2>1. PICK d \in Days : d = pass.day
    BY DEF PassSafe, ScheduleTypeOK
  <2>2. d \in Nat /\ Window(d) <= now /\ \A b \in Brief : Attended(b, d)
    BY <1>1, <1>8, <2>1 DEF PassSafe, Fresh, Coverage, Days
  <2>3. \A b \in Brief : Attended(b, d)'
    BY <2>2, <1>5, AttendedStays DEF PassSafe, Passes
  <2>4. Window(lastRun') <= now' /\ \A b \in Brief : Attended(b, lastRun)'
    BY <1>1, <1>8, <2>1, <2>2, <2>3 DEF Attended, Due, Window
  <2> QED  BY <1>1, <1>3, <1>6, <2>4 DEF PassSafe, Coverage, Window
<1> QED  BY <1>1, <1>7, <1>8

LEMMA ScheduleStart == ScheduleInit => PassSafe
<1> SUFFICES ASSUME ScheduleInit PROVE PassSafe
  OBVIOUS
<1>1. 0 \in Days /\ 0 \in Time
  <2>1. Horizon \in Nat
    BY ScheduleAssumption
  <2> QED  BY <2>1, DayFacts DEF Days, Time
<1>2. <<>> \in Seq(Job)
  OBVIOUS
<1>3. briefs \in [Brief -> MonitorRow]
  BY <1>1, ScheduleAssumption DEF ScheduleInit, MonitorRow
<1>4. ScheduleTypeOK
  BY <1>1, <1>2, <1>3, ScheduleAssumption DEF ScheduleInit, ScheduleTypeOK, NoJob, NoPass
<1>5. Once /\ Fresh /\ Coverage
  BY DEF ScheduleInit, Once, Fresh, Coverage
<1>6. Recent
  BY DEF ScheduleInit, Recent, Never
<1> QED  BY <1>4, <1>5, <1>6 DEF PassSafe

LEMMA ScheduleStep == PassSafe /\ [ScheduleNext]_scheduleVars => PassSafe'
<1> SUFFICES ASSUME PassSafe, [ScheduleNext]_scheduleVars PROVE PassSafe'
  OBVIOUS
<1>1. CASE UNCHANGED scheduleVars
  <2>1. UNCHANGED <<now, briefs, ownerOf, live, attempt, queue, running, lastRun, pc, pass,
                    checks, served, cadenceSet>>
    BY <1>1 DEF scheduleVars
  <2>2. ScheduleTypeOK'
    BY <2>1 DEF PassSafe, ScheduleTypeOK
  <2>3. \A b \in Brief : Left(b) /\ Asked(b)
    BY <2>1, PendingIs, PendingNext DEF Left, Asked, Waiting, InHand
  <2>4. now <= now' /\ live' \subseteq live
    BY <2>1, Moments DEF PassSafe
  <2> QED  BY <2>1, <2>2, <2>3, <2>4, ElsewhereKeeps DEF PassSafe, Passes, Moved, Elsewhere
<1>2. CASE Tick \/ Users
  BY <1>2, UsersPass, ElsewhereKeeps DEF PassSafe
<1>3. CASE \/ PassThrows \/ Crash \/ NoPassToday \/ Claim \/ \E r \in BOOLEAN : EndJob(r)
           \/ \E b \in Brief : PassLosesOwner(b)
  BY <1>3, LoopPasses, ElsewhereKeeps DEF PassSafe
<1>4. CASE OpenPass \/ ClosePass \/ \E b \in Brief : PassEnqueues(b) \/ PassSkips(b) \/ PassDefers(b)
  BY <1>4, OpenKeeps, CloseKeeps, WalkKeeps
<1> QED  BY <1>1, <1>2, <1>3, <1>4 DEF ScheduleNext, WorkerLoop, Scheduler

(* Types of the scheduler and of the requests it races with (monitorScheduler.ts). *)
THEOREM ScheduleTypes == ScheduleSafeSpec => []ScheduleTypeOK
<1>1. PassSafe => ScheduleTypeOK
  BY DEF PassSafe
<1> QED  BY <1>1, ScheduleStart, ScheduleStep, PTL DEF ScheduleSafeSpec

(* The scheduler creates at most one check of a brief per day for the same    *)
(* account, for any number of briefs, any cadences and limits, however often  *)
(* a pass is repeated and whichever accounts are deleted.                     *)
THEOREM OnceADay == ScheduleSafeSpec => []ScheduledOncePerDay
<1>1. PassSafe => ScheduledOncePerDay
  BY DEF PassSafe, Once, ScheduledOncePerDay
<1> QED  BY <1>1, ScheduleStart, ScheduleStep, PTL DEF ScheduleSafeSpec

(* A day that is marked complete has missed no brief that was due when its    *)
(* window opened.                                                             *)
THEOREM DayCovered == ScheduleSafeSpec => []CompletedDayCoversAll
<1>1. PassSafe => CompletedDayCoversAll
  <2> SUFFICES ASSUME PassSafe, lastRun = Day(now) PROVE CompletedDayCoversAll
    BY DEF CompletedDayCoversAll
  <2>1. lastRun # Never
    BY ScheduleAssumption, DayInTime DEF PassSafe, ScheduleTypeOK, Days, Never
  <2> QED  BY <2>1 DEF PassSafe, Coverage, Attended, CompletedDayCoversAll
<1> QED  BY <1>1, ScheduleStart, ScheduleStep, PTL DEF ScheduleSafeSpec

------------------------------------------------------------------------------
(* A walk through the Journal *)

(* An address that was written is read back as what it was written for. *)
LEMMA ReadBack ==
  /\ \A place \in Place : \A l : ParseLocation(Address(place, HashForNavigation(l, place))) = place
  /\ \A l : ParseLocation(Canonical(l)) = ParseLocation(l)
  /\ \A p \in Post : ParseLocation(Address(Timeline, p)) = Timeline
  /\ \A l, p : p # NoPost => ParseLocation(Canonical(Address(l, p))) = Timeline
<1>1. ASSUME NEW place \in Place, NEW l
      PROVE  ParseLocation(Address(place, HashForNavigation(l, place))) = place
  <2>1. place = [workspace |-> place.workspace, tab |-> place.tab]
        /\ (place.workspace = "timeline" => place = Timeline)
    BY DEF Place, Timeline
  <2> QED  BY <2>1 DEF ParseLocation, Address, HashForNavigation
<1>2. ASSUME NEW l PROVE ParseLocation(Canonical(l)) = ParseLocation(l)
  BY DEF ParseLocation, Canonical, Address, Timeline
<1>3. \A p \in Post : ParseLocation(Address(Timeline, p)) = Timeline
  BY DeskAssumption DEF ParseLocation, Address, Timeline
<1>4. ASSUME NEW l, NEW p, p # NoPost PROVE ParseLocation(Canonical(Address(l, p))) = Timeline
  BY <1>4, <1>2 DEF ParseLocation, Address
<1> QED  BY <1>1, <1>2, <1>3, <1>4

LEMMA DeskAgrees == AddressAgrees /\ [DeskNext]_deskVars => AddressAgrees'
<1> SUFFICES ASSUME AddressAgrees, [DeskNext]_deskVars PROVE onScreen' = ParseLocation(location')
  BY DEF AddressAgrees, ParseLocation
<1>1. CASE UNCHANGED <<onScreen, location>>
  BY <1>1 DEF AddressAgrees
<1>2. CASE ApplyHash
  <2>1. location.hash # NoPost
    BY <1>2 DEF ApplyHash, Armed
  <2>2. \/ UNCHANGED <<onScreen, location>>
        \/ onScreen' = Timeline /\ location' = Address(Timeline, location.hash)
    BY <1>2 DEF ApplyHash
  <2>3. ParseLocation(Address(Timeline, location.hash)) = Timeline
    BY <2>1 DEF ParseLocation, Address
  <2> QED  BY <1>1, <2>2, <2>3
<1>3. CASE ArriveFromRadar
  BY <1>3 DEF ArriveFromRadar
<1>4. CASE Back
  BY <1>4, ReadBack DEF Back
<1>5. ASSUME NEW place \in Place, Navigate(place) PROVE onScreen' = ParseLocation(location')
  BY <1>5, ReadBack DEF Navigate, Navigated
<1>6. ASSUME NEW p \in Post, ClickLink(p) PROVE onScreen' = ParseLocation(location')
  BY <1>6, ReadBack, DeskAssumption DEF ClickLink
<1>7. CASE UNCHANGED deskVars
  BY <1>1, <1>7 DEF deskVars
<1>8. CASE \/ EndMutation \/ ToggleMentions \/ BeginMutation \/ \E r \in asked : Answer(r)
           \/ \E place \in Place, p \in Post \union {NoPost} : LeaveFromRadar(place, p)
           \/ \E f \in {"recent", "tag", "kind", "search"} : Narrow(f)
           \/ \E t \in {ThreadOf[p] : p \in Post} : ToggleExpanded(t)
  BY <1>1, <1>8 DEF EndMutation, ToggleMentions, BeginMutation, Answer, LeaveFromRadar, Narrow,
     ToggleExpanded
<1> QED  BY <1>2, <1>3, <1>4, <1>5, <1>6, <1>7, <1>8 DEF DeskNext, DeskStep

(* The screen shows what a reload of the address would show, for any entries, *)
(* threads and filters, whatever is clicked and however late answers come.    *)
THEOREM AddressHolds == DeskSpec => []AddressAgrees
<1>1. DeskInit => AddressAgrees
  BY DEF DeskInit, AddressAgrees, ParseLocation, Address, Timeline
<1> QED  BY <1>1, DeskAgrees, PTL DEF DeskSpec

------------------------------------------------------------------------------
(* The tray of research jobs *)

TrayStatus == {"none", "unknown"} \cup Active \cup Over
(* An answer, however old, is right about what it says is over.               *)
RightAboutEnds(s, rows) ==
  s \in [TrayJob -> TrayStatus] /\ \A j \in TrayJob : s[j] \in Over => rows[j] = s[j]
Asking == {"asked", "answered", "timer", "stopped", "idle", "cancel", "retry"}
TrayRequest == [stage : Asking, answer : [TrayJob -> TrayStatus]]

TraySafe ==
  /\ jobs \in [TrayJob -> TrayStatus] /\ RightAboutEnds(view, jobs)
  /\ polling \in TrayRequest /\ RightAboutEnds(polling.answer, jobs)
  /\ press \in [TrayJob -> TrayRequest]
  /\ \A j \in TrayJob : RightAboutEnds(press[j].answer, jobs)
  /\ toasts \subseteq {j \in TrayJob : jobs[j] \in {"done", "failed"}}
  /\ trayOpen \in BOOLEAN /\ StoppedShowsNothing

(* The number of active jobs on screen, -1 before the first answer. *)
LEMMA ActiveCounts == \A v : ActiveCount(v) \in Int
<1> TAKE v
<1>1. IsFiniteSet({j \in TrayJob : v[j] \in Active})
  BY TrayAssumption, FS_Subset
<1>2. Cardinality({j \in TrayJob : v[j] \in Active}) \in Nat
  BY <1>1, FS_CardinalityType
<1> QED  BY <1>2 DEF ActiveCount

(* A request just sent, a timer, or none, carries no answer.                  *)
LEMMA NoAnswerYet ==
  ASSUME NEW st \in Asking
  PROVE  /\ TrayStage(st) \in TrayRequest /\ TrayStage(st).stage = st
         /\ RightAboutEnds(TrayStage(st).answer, jobs)
BY DEF TrayStage, NoView, TrayRequest, RightAboutEnds, TrayStatus, Over, Active

(* A job that is not over may move: nothing was said of its end.              *)
LEMMA JobsMove ==
  ASSUME TraySafe, NEW j \in TrayJob, NEW x \in TrayStatus, jobs[j] \notin Over,
         jobs' = [jobs EXCEPT ![j] = x],
         NEW p \in [TrayJob -> TrayRequest], press' = p,
         \A k \in TrayJob : RightAboutEnds(p[k].answer, jobs),
         UNCHANGED <<trayOpen, view, polling, toasts>>
  PROVE  TraySafe'
<1>1. /\ jobs \in [TrayJob -> TrayStatus] /\ jobs' \in [TrayJob -> TrayStatus]
      /\ \A k \in TrayJob : jobs'[k] = IF k = j THEN x ELSE jobs[k]
  BY DEF TraySafe
<1>2. ASSUME NEW s, RightAboutEnds(s, jobs) PROVE RightAboutEnds(s, jobs')
  BY <1>1, <1>2 DEF RightAboutEnds
<1>3. toasts' \subseteq {k \in TrayJob : jobs'[k] \in {"done", "failed"}}
  BY <1>1 DEF TraySafe, Over
<1>4. StoppedShowsNothing'
  BY DEF TraySafe, StoppedShowsNothing, ActiveCount, NoView
<1>5. RightAboutEnds(view', jobs') /\ RightAboutEnds(polling'.answer, jobs')
  BY <1>2 DEF TraySafe
<1>6. \A k \in TrayJob : RightAboutEnds(press'[k].answer, jobs')
  BY <1>2
<1> QED  BY <1>1, <1>3, <1>4, <1>5, <1>6 DEF TraySafe

(* A snapshot is displayed: what it newly says is over is announced.          *)
LEMMA SnapshotShown ==
  ASSUME TraySafe, NEW s, RightAboutEnds(s, jobs), HandleSnapshot(s), jobs' = jobs
  PROVE  /\ RightAboutEnds(view', jobs')
         /\ toasts' \subseteq {j \in TrayJob : jobs'[j] \in {"done", "failed"}}
<1>1. view' = s /\ toasts' = toasts \cup Announced(s)
  BY DEF HandleSnapshot
<1>2. Announced(s) \subseteq {j \in TrayJob : jobs[j] \in {"done", "failed"}}
  BY DEF Announced, RightAboutEnds, Over
<1> QED  BY <1>1, <1>2 DEF TraySafe

(* What the tray asks and shows changes, the jobs do not. *)
LEMMA TrayScreens ==
  ASSUME TraySafe, UNCHANGED jobs,
         polling' \in TrayRequest, RightAboutEnds(polling'.answer, jobs),
         press' \in [TrayJob -> TrayRequest],
         \A k \in TrayJob : RightAboutEnds(press'[k].answer, jobs),
         RightAboutEnds(view', jobs'),
         toasts' \subseteq {j \in TrayJob : jobs'[j] \in {"done", "failed"}},
         trayOpen' \in BOOLEAN, StoppedShowsNothing'
  PROVE  TraySafe'
BY DEF TraySafe

(* After an answer the timer is set, unless a closed tray shows nothing active. *)
LEMMA TimerSet ==
  ASSUME NEW v, NEW open \in BOOLEAN
  PROVE  LET p == Next4or15(v, open) IN
         /\ p \in TrayRequest /\ RightAboutEnds(p.answer, jobs)
         /\ p.stage = "stopped" => ~open /\ ActiveCount(v) <= 0
<1>1. ActiveCount(v) \in Int
  BY ActiveCounts
<1>2. TrayStage("timer").stage = "timer" /\ TrayStage("stopped").stage = "stopped"
  BY DEF TrayStage
<1> QED  BY <1>1, <1>2, NoAnswerYet DEF Next4or15, Asking

(* One press of a button goes on. *)
LEMMA PressMoves ==
  ASSUME TraySafe, NEW j \in TrayJob, NEW p \in TrayRequest, RightAboutEnds(p.answer, jobs), PressIs(j, p)
  PROVE  /\ press' \in [TrayJob -> TrayRequest]
         /\ \A k \in TrayJob : RightAboutEnds(press'[k].answer, jobs)
BY DEF TraySafe, PressIs

(* The tray before the first answer. *)
LEMMA TrayStarts == TrayInit => TraySafe
<1> SUFFICES ASSUME TrayInit PROVE TraySafe
  OBVIOUS
<1>1. /\ jobs \in [TrayJob -> TrayStatus] /\ RightAboutEnds(NoView, jobs)
  BY DEF TrayInit, TrayStatus, Active, Over, RightAboutEnds, NoView
<1>2. TrayStage("asked").stage = "asked" /\ TrayStage("asked") \in TrayRequest
      /\ RightAboutEnds(TrayStage("asked").answer, jobs)
  BY NoAnswerYet DEF Asking
<1>3. TrayStage("idle") \in TrayRequest /\ RightAboutEnds(TrayStage("idle").answer, jobs)
  BY NoAnswerYet DEF Asking
<1> QED  BY <1>1, <1>2, <1>3 DEF TrayInit, TraySafe, StoppedShowsNothing

(* Each step of the jobs, the requests and the person at the tray. *)
LEMMA TrayMoves == TraySafe /\ [TrayNext]_trayVars => TraySafe'
<1> SUFFICES ASSUME TraySafe, [TrayNext]_trayVars PROVE TraySafe'
  OBVIOUS
<1>0. /\ jobs \in [TrayJob -> TrayStatus] /\ RightAboutEnds(jobs, jobs)
      /\ polling \in TrayRequest /\ press \in [TrayJob -> TrayRequest]
      /\ \A k \in TrayJob : RightAboutEnds(press[k].answer, jobs)
      /\ RightAboutEnds(view, jobs) /\ RightAboutEnds(polling.answer, jobs)
      /\ trayOpen \in BOOLEAN
  BY DEF TraySafe, RightAboutEnds
<1>1. CASE UNCHANGED trayVars
  BY <1>1 DEF trayVars, TraySafe, StoppedShowsNothing, ActiveCount, NoView
<1>2. CASE ServePoll
  <2>1. polling' = [stage |-> "answered", answer |-> jobs]
    BY <1>2 DEF ServePoll
  <2>2. polling' \in TrayRequest /\ polling'.stage = "answered" /\ polling'.answer = jobs
    BY <1>0, <2>1 DEF TrayRequest, Asking
  <2>3. StoppedShowsNothing'
    BY <2>2 DEF StoppedShowsNothing
  <2> QED  BY <1>0, <1>2, <2>2, <2>3, TrayScreens DEF ServePoll, TraySafe
<1>3. CASE PollArrives
  <2> DEFINE s == polling.answer
  <2>1. RightAboutEnds(view', jobs') /\ toasts' \subseteq {j \in TrayJob : jobs'[j] \in {"done", "failed"}}
    BY <1>0, <1>3, SnapshotShown DEF PollArrives
  <2>2. view' = s /\ trayOpen' = trayOpen
    BY <1>3 DEF PollArrives, HandleSnapshot
  <2>3. /\ polling' \in TrayRequest /\ RightAboutEnds(polling'.answer, jobs)
        /\ polling'.stage = "stopped" => ~trayOpen /\ ActiveCount(s) <= 0
    <3>1. CASE CountChanges(s)
      <4>1. polling' = TrayStage("asked")
        BY <1>3, <3>1 DEF PollArrives
      <4> QED  BY <4>1, NoAnswerYet DEF Asking
    <3>2. CASE ~CountChanges(s)
      <4>1. polling' = Next4or15(s, trayOpen)
        BY <1>3, <3>2 DEF PollArrives
      <4> HIDE DEF s
      <4> QED  BY <1>0, <4>1, TimerSet
    <3> QED  BY <3>1, <3>2
  <2>4. StoppedShowsNothing'
    BY <2>2, <2>3 DEF StoppedShowsNothing, ActiveCount, NoView
  <2> QED  BY <1>0, <1>3, <2>1, <2>3, <2>4, TrayScreens DEF PollArrives
<1>4. CASE PollFails
  <2>1. /\ polling' = Next4or15(view, trayOpen)
        /\ UNCHANGED <<jobs, trayOpen, view, press, toasts>>
    BY <1>4 DEF PollFails
  <2>2. /\ polling' \in TrayRequest /\ RightAboutEnds(polling'.answer, jobs)
        /\ polling'.stage = "stopped" => ~trayOpen /\ ActiveCount(view) <= 0
    BY <1>0, <2>1, TimerSet
  <2>3. StoppedShowsNothing'
    BY <2>1, <2>2 DEF StoppedShowsNothing, ActiveCount, NoView
  <2> QED  BY <1>0, <2>1, <2>2, <2>3, TrayScreens DEF TraySafe
<1>5. CASE TimerRunsOut \/ Toggle
  <2>1. /\ polling' = TrayStage("asked") /\ trayOpen' \in BOOLEAN
        /\ UNCHANGED <<jobs, view, press, toasts>>
    BY <1>0, <1>5 DEF TimerRunsOut, Toggle
  <2>2. polling' \in TrayRequest /\ RightAboutEnds(polling'.answer, jobs) /\ polling'.stage = "asked"
    BY <2>1, NoAnswerYet DEF Asking
  <2>3. StoppedShowsNothing'
    BY <2>2 DEF StoppedShowsNothing
  <2> QED  BY <1>0, <2>1, <2>2, <2>3, TrayScreens DEF TraySafe
<1>6. ASSUME NEW j \in TrayJob, JobMoves(j) PROVE TraySafe'
  <2>1. PICK x \in {"queued", "running", "done", "failed"} :
          /\ jobs[j] \in {"none", "queued", "running"} /\ jobs' = [jobs EXCEPT ![j] = x]
          /\ UNCHANGED <<trayOpen, view, polling, press, toasts>>
    BY <1>6 DEF JobMoves, JobBecomes
  <2>2. x \in TrayStatus /\ jobs[j] \notin Over
    BY <2>1 DEF TrayStatus, Active, Over
  <2> QED  BY <1>0, <2>1, <2>2, JobsMove
<1>7. ASSUME NEW j \in TrayJob, ServeCancel(j) PROVE TraySafe'
  <2>1. /\ jobs[j] \in Active /\ jobs' = [jobs EXCEPT ![j] = "cancelled"]
        /\ PressIs(j, TrayStage("asked")) /\ UNCHANGED <<trayOpen, view, polling, toasts>>
    BY <1>7 DEF ServeCancel
  <2>2. "cancelled" \in TrayStatus /\ jobs[j] \notin Over
    BY <2>1 DEF TrayStatus, Active, Over
  <2>3. TrayStage("asked") \in TrayRequest /\ RightAboutEnds(TrayStage("asked").answer, jobs)
    BY NoAnswerYet DEF Asking
  <2>4. /\ press' \in [TrayJob -> TrayRequest]
        /\ \A k \in TrayJob : RightAboutEnds(press'[k].answer, jobs)
    BY <2>1, <2>3, PressMoves
  <2> QED  BY <2>1, <2>2, <2>4, JobsMove
<1>8. ASSUME NEW j \in TrayJob, NEW new \in TrayJob, ServeRetry(j, new) PROVE TraySafe'
  <2>1. /\ jobs[new] = "none" /\ jobs' = [jobs EXCEPT ![new] = "queued"]
        /\ PressIs(j, TrayStage("asked")) /\ UNCHANGED <<trayOpen, view, polling, toasts>>
    BY <1>8 DEF ServeRetry
  <2>2. "queued" \in TrayStatus /\ jobs[new] \notin Over
    BY <2>1 DEF TrayStatus, Active, Over
  <2>3. TrayStage("asked") \in TrayRequest /\ RightAboutEnds(TrayStage("asked").answer, jobs)
    BY NoAnswerYet DEF Asking
  <2>4. /\ press' \in [TrayJob -> TrayRequest]
        /\ \A k \in TrayJob : RightAboutEnds(press'[k].answer, jobs)
    BY <2>1, <2>3, PressMoves
  <2> QED  BY <2>1, <2>2, <2>4, JobsMove
<1>9. ASSUME NEW j \in TrayJob, PressButton(j) \/ PressFails(j) \/ ServeRefetch(j) \/ RefetchFails(j)
      PROVE TraySafe'
  <2>1. PICK p \in {TrayStage("cancel"), TrayStage("retry"), TrayStage("idle"),
                    [stage |-> "answered", answer |-> jobs]} :
          PressIs(j, p) /\ UNCHANGED <<jobs, trayOpen, view, polling, toasts>>
    BY <1>9 DEF PressButton, PressFails, ServeRefetch, RefetchFails
  <2>2. p \in TrayRequest /\ RightAboutEnds(p.answer, jobs)
    <3>1. LET q == [stage |-> "answered", answer |-> jobs]
          IN  q \in TrayRequest /\ RightAboutEnds(q.answer, jobs)
      BY <1>0 DEF TrayRequest, Asking
    <3> QED  BY <2>1, <3>1, NoAnswerYet DEF Asking
  <2>3. /\ press' \in [TrayJob -> TrayRequest]
        /\ \A k \in TrayJob : RightAboutEnds(press'[k].answer, jobs)
    BY <2>1, <2>2, PressMoves
  <2>4. StoppedShowsNothing'
    BY <2>1 DEF TraySafe, StoppedShowsNothing, ActiveCount, NoView
  <2> QED  BY <1>0, <2>1, <2>3, <2>4, TrayScreens DEF TraySafe
<1>10. ASSUME NEW j \in TrayJob, RefetchArrives(j) PROVE TraySafe'
  <2> DEFINE s == press[j].answer
  <2>1. /\ PressIs(j, TrayStage("idle")) /\ HandleSnapshot(s) /\ UNCHANGED <<jobs, trayOpen>>
        /\ polling' = IF CountChanges(s) THEN TrayStage("asked") ELSE polling
    BY <1>10 DEF RefetchArrives
  <2>2. RightAboutEnds(s, jobs)
    BY <1>0
  <2> HIDE DEF s
  <2>3. RightAboutEnds(view', jobs') /\ toasts' \subseteq {k \in TrayJob : jobs'[k] \in {"done", "failed"}}
    BY <2>1, <2>2, SnapshotShown
  <2>4. TrayStage("idle") \in TrayRequest /\ RightAboutEnds(TrayStage("idle").answer, jobs)
    BY NoAnswerYet DEF Asking
  <2>5. /\ press' \in [TrayJob -> TrayRequest]
        /\ \A k \in TrayJob : RightAboutEnds(press'[k].answer, jobs)
    BY <2>1, <2>4, PressMoves
  <2>6. TrayStage("asked") \in TrayRequest /\ TrayStage("asked").stage = "asked"
        /\ RightAboutEnds(TrayStage("asked").answer, jobs)
    BY NoAnswerYet DEF Asking
  <2>7. polling' \in TrayRequest /\ RightAboutEnds(polling'.answer, jobs)
    BY <1>0, <2>1, <2>6
  <2>8. StoppedShowsNothing'
    <3>1. view' = s
      BY <2>1 DEF HandleSnapshot
    <3>2. CASE CountChanges(s)
      BY <2>1, <2>6, <3>2 DEF StoppedShowsNothing
    <3>3. CASE ~CountChanges(s)
      <4>1. polling' = polling /\ trayOpen' = trayOpen
        BY <2>1, <3>3
      <4>2. ActiveCount(view)' = ActiveCount(view)
        BY <3>1, <3>3 DEF CountChanges, ActiveCount, NoView
      <4> QED  BY <4>1, <4>2 DEF TraySafe, StoppedShowsNothing
    <3> QED  BY <3>2, <3>3
  <2> QED  BY <1>0, <2>1, <2>3, <2>5, <2>7, <2>8, TrayScreens
<1>11. ASSUME NEW j \in TrayJob, Dismiss(j) PROVE TraySafe'
  BY <1>11 DEF Dismiss, TraySafe, StoppedShowsNothing, ActiveCount, NoView
<1> QED
  BY <1>1, <1>2, <1>3, <1>4, <1>5, <1>6, <1>7, <1>8, <1>9, <1>10, <1>11 DEF TrayNext, TrayStep

(* The tray stops asking only when it is closed and shows no active job.      *)
THEOREM TrayAsksOn == TraySpec => []StoppedShowsNothing
<1>1. TraySafe => StoppedShowsNothing
  BY DEF TraySafe
<1> QED  BY <1>1, TrayStarts, TrayMoves, PTL DEF TraySpec

(* What the tray shows or announces as over is over. *)
THEOREM EndsAreTold == TraySpec => []OnlyTheEndIsTold
<1>1. TraySafe => OnlyTheEndIsTold
  BY DEF TraySafe, RightAboutEnds, OnlyTheEndIsTold
<1> QED  BY <1>1, TrayStarts, TrayMoves, PTL DEF TraySpec
==============================================================================
