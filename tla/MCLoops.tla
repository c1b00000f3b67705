------------------------------- MODULE MCLoops -------------------------------
(* The parts that must get somewhere, one of them moving in a behaviour: the  *)
(* boot of the processes, the bell, the daily pass, the Hermes event log, a   *)
(* walk through a Journal, the tray of research jobs.                         *)
EXTENDS Migrations, NoticeBell, MonitorSchedule, HermesEvents, JournalDesk,
        ResearchTray, TLC

CONSTANTS Parts, ann, bob, j1, j2
VARIABLE part

(* A chat job of the web process and a research job of the worker. *)
MCRunner == j1 :> "web" @@ j2 :> "worker"
MCRuntime == j1 :> 0 @@ j2 :> 0

MCThread == "a" :> "a" @@ "r" :> "a" @@ "b" :> "b"
MCHidden == "a" :> {"tag", "kind"} @@ "b" :> {"recent", "search"}
MCOwner == [b \in Brief |-> IF b = 1 THEN ann ELSE bob]
MCInterval == [daily |-> 1, weekly |-> 2]

(* A part that does not move has one initial state. *)
BootIdle ==
  /\ schema = Migration /\ ledger = Migration /\ radar = "healthy"
  /\ seeded = TRUE /\ configured = Booter /\ owner = "account" /\ bootFaults = 0
  /\ boot = [p \in Booter |-> [stage |-> "serving", next |-> RadarMigration + 1]]

vars ==
  <<part, bootVars, bellVars, scheduleVars, hermesVars, deskVars, trayVars>>
On(p) == part = p /\ UNCHANGED part
Init ==
  /\ part \in Parts
  /\ IF part = "boot" THEN BootInit ELSE BootIdle
  /\ ScheduleInit
  /\ TrayInit
  /\ part = "tray" \/ \A j \in TrayJob : jobs[j] = "none"
  /\ part = "schedule" \/ \A b \in Brief : ~briefs[b].monitored
  /\ BellInit /\ HermesInit /\ DeskInit
Next ==
  \/ /\ On("boot") /\ MigrationNext
     /\ UNCHANGED <<bellVars, scheduleVars, hermesVars, deskVars, trayVars>>
  \/ /\ On("bell") /\ BellNext
     /\ UNCHANGED <<bootVars, scheduleVars, hermesVars, deskVars, trayVars>>
  \/ /\ On("schedule") /\ ScheduleNext
     /\ UNCHANGED <<bootVars, bellVars, hermesVars, deskVars, trayVars>>
  \/ /\ On("hermes") /\ HermesNext
     /\ UNCHANGED <<bootVars, bellVars, scheduleVars, deskVars, trayVars>>
  \/ /\ On("desk") /\ DeskNext
     /\ UNCHANGED <<bootVars, bellVars, scheduleVars, hermesVars, trayVars>>
  \/ /\ On("tray") /\ TrayNext
     /\ UNCHANGED <<bootVars, bellVars, scheduleVars, hermesVars, deskVars>>
Fairness ==
  /\ \A p \in Booter : WF_bootVars(On("boot") /\ BootStep(p))
  /\ WF_bellVars(On("bell") /\ PollCount)
  /\ \A k \in Kind : WF_bellVars(On("bell") /\ (Serve(k) \/ Arrive(k)))
  /\ WF_scheduleVars(On("schedule") /\ WorkerLoop)
  /\ WF_hermesVars(On("hermes") /\ HermesStep)
  /\ WF_hermesVars(On("hermes") /\ Connect)
  /\ WF_hermesVars(On("hermes") /\ Poll)
  /\ WF_deskVars(On("desk") /\ DeskStep)
  /\ WF_trayVars(On("tray") /\ TrayStep)
Spec == Init /\ [][Next]_vars /\ Fairness
==============================================================================
