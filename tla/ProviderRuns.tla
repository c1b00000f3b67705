----------------------------- MODULE ProviderRuns ----------------------------
(***************************************************************************)
(* What the worker asks of the model provider for one job: the research    *)
(* pipeline (lib/researchPipeline.ts), which tries the Hermes runtime, a   *)
(* scout, a research loop with one retry and up to two repairs, and the    *)
(* monitor check (lib/monitor.ts), a cheap triage before a deep scan.      *)
(*                                                                         *)
(* Any call may fail, and an answer may be anything the parsers tell apart.*)
(* Every call costs money, so their number is bounded whatever comes back; *)
(* and a monitor that cannot tell must not report that nothing is new.     *)
(*                                                                         *)
(* Abstractions.  A text is the class the parser puts it in.  An answer    *)
(* over the size limit is a call that failed.  Prompts, tokens and the     *)
(* retry inside the SDK are left out.                                      *)
(***************************************************************************)
EXTENDS Integers

CONSTANTS
  MaxContinuations,   \* MODE_CONFIG: continuations of the loop, by mode
  ScoutContinuations, \* SOURCE_DISCOVERY_MAX_CONTINUATIONS
  CheckIterations     \* TRIAGE_MAX_ITERATIONS, MAX_TOOL_ITERATIONS

Mode == {"quick", "standard", "deep"}

ASSUME ProviderAssumption ==
  /\ MaxContinuations \in [Mode -> Nat]
  /\ ScoutContinuations \in Nat /\ CheckIterations \in Nat \ {0}

VARIABLES
  mode,
  at,       \* the stage of the job, or how it ended
  round,    \* iterations of the current loop before this one
  text,     \* what was parsed last
  origin,   \* the stage that wrote it, or ended the check
  repaired, \* quality.repaired
  attempts, \* quality.research_attempts
  calls     \* calls of the provider

providerVars == <<mode, at, round, text, origin, repaired, attempts, calls>>

Text == {"none", "truncated", "garbled", "invalid", "valid"}
Stage == {"hermes", "scout", "research", "parse", "check", "repair", "triage", "scan"}

FirstStage(m) == IF m = "quick" THEN "research" ELSE "scout"

ProviderInit ==
  /\ mode = "none" /\ at = "claimed"
  /\ round = 0 /\ calls = 0 /\ attempts = 0
  /\ text = "none" /\ origin = "none"
  /\ repaired = FALSE

(* the worker runs a claimed job; the Hermes path is a setting *)
Begin(m) ==
  /\ at = "claimed" /\ mode' = m
  /\ IF m = "monitor" THEN at' = "triage" ELSE at' \in {"hermes", FirstStage(m)}
  /\ UNCHANGED <<round, text, origin, repaired, attempts, calls>>

Call == calls' = calls + 1
Go(stage) == at' = stage /\ round' = 0

------------------------------------------------------------------------------
(* Research *)

(* runResearchViaHermes validates what it returns; a failure falls back to
   the direct path *)
AskHermes(ok) ==
  /\ at = "hermes" /\ Call
  /\ IF ok THEN Go("delivered") /\ text' = "valid" /\ origin' = "hermes"
     ELSE Go(FirstStage(mode)) /\ UNCHANGED <<text, origin>>
  /\ UNCHANGED <<mode, repaired, attempts>>

(* the fake provider's brief, or no key: the direct path ends before a call *)
DirectStart == at = FirstStage(mode) /\ round = 0 /\ attempts = 0
FakeBrief ==
  /\ DirectStart /\ Go("delivered")
  /\ text' = "valid" /\ origin' = "fake" /\ attempts' = 1
  /\ UNCHANGED <<mode, repaired, calls>>
NoKey ==
  /\ DirectStart /\ Go("failed")
  /\ UNCHANGED <<mode, text, origin, repaired, attempts, calls>>

(* one call of findSources: any end of it leads on to the research *)
AskScout(pauses) ==
  /\ at = "scout" /\ Call
  /\ IF pauses /\ round < ScoutContinuations
     THEN round' = round + 1 /\ UNCHANGED at
     ELSE Go("research")
  /\ UNCHANGED <<mode, text, origin, repaired, attempts>>

(* one call of runResearchLoop; a pause in the last round counts as the end *)
AskResearch(pauses, t) ==
  /\ at = "research" /\ Call
  /\ IF pauses /\ round < MaxContinuations[mode]
     THEN round' = round + 1 /\ UNCHANGED <<at, text, origin, attempts>>
     ELSE Go("parse") /\ text' = t /\ origin' = "research" /\ attempts' = attempts + 1
  /\ UNCHANGED <<mode, repaired>>

\* Mutant of Retries: the loop is run again for as long as its text is cut off.
RetriesAlways == text = "truncated"

(* a text that was cut off is worth one more loop *)
Retries == text = "truncated" /\ attempts = 1

ParseText ==
  /\ at = "parse"
  /\ Go(CASE Retries -> "research"
          [] ~Retries /\ text = "none" -> "failed"
          [] ~Retries /\ text \in {"truncated", "garbled"} -> "repair"
          [] ~Retries /\ text \in {"invalid", "valid"} -> "check")
  /\ UNCHANGED <<mode, text, origin, repaired, attempts, calls>>

(* repairJson returns null for what it cannot parse *)
RepairJson(t) ==
  /\ at = "repair" /\ Call
  /\ IF t \in {"invalid", "valid"}
     THEN Go("check") /\ text' = t /\ origin' = "repair" /\ repaired' = TRUE
     ELSE Go("failed") /\ UNCHANGED <<text, origin, repaired>>
  /\ UNCHANGED <<mode, attempts>>

(* Brief.safeParse, and a repair whose result is taken only if it is valid *)
Accept ==
  /\ at = "check" /\ text = "valid" /\ Go("delivered")
  /\ UNCHANGED <<mode, text, origin, repaired, attempts, calls>>

RepairBrief(t) ==
  /\ at = "check" /\ text = "invalid" /\ Call
  /\ IF t = "valid"
     THEN Go("delivered") /\ text' = t /\ origin' = "repair" /\ repaired' = TRUE
     ELSE Go("failed") /\ UNCHANGED <<text, origin, repaired>>
  /\ UNCHANGED <<mode, attempts>>

(* the call throws: in a repair it counts as null, in the scout as no source *)
CallThrows ==
  /\ at \in {"research", "triage", "scan"} /\ Call /\ Go("failed")
  /\ UNCHANGED <<mode, text, origin, repaired, attempts>>

------------------------------------------------------------------------------
(* Monitor *)

(* runMonitorCheck: the deep scan runs only when something may be new *)
AfterTriage(anythingNew) == IF anythingNew THEN "scan" ELSE "nothing"
(* a triage that recorded nothing fails open *)
Undecided == AfterTriage(TRUE)

(* one iteration: the model records its result, pauses, or uses another tool,
   or stops *)
Triage(answer, stop) ==
  /\ at = "triage" /\ Call
  /\ origin' = "triage"
  /\ CASE answer # "silent" -> Go(AfterTriage(answer # "nothing"))
       [] answer = "silent" /\ stop \in {"pause_turn", "tool_use"}
            /\ round < CheckIterations - 1 -> round' = round + 1 /\ UNCHANGED at
       [] OTHER -> Go(Undecided)
  /\ UNCHANGED <<mode, text, repaired, attempts>>

(* "hollow": updates are flagged without a patch or a summary to act upon *)
ExtractFindings(answer) ==
  CASE answer = "new" -> "updates"
    [] answer \in {"nothing", "hollow"} -> "nothing"
    [] answer = "oversized" -> "failed"

(* a scan that records nothing is a no-op *)
Scan(answer, stop) ==
  /\ at = "scan" /\ Call /\ origin' = "scan"
  /\ CASE answer # "silent" -> Go(ExtractFindings(answer))
       [] answer = "silent" /\ stop \in {"pause_turn", "tool_use"}
            /\ round < CheckIterations - 1 -> round' = round + 1 /\ UNCHANGED at
       [] OTHER -> Go("nothing")
  /\ UNCHANGED <<mode, text, repaired, attempts>>

ProviderNext ==
  \/ \E m \in Mode \union {"monitor"} : Begin(m)
  \/ \E ok \in BOOLEAN : AskHermes(ok) \/ AskScout(ok)
  \/ \E t \in Text : \/ RepairJson(t) \/ RepairBrief(t)
                     \/ \E pauses \in BOOLEAN : AskResearch(pauses, t)
  \/ \E stop \in {"pause_turn", "tool_use", "end_turn"} :
        \/ \E answer \in {"silent", "new", "nothing"} : Triage(answer, stop)
        \/ \E answer \in {"silent", "new", "nothing", "hollow", "oversized"} :
             Scan(answer, stop)
  \/ FakeBrief \/ NoKey \/ ParseText \/ Accept \/ CallThrows
ProviderSpec == ProviderInit /\ [][ProviderNext]_providerVars

------------------------------------------------------------------------------
(* Properties *)

(* The calls of a job are bounded whatever the provider answers: Hermes, the
   scout's rounds, two loops and two repairs; or the rounds of a check. *)
MostCalls ==
  IF mode \notin Mode THEN 2 * CheckIterations
  ELSE 1 + (ScoutContinuations + 1) + 2 * (MaxContinuations[mode] + 1) + 2

CallsAreBounded == calls <= MostCalls
==============================================================================
