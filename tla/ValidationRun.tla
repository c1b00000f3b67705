---------------------------- MODULE ValidationRun ----------------------------
(* The account-graph validation runner: the gates of its command line, one    *)
(* account at a time through the model adapter, the retries of each provider   *)
(* call under the run's budget, and the report and exit code.                 *)
(* web/scripts/run-account-graph-validation.ts,                               *)
(* web/lib/accountGraph/validationPipeline/.                                  *)
(*                                                                            *)
(* Costs are whole units.  "spent" is what the provider bills, which the      *)
(* program never sees as a whole; "observed" is what the budget recorded.     *)
EXTENDS EvidenceGraph

CONSTANTS
  CommandLines,     \* the command lines considered
  Accounts,         \* number of entries selected (at most three)
  FitCap, HighCap,  \* a cost ceiling under the hard cap of 25, and one above it
  Est,              \* the conservative estimate of a call, by stage
  Bill, LostBill,   \* what the provider may bill for an answer and for a lost attempt
  Overrun,          \* by how much a bill may exceed the estimate
  Proposals,        \* the excerpt lists a model may propose
  Syntheses         \* the claim lists a model may synthesize

CommandLine ==
  [mode : {"fixture", "model"}, adapter : {"none", "fake", "real"},
   corpus : {"none", "absent", "inside", "insideAbsent", "empty", "briefs"},
   missing : SUBSET {"allow", "provider", "model", "posture"},
   cost : {"default", "zero", "fits", "high", "allowed", "invalid"},
   environment : {"ready", "noKey", "callsOff"},
   out : {"default", "inside", "ignored", "outside"}]

ASSUME ValidationAssumption ==
  /\ CommandLines \subseteq CommandLine
  /\ Accounts \in 1..3 /\ FitCap \in Nat /\ HighCap \in Nat
  /\ Est \in [{"propose", "synthesize"} -> Nat \ {0}] /\ Overrun \in Nat
  /\ \A s \in DOMAIN Est : Bill[s] \cup LostBill \subseteq 0..(Est[s] + Overrun)

VARIABLES
  args, pc, exit,
  written,          \* artifacts written to the output directory
  spent,            \* what the provider has billed in this run
  budget,           \* total_observed_usd, any_unknown_estimated, recorded calls
  stageNow,         \* the stage in progress, its budget snapshot, tally and attempts
  accepted,         \* the verified excerpts of the account in progress
  violations,       \* its hard invariant violations
  results,          \* per_account rows
  graphs,           \* the graph of each account, "none" when there is none
  report            \* the classification in report.json

validationVars ==
  <<args, pc, exit, written, spent, budget, stageNow, accepted, violations, results, graphs, report>>

MaxRetries == 3
NoGraph == [Untouched EXCEPT !.claims = "none"]
NoStage == [name |-> "none", remaining |-> 0, tally |-> 0, attempt |-> 0, round |-> 0,
            before |-> 0]
Real == args.adapter = "real"
Cap == CASE args.cost = "fits" -> FitCap
         [] args.cost = "zero" -> 0
         [] args.cost = "default" -> FitCap
         [] OTHER -> HighCap

(* ---- the gates of main ---- *)
CorpusRefused == args.corpus \in {"inside", "insideAbsent"}
OutRefused == args.out \in {"inside", "default"}
NothingToRead == args.corpus \in {"absent", "empty"}   \* "empty": no entry that parses
CostRefused == args.cost \in {"high", "invalid"}   \* "high": above 25 without --allow-high-cost
RealRefused ==
  \/ args.missing # {} \/ args.cost \in {"default", "zero"} \/ CostRefused
  \/ args.corpus = "none" \/ CorpusRefused \/ OutRefused
  \/ args.environment # "ready"         \* no key, or provider calls switched off
  \/ NothingToRead
(* The operator's briefs are only measured: neither flag nor key is needed.   *)
FixtureRefused ==
  args.corpus # "none" /\ (CorpusRefused \/ NothingToRead \/ OutRefused)
CommandRefused ==
  \/ args.mode = "model" /\ Real /\ RealRefused
  \/ args.mode = "model" /\ ~Real /\ (CostRefused \/ args.adapter # "fake")
  \/ args.mode = "fixture" /\ FixtureRefused
(* What a run that is not refused writes, by whether the briefs are the       *)
(* operator's own.                                                            *)
Private == args.corpus # "none" /\ (args.mode = "fixture" \/ Real)

ValidationInit ==
  /\ args \in CommandLines
  /\ pc = "main" /\ exit = 0 /\ written = {} /\ spent = 0
  /\ budget = [observed |-> 0, unknown |-> FALSE, calls |-> 0]
  /\ stageNow = NoStage /\ accepted = << >> /\ violations = {}
  /\ results = << >> /\ graphs = << >> /\ report = "none"

Refuse ==
  /\ pc = "main" /\ CommandRefused
  /\ exit' = 1 /\ pc' = "done"
  /\ UNCHANGED <<args, written, spent, budget, stageNow, accepted, violations, results, graphs, report>>
(* Fixture mode has no graph: its invariants hold or do not apply.            *)
FixtureInvariants == {"pass", "not_applicable"}
Classify(statuses, unknown, cost) ==
  IF "fail" \in statuses THEN "fail" ELSE IF ~unknown /\ cost = 0 THEN "pass" ELSE "borderline"
RunFixture ==
  /\ pc = "main" /\ ~CommandRefused /\ args.mode = "fixture" /\ ~Private
  /\ written' = {"report", "baseline"}
  /\ report' = Classify(FixtureInvariants, FALSE, 0) /\ pc' = "done"
  /\ UNCHANGED <<args, exit, spent, budget, stageNow, accepted, violations, results, graphs>>
(* The operator's own briefs are measured only, and reported "pass".          *)
RunLocal ==
  /\ pc = "main" /\ ~CommandRefused /\ args.mode = "fixture" /\ Private
  /\ written' = {"report", "baseline", "selection"}
  /\ report' = "pass" /\ pc' = "done"
  /\ UNCHANGED <<args, exit, spent, budget, stageNow, accepted, violations, results, graphs>>
StartModel ==
  /\ pc = "main" /\ ~CommandRefused /\ args.mode = "model"
  /\ pc' = "account" /\ written' = {"directory"}
  /\ UNCHANGED <<args, exit, spent, budget, stageNow, accepted, violations, results, graphs, report>>

(* ---- runModelModeOrchestrator, runAccountThroughAdapter ---- *)
Remaining == IF budget.observed > Cap THEN 0 ELSE Cap - budget.observed
Exceeded == budget.observed > Cap
AccountRow(class, vs) == [class |-> class, violations |-> vs]
SkippedRow == AccountRow("skipped_budget_exceeded", {})

(* The account's row; when the budget stopped, the rows of those after it.    *)
EndAccount(class, vs, graph, stopped) ==
  LET rest == Accounts - Len(results) - 1
  IN /\ results' = Append(results, AccountRow(class, vs))
                     \o (IF stopped THEN [i \in 1..rest |-> SkippedRow] ELSE << >>)
     /\ graphs' = Append(graphs, graph)
     /\ pc' = IF stopped \/ rest = 0 THEN "report" ELSE "account"
     /\ stageNow' = NoStage /\ accepted' = << >> /\ violations' = {}

(* A stage takes its snapshot of the budget, and the adapter's preflight      *)
(* compares its estimate with it.                                             *)
Enter(name) ==
  /\ stageNow' = [NoStage EXCEPT !.name = name, !.remaining = Remaining,
                            !.before = spent]
  /\ pc' = IF Real /\ Est[name] > Remaining THEN "unhandled" ELSE "call"
BeginAccount ==
  /\ pc = "account"
  /\ IF Exceeded
     THEN /\ EndAccount("skipped_budget_exceeded", {}, NoGraph, TRUE)
          /\ UNCHANGED <<args, exit, written, spent, budget, report>>
     ELSE /\ Enter("propose")
          /\ UNCHANGED <<args, exit, written, spent, budget, accepted, violations, results,
                         graphs, report>>
(* The stage failed: its violation is noted, and the account goes on with     *)
(* nothing from it.                                                           *)
StageFailed ==
  /\ violations' = violations \cup {"schema_parse"}
  /\ pc' = IF stageNow.name = "propose" THEN "synthesis" ELSE "assemble"
Unhandled ==
  /\ pc = "unhandled" /\ StageFailed
  /\ UNCHANGED <<args, exit, written, spent, budget, stageNow, accepted, results, graphs, report>>

(* ---- callAndValidate around callWithRetry ---- *)
CanAfford(tally) == tally + Est[stageNow.name] <= stageNow.remaining
BudgetHalt ==
  EndAccount("budget_exceeded", violations, NoGraph, TRUE)
(* Within one attempt the SDK sends a failed request once more by itself      *)
(* (maxRetries: 1 of its client): what the first sending was billed, which    *)
(* no tally counts.                                                           *)
Resent == IF Real THEN {0} \cup LostBill ELSE {0}
(* An attempt that fails in transit; a timeout may come after the work was    *)
(* billed.                                                                    *)
AttemptFails(billed) ==
  LET tally == stageNow.tally + Est[stageNow.name]
  IN /\ pc = "call" /\ Real
     /\ spent' = spent + billed
     /\ \/ /\ stageNow.attempt = MaxRetries        \* retries exhausted
           /\ StageFailed /\ UNCHANGED <<stageNow, accepted, results, graphs>>
        \/ /\ stageNow.attempt < MaxRetries /\ ~CanAfford(tally)
           /\ BudgetHalt
        \/ /\ stageNow.attempt < MaxRetries /\ CanAfford(tally)
           /\ stageNow' = [stageNow EXCEPT !.tally = tally, !.attempt = @ + 1]
           /\ UNCHANGED <<pc, accepted, violations, results, graphs>>
     /\ UNCHANGED <<args, exit, written, budget, report>>
(* auth, bad_request, unknown: rethrown at once. *)
AttemptRejected(billed) ==
  /\ pc = "call" /\ Real
  /\ pc' = "unhandled" /\ spent' = spent + billed
  /\ UNCHANGED <<args, exit, written, budget, stageNow, accepted, violations, results, graphs,
                 report>>
(* An answer that does not parse is asked for once more. *)
AnswerInvalid(billed) ==
  LET tally == stageNow.tally + Est[stageNow.name]
  IN /\ pc = "call" /\ Real
     /\ spent' = spent + billed
     /\ \/ /\ stageNow.round = 1
           /\ StageFailed /\ UNCHANGED <<stageNow, accepted, results, graphs>>
        \/ /\ stageNow.round = 0 /\ ~CanAfford(tally)
           /\ BudgetHalt
        \/ /\ stageNow.round = 0 /\ CanAfford(tally)
           /\ stageNow' = [stageNow EXCEPT !.tally = tally, !.attempt = 0, !.round = 1]
           /\ UNCHANGED <<pc, accepted, violations, results, graphs>>
     /\ UNCHANGED <<args, exit, written, budget, report>>
(* recordCost, with the usage of the last answer only. *)
Record(cost, known, resent) ==
  /\ spent' = spent + (cost + resent)
  /\ budget' = [budget EXCEPT !.observed = IF known THEN @ + cost ELSE @,
                              !.unknown = @ \/ ~known, !.calls = @ + 1]
Costs == IF Real THEN Bill[stageNow.name] ELSE {0}

(* ---- the system's own steps ---- *)
Proposed(p, i) ==
  [id |-> i, source |-> IF p = "invented" THEN "s9" ELSE "s1",
   text |-> IF p = "invented" THEN "absent" ELSE p, offsets |-> "ok",
   method |-> "model_suggested_verified"]
IsAccepted(e) == e.source = "s1" /\ Verdict(e) = "ok"
ProposalViolations(excerpts) ==
  {v \in {"invented_source_document_ids", "accepted_paraphrases"} :
     \E e \in Items(excerpts) :
       IF v = "invented_source_document_ids" THEN e.source # "s1"
       ELSE e.source = "s1" /\ Verdict(e) = "paraphrase_not_found_in_source"}
ProposeAnswered(proposal, cost, known, resent) ==
  LET excerpts == [i \in DOMAIN proposal |-> Proposed(proposal[i], i)]
  IN /\ pc = "call" /\ stageNow.name = "propose" /\ cost \in Costs
     /\ Record(cost, known, resent)
     /\ violations' = violations \cup ProposalViolations(excerpts)
     /\ accepted' = SelectSeq(excerpts, IsAccepted)
     /\ pc' = "synthesis"
     /\ UNCHANGED <<args, exit, written, stageNow, results, graphs, report>>
BeginSynthesis ==
  /\ pc = "synthesis"
  /\ IF Exceeded THEN pc' = "assemble" /\ stageNow' = NoStage ELSE Enter("synthesize")
  /\ UNCHANGED <<args, exit, written, spent, budget, accepted, violations, results, graphs, report>>

(* The claims cite excerpts by number; those the system did not accept are    *)
(* dropped from the graph and noted.                                          *)
Cited(claim) == claim.cites \cap Ids(accepted)
Graph(claims) ==
  [sources |-> <<[id |-> "s1", subtype |-> "fixture", allowed |-> TRUE]>>,
   excerpts |-> accepted,
   claims |-> [i \in DOMAIN claims |->
      [id |-> i, provenance |-> claims[i].provenance, confidence |-> claims[i].confidence]],
   evidence |-> SetToSeq(UNION {
      {[id |-> <<i, x>>, claim |-> i, excerpt |-> x, role |-> claims[i].role,
        strength |-> claims[i].strength] : x \in Cited(claims[i])} : i \in DOMAIN claims}),
   objects |-> << >>, edges |-> << >>, conflicts |-> << >>]
(* Mutant: a verified claim without evidence is no violation. *)
InvariantWithoutEvidence(code) ==
  CASE code = "invented_source_reference" -> "invented_source_document_ids"
    [] code = "invented_excerpt_reference" -> "dangling_claim_evidence"
    [] code \in {"invented_claim_reference", "duplicate_id", "edge_missing_endpoint"} ->
         "referential_integrity"
    [] code \in {"verified_from_legacy_brief_only", "disallowed_source_supports_verified_claim",
                 "high_confidence_without_strong_evidence"} ->
         "verified_high_claims_without_accepted_excerpts"
    [] code = "excerpt_verification_failed" -> "accepted_paraphrases"
    [] OTHER -> "none"
Invariant(code) ==
  CASE code = "invented_source_reference" -> "invented_source_document_ids"
    [] code = "invented_excerpt_reference" -> "dangling_claim_evidence"
    [] code \in {"invented_claim_reference", "duplicate_id", "edge_missing_endpoint"} ->
         "referential_integrity"
    [] code \in {"verified_without_evidence", "verified_from_legacy_brief_only",
                 "disallowed_source_supports_verified_claim",
                 "high_confidence_without_strong_evidence"} ->
         "verified_high_claims_without_accepted_excerpts"
    [] code = "excerpt_verification_failed" -> "accepted_paraphrases"
    [] OTHER -> "none"
GraphViolations(graph) == {Invariant(e[1]) : e \in Errors(graph)} \ {"none"}
Assembled(claims, b, vs) ==
  LET graph == Graph(claims)
      found == vs \cup GraphViolations(graph)
      over == b.observed > Cap
  IN EndAccount(IF over THEN "budget_exceeded" ELSE IF found # {} THEN "fail" ELSE "pass",
                found, graph, over)
FakeClaims ==
  [i \in DOMAIN accepted |-> [provenance |-> "verified", confidence |-> "medium",
                              cites |-> {i}, role |-> "supports", strength |-> "medium"]]
SynthesizeAnswered(claims, cost, known, resent) ==
  /\ pc = "call" /\ stageNow.name = "synthesize" /\ cost \in Costs
  /\ Record(cost, known, resent)
  /\ Assembled(claims, budget',
       violations \cup {v \in {"invented_evidence_excerpt_ids"} :
                          \E c \in Items(claims) : Cited(c) # c.cites})
  /\ UNCHANGED <<args, exit, written, report>>
AssembleEmpty ==
  /\ pc = "assemble" /\ Assembled(<< >>, budget, violations)
  /\ UNCHANGED <<args, exit, written, spent, budget, report>>

(* ---- the report ---- *)
Classification ==
  IF Exceeded THEN "budget_exceeded"
  ELSE IF \E r \in Items(results) : r.violations # {} THEN "fail"
  ELSE IF budget.unknown THEN "borderline"
  ELSE IF \E r \in Items(results) : r.class \in {"budget_exceeded", "skipped_budget_exceeded"}
       THEN "budget_exceeded"
  ELSE "pass"
ExitCode == IF Classification = "fail" THEN 2 ELSE 0
WriteReport ==
  /\ pc = "report"
  /\ report' = Classification
  /\ written' = written \cup {"report", "baseline"}
  /\ exit' = ExitCode
  /\ pc' = "done"
  /\ UNCHANGED <<args, spent, budget, stageNow, accepted, violations, results, graphs>>

ValidationNext ==
  \/ Refuse \/ RunFixture \/ RunLocal \/ StartModel
  \/ BeginAccount \/ Unhandled \/ BeginSynthesis \/ AssembleEmpty
  \/ WriteReport
  \/ /\ pc = "call"
     /\ \E resent \in Resent :
          \/ \E known \in IF Real THEN BOOLEAN ELSE {TRUE}, cost \in Costs :
               \/ \E p \in IF Real THEN Proposals ELSE {<<"exact", "exact">>} :
                    ProposeAnswered(p, cost, known, resent)
               \/ \E c \in IF Real THEN Syntheses ELSE {FakeClaims} :
                    SynthesizeAnswered(c, cost, known, resent)
          \/ \E lost \in LostBill : AttemptFails(lost + resent)
          \/ \E cost \in Costs : AnswerInvalid(cost + resent)
          \/ AttemptRejected(resent)
ValidationSpec == ValidationInit /\ [][ValidationNext]_validationVars

-------------------------------------------------------------------------------
(* Type invariant. *)
ValidationTypeOK ==
  /\ args \in CommandLines /\ exit \in 0..2 /\ spent \in Nat
  /\ pc \in {"main", "account", "call", "unhandled", "synthesis", "assemble", "report", "done"}
  /\ written \subseteq {"directory", "report", "baseline", "selection"}
  /\ budget \in [observed : Nat, unknown : BOOLEAN, calls : 0..(2 * Accounts)]
  /\ stageNow.name \in {"none"} \cup DOMAIN Est
  /\ stageNow.attempt \in 0..MaxRetries /\ stageNow.round \in 0..1
  /\ Len(results) <= Accounts /\ Len(graphs) <= Len(results)
  /\ report \in {"none", "pass", "borderline", "fail", "budget_exceeded"}

(* A claim rests on an excerpt that stands in its source. *)
Grounded(g, c) ==
  \E l \in Items(g.evidence) :
    /\ l.claim = c.id /\ l.role \in {"supports", "partially_supports"}
    /\ \E e \in Items(g.excerpts) : e.id = l.excerpt /\ e.text \in {"exact", "normalized"}
(* A model run is reported "pass" only when every selected account is in the  *)
(* report with both its stages answered, every cost is known and under the    *)
(* ceiling, and no verified or high-confidence claim of any graph lacks an    *)
(* excerpt found in its source: whatever failed, was retried, halted or was   *)
(* dropped on the way.                                                        *)
PassIsEarned ==
  report = "pass" /\ args.mode = "model" =>
    /\ Len(results) = Accounts /\ budget.calls = 2 * Accounts
    /\ budget.observed <= Cap /\ ~budget.unknown
    /\ \A i \in DOMAIN graphs : \A c \in Items(graphs[i].claims) :
         c.provenance = "verified" \/ c.confidence = "high" => Grounded(graphs[i], c)

(* What a stage's retries and its corrective round are billed stays within    *)
(* twice what was left of the budget when the stage began, up to the error of *)
(* the estimates: the tally of reservations, not the unchanged snapshot,      *)
(* decides, and a reserved attempt may be sent twice by the SDK.              *)
StageStaysInBudget ==
  stageNow.name # "none" =>
    spent - stageNow.before <=
      2 * (stageNow.remaining + Overrun * (stageNow.tally \div Est[stageNow.name] + 1))

(* The provider is billed only when every consent flag was given, the ceiling *)
(* was explicit and the corpus lies outside the repository; the operator's    *)
(* own briefs leave traces only where Git does not see them; and a refused    *)
(* command leaves none at all.                                                *)
OnlyWithConsent ==
  /\ spent > 0 => /\ args.missing = {} /\ args.cost \notin {"default", "high", "invalid"}
                  /\ args.corpus = "briefs" /\ args.environment = "ready"
  /\ written # {} /\ Private => args.corpus = "briefs" /\ args.out \in {"ignored", "outside"}
  /\ exit = 1 => written = {} /\ spent = 0
==============================================================================
