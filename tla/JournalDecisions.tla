--------------------------- MODULE JournalDecisions ---------------------------
(***************************************************************************)
(* The decision log of a brief (lib/journalDecisions.ts): a decision is    *)
(* active, is superseded by a later one, or is revoked; only a decision    *)
(* outside every chain can be deleted.                                     *)
(*                                                                         *)
(* Every operation is one transaction without an await.  A decision's text *)
(* and dates are not modelled.  The three unique indexes on live decisions *)
(* are left out: the properties show that they never refuse anything.      *)
(***************************************************************************)
EXTENDS Integers, FiniteSets, JournalCandidates

CONSTANT MaxDecisions  \* bound: decisions ever recorded

ASSUME DecisionsAssumption == MaxDecisions \in Nat

DecisionId == 1..MaxDecisions

VARIABLES
  recorded,  \* decisions so far: the ids in use are 1..recorded
  decisions  \* table journal_decisions; 0 is a NULL reference

Decision ==
  [lifecycle : {"active", "superseded", "revoked"}, deleted : BOOLEAN,
   supersedes : DecisionId \union {0}, superseded_by : DecisionId \union {0},
   source : Candidate \union {NoCandidate}]
NoDecision == [lifecycle |-> "revoked", deleted |-> TRUE, supersedes |-> 0,
               superseded_by |-> 0, source |-> NoCandidate]

DecisionsTypeOK ==
  /\ recorded \in 0..MaxDecisions
  /\ decisions \in [DecisionId -> Decision]
  /\ \A d \in DecisionId : d > recorded => decisions[d] = NoDecision

DecisionsInit ==
  /\ recorded = 0
  /\ decisions = [d \in DecisionId |-> NoDecision]

------------------------------------------------------------------------------
Kept(d) == ~decisions[d].deleted
Active(d) == Kept(d) /\ decisions[d].lifecycle = "active"
Linked(d) == decisions[d].supersedes # 0 \/ decisions[d].superseded_by # 0

(* the checks on the prior decision.  The walk that looks for a cycle below it
   never finds one: supersedes points to an older id. *)
MaySupersede(p) == Active(p) /\ decisions[p].superseded_by = 0

(* insertDecision; p is 0 unless an earlier decision is superseded *)
InsertDecision(p, c) ==
  LET d == recorded + 1 IN
  /\ recorded < MaxDecisions
  /\ p # 0 => MaySupersede(p)
  /\ recorded' = d
  /\ decisions' =
       [x \in DecisionId |->
          IF x = d THEN [lifecycle |-> "active", deleted |-> FALSE,
                         supersedes |-> p, superseded_by |-> 0, source |-> c]
          ELSE IF x = p THEN [decisions[x] EXCEPT !.lifecycle = "superseded",
                                                  !.superseded_by = d]
          ELSE decisions[x]]

(* updateDecision with lifecycle "revoked" *)
RevokeDecision(d) ==
  /\ d \in 1..recorded /\ Active(d)
  /\ decisions' = [decisions EXCEPT ![d].lifecycle = "revoked"]
  /\ UNCHANGED recorded

DeleteDecision(d) ==
  /\ d \in 1..recorded /\ Kept(d) /\ ~Linked(d)
  /\ decisions' = [decisions EXCEPT ![d].deleted = TRUE]
  /\ UNCHANGED recorded

DecisionsNext ==
  \/ \E p \in {0} \union 1..recorded : InsertDecision(p, NoCandidate)
  \/ \E d \in DecisionId : RevokeDecision(d) \/ DeleteDecision(d)

------------------------------------------------------------------------------
(* Decisions form chains: a decision is superseded exactly when one later
   decision replaces it, the two name each other, and neither is ever deleted.
   So a chain never forks, never closes on itself, and has one head, which
   alone may be active. *)
DecisionChains ==
  \A d \in 1..recorded :
    LET r == decisions[d] IN
    /\ r.lifecycle = "superseded" <=> r.superseded_by # 0
    /\ r.superseded_by # 0 =>
         /\ r.superseded_by \in d + 1..recorded
         /\ decisions[r.superseded_by].supersedes = d
    /\ r.supersedes # 0 =>
         /\ r.supersedes \in 1..d - 1
         /\ decisions[r.supersedes].superseded_by = d
    /\ Linked(d) => Kept(d)

(* What was decided stays on record: a link once made is never changed, and a
   decision that is no longer active never becomes active again. *)
RecordStands ==
  \A d \in 1..recorded :
    LET r == decisions[d] s == decisions'[d] IN
    /\ s.supersedes = r.supersedes
    /\ r.superseded_by # 0 => s = r
    /\ r.lifecycle # "active" => s.lifecycle = r.lifecycle
==============================================================================
