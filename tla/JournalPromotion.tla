--------------------------- MODULE JournalPromotion ---------------------------
(***************************************************************************)
(* The promotion of review candidates to tasks and decisions               *)
(* (lib/journalPromotion.ts), composed with the candidates, the checklist  *)
(* and the decision log.                                                   *)
(*                                                                         *)
(* A promotion is one transaction.  The user may repeat it, another may    *)
(* have promoted the candidate already, and the record may be deleted and  *)
(* the candidate promoted again.  Who may call what is not modelled.       *)
(***************************************************************************)
EXTENDS JournalTasks, JournalDecisions

promotionVars == <<tasks, recorded, decisions, candidates>>
decisionVars == <<recorded, decisions>>

PromotionTypeOK == TasksTypeOK /\ DecisionsTypeOK /\ CandidatesTypeOK

PromotionInit == TasksInit /\ DecisionsInit /\ CandidatesInit

------------------------------------------------------------------------------
TasksFrom(c) == {t \in Live : tasks[t].source = c}
DecisionsFrom(c) == {d \in 1..recorded : Kept(d) /\ decisions[d].source = c}

(* existingPromotion: the record is returned and nothing is written *)
Promoted(c) == TasksFrom(c) # {} \/ DecisionsFrom(c) # {}

PromoteToTask(c, t) ==
  /\ ~Promoted(c)
  /\ candidates[c] = [type |-> "action_item", status |-> "accepted"]
  /\ InsertTask(t, NoTask, c)
  /\ UNCHANGED <<decisionVars, candidates>>

PromoteToDecision(c) ==
  /\ ~Promoted(c)
  /\ candidates[c] = [type |-> "decision", status |-> "accepted"]
  /\ InsertDecision(0, c)
  /\ UNCHANGED <<tasks, candidates>>

PromotionNext ==
  \/ TasksNext /\ UNCHANGED <<decisionVars, candidates>>
  \/ DecisionsNext /\ UNCHANGED <<tasks, candidates>>
  \/ CandidatesNext /\ UNCHANGED <<tasks, decisionVars>>
  \/ \E c \in Candidate :
       PromoteToDecision(c) \/ \E t \in TaskId : PromoteToTask(c, t)

PromotionSpec == PromotionInit /\ [][PromotionNext]_promotionVars

------------------------------------------------------------------------------
(* A candidate has at most one live record, a task or a decision and never
   both, however often and by whomever it is promoted, whatever its status
   becomes in between, and although a record can be deleted and made anew.
   The unique indexes on source_candidate_id never have to refuse a row. *)
OneRecordPerCandidate ==
  \A c \in Candidate :
    /\ \A s, t \in TasksFrom(c) : s = t
    /\ \A d, e \in DecisionsFrom(c) : d = e
    /\ TasksFrom(c) # {} => candidates[c].type = "action_item"
    /\ DecisionsFrom(c) # {} => candidates[c].type = "decision"

(* RecordStands of every step. *)
DecisionHistory == [][RecordStands]_promotionVars
==============================================================================
