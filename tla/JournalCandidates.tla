-------------------------- MODULE JournalCandidates ---------------------------
(***************************************************************************)
(* Review candidates of a brief (lib/journalReviewCandidates.ts).          *)
(*                                                                         *)
(* Of the types and the statuses only those a promotion tells apart are    *)
(* named; "other" stands for brief_update and open_question, and for       *)
(* reviewing, sent_to_brief_chat, applied and dismissed.                   *)
(***************************************************************************)
CONSTANTS
  Candidate,   \* review candidates
  NoCandidate  \* source_candidate_id NULL

ASSUME CandidatesAssumption == NoCandidate \notin Candidate

VARIABLE candidates  \* table journal_review_candidates

CandidateType == {"action_item", "decision", "other"}
Status == {"new", "accepted", "other"}
None == [type |-> "none", status |-> "none"]

CandidatesTypeOK ==
  candidates \in [Candidate -> {None} \union [type : CandidateType, status : Status]]

CandidatesInit == candidates = [c \in Candidate |-> None]

InsertCandidate(c, ty) ==
  /\ candidates[c] = None
  /\ candidates' = [candidates EXCEPT ![c] = [type |-> ty, status |-> "new"]]

(* a reviewer may set any status at any time *)
SetStatus(c, s) ==
  /\ candidates[c] # None /\ candidates[c].status # s
  /\ candidates' = [candidates EXCEPT ![c].status = s]

CandidatesNext ==
  \E c \in Candidate :
    \/ \E ty \in CandidateType : InsertCandidate(c, ty)
    \/ \E s \in Status : SetStatus(c, s)
==============================================================================
