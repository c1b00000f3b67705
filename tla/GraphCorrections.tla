--------------------------- MODULE GraphCorrections ---------------------------
(* A correction arrives at a valid or broken evidence graph and the cascade   *)
(* report (web/lib/accountGraph/validation.ts, computeCascadeImpact) says     *)
(* what has to be looked at again.                                            *)
EXTENDS EvidenceGraph

CONSTANT Graphs     \* the graphs that are corrected
VARIABLES graph, event, impact
correctionVars == <<graph, event, impact>>

(* A document: a sequence of records per collection; what is cited and what   *)
(* cites have ids of their own, since each kind of id has its prefix.         *)
IsDocument(g) ==
  /\ g = [c \in Collections |-> g[c]]
  /\ \A c \in Collections : g[c] \in Seq(Items(g[c]))
  /\ \A s \in Items(g.sources) :
       s = [id |-> s.id, subtype |-> s.subtype, allowed |-> s.allowed]
  /\ \A c \in {"excerpts", "evidence", "edges"} : \A d \in {"claims", "objects", "conflicts"} :
       Ids(g[c]) \cap Ids(g[d]) = {}
ASSUME CorrectionAssumption == \A g \in Graphs : IsDocument(g)

NoEvent == [type |-> "none", id |-> "none"]
(* What each kind of correction is about. *)
CollectionOf ==
  [claim_marked_wrong |-> "claims", source_marked_unreliable |-> "sources",
   evidence_excerpt_invalidated |-> "excerpts", account_object_marked_wrong |-> "objects"]

CorrectionInit == graph \in Graphs /\ event = NoEvent /\ impact = Untouched
Correct(type, id) ==
  /\ event = NoEvent
  /\ event' = [type |-> type, id |-> id]
  /\ impact' = CascadeImpact(graph, event')
  /\ UNCHANGED graph
CorrectionNext ==
  \E type \in DOMAIN CollectionOf : \E id \in Ids(graph[CollectionOf[type]]) : Correct(type, id)
CorrectionSpec == CorrectionInit /\ [][CorrectionNext]_correctionVars

-------------------------------------------------------------------------------
(* The graph once the correction is carried out: a source is no longer        *)
(* allowed, a claim, an excerpt or an object is gone from its place.          *)
Distrusting(rows, id) ==
  [i \in DOMAIN rows |-> IF rows[i].id = id THEN [rows[i] EXCEPT !.allowed = FALSE] ELSE rows[i]]
Excluding(rows, id) == [i \in {j \in DOMAIN rows : rows[j].id # id} |-> rows[i]]
Corrected ==
  [graph EXCEPT ![CollectionOf[event.type]] =
     IF event.type = "source_marked_unreliable" THEN Distrusting(@, event.id)
     ELSE Excluding(@, event.id)]
Reported == impact.claims \cup impact.objects \cup impact.conflicts

(* Every claim, object or conflict that the validator accepts before the      *)
(* correction and refuses after it is in the cascade report, also when other  *)
(* evidence is left.                                                          *)
CascadeIsComplete ==
  event # NoEvent =>
    \A error \in Errors(Corrected) \ Errors(graph) :
      error[2] \in Ids(graph.claims) \cup Ids(graph.objects) \cup Ids(graph.conflicts)
      => error[2] \in Reported
===============================================================================
