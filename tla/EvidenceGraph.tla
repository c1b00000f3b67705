---------------------------- MODULE EvidenceGraph ----------------------------
(* The evidence graph of web/lib/accountGraph: its collections, the check of  *)
(* one excerpt against its source, the validator's error list, and the report  *)
(* of what a correction touches.                                              *)
(*                                                                            *)
(* A collection is a sequence of records, as in the document.  A text is the  *)
(* way it stands in its source: "exact" or "normalized" at the cited offsets, *)
(* "elsewhere" in the source, "absent" from it, or "short" (under 20          *)
(* characters); offsets are "ok", "empty" or "outside".  An error is a code   *)
(* with the id it is reported on.                                             *)
EXTENDS Naturals, Sequences, FiniteSets, SequencesExt, Functions

Items(seq) == {seq[i] : i \in DOMAIN seq}
Ids(seq) == {r.id : r \in Items(seq)}
(* new Map(...) keeps the last record of an id. *)
LastOf(seq, id) == seq[CHOOSE i \in DOMAIN seq :
                         seq[i].id = id /\ \A j \in DOMAIN seq : seq[j].id = id => j <= i]

(* ---- verifyExcerpt ---- *)
Verdict(excerpt) ==
  IF excerpt.text = "short" THEN "text_too_short"
  ELSE IF excerpt.offsets = "empty" THEN "offsets_invalid"
  ELSE IF excerpt.offsets = "outside" THEN "offsets_out_of_range"
  ELSE IF excerpt.text = "exact" THEN "ok"
  ELSE IF excerpt.method \in {"exact_span", "manual"} THEN "exact_mismatch"
  ELSE IF excerpt.text = "normalized" THEN "ok"
  ELSE IF excerpt.text = "absent" THEN "paraphrase_not_found_in_source"
  ELSE "normalized_mismatch"

(* ---- validateAccountGraph ---- *)
Synthetic == {"legacy_brief_json", "chat_patch_event", "user_edit_event"}
Supports(g, c) ==
  {l \in Items(g.evidence) : l.claim = c.id /\ l.role \in {"supports", "partially_supports"}}

(* The source a link ends at, when both hops exist. *)
Traced(g, l) == l.excerpt \in Ids(g.excerpts)
                /\ LastOf(g.excerpts, l.excerpt).source \in Ids(g.sources)
Origin(g, l) == LastOf(g.sources, LastOf(g.excerpts, l.excerpt).source)

LegacyOnly(g, c) ==
  /\ Supports(g, c) # {}
  /\ \A l \in Supports(g, c) : Traced(g, l) /\ Origin(g, l).subtype \in Synthetic
ValidSupport(g, c) ==
  \E l \in Supports(g, c) :
    /\ Traced(g, l)
    /\ Origin(g, l).allowed /\ Origin(g, l).subtype \notin Synthetic
    /\ Verdict(LastOf(g.excerpts, l.excerpt)) = "ok"

Collections == {"sources", "excerpts", "claims", "evidence", "objects", "edges", "conflicts"}
DuplicateErrors(g) ==
  UNION {{<<"duplicate_id", id>> : id \in
            {i \in Ids(g[c]) : Cardinality({k \in DOMAIN g[c] : g[c][k].id = i}) > 1}}
         : c \in Collections}
ExcerptErrors(g) ==
  {<<"invented_source_reference", e.id>> : e \in
     {x \in Items(g.excerpts) : x.source \notin Ids(g.sources)}}
  \cup {<<"excerpt_verification_failed", e.id>> : e \in
     {x \in Items(g.excerpts) : x.source \in Ids(g.sources) /\ Verdict(x) # "ok"}}
LinkErrors(g) ==
  {<<"invented_claim_reference", l.id>> : l \in
     {x \in Items(g.evidence) : x.claim \notin Ids(g.claims)}}
  \cup {<<"invented_excerpt_reference", l.id>> : l \in
     {x \in Items(g.evidence) : x.excerpt \notin Ids(g.excerpts)}}
VerifiedErrors(g, c) ==
  {code \in {"verified_from_legacy_brief_only", "verified_without_evidence",
             "disallowed_source_supports_verified_claim"} :
     CASE code = "verified_from_legacy_brief_only" -> LegacyOnly(g, c)
       [] code = "verified_without_evidence" -> ~ValidSupport(g, c)
       [] OTHER -> \E l \in Supports(g, c) : Traced(g, l) /\ ~Origin(g, l).allowed}
ClaimErrors(g) ==
  UNION {{<<code, c.id>> : code \in
            (IF c.provenance = "verified" THEN VerifiedErrors(g, c) ELSE {})
            \cup (IF c.confidence = "high" /\ \A l \in Supports(g, c) : l.strength = "weak"
                  THEN {"high_confidence_without_strong_evidence"} ELSE {})}
         : c \in Items(g.claims)}
Exists(g, end) == end.id \in Ids(g[end.kind])
ReferenceErrors(g) ==
  {<<"invented_claim_reference", o.id>> : o \in
     {x \in Items(g.objects) \cup Items(g.conflicts) : ~(x.claims \subseteq Ids(g.claims))}}
  \cup {<<"edge_missing_endpoint", e.id>> : e \in
     {x \in Items(g.edges) : ~Exists(g, x.from) \/ ~Exists(g, x.to)}}
Errors(g) == DuplicateErrors(g) \cup ExcerptErrors(g) \cup LinkErrors(g)
               \cup ClaimErrors(g) \cup ReferenceErrors(g)

(* ---- computeCascadeImpact ---- *)
LinksTo(g, e) == {l \in Items(g.evidence) : l.excerpt = e}
ClaimsOn(g, e) == {l.claim : l \in LinksTo(g, e)}
Untouched == [claims |-> {}, objects |-> {}, excerpts |-> {}, evidence |-> {}, conflicts |-> {}]
ConflictsOn(g, cs) == {c.id : c \in {x \in Items(g.conflicts) : x.claims \cap cs # {}}}

(* The other ends, of one kind, of a node's edges. *)
Neighbours(g, id, edgeKinds, kind) ==
  {e.to.id : e \in {x \in Items(g.edges) : x.kind \in edgeKinds /\ x.from.id = id /\ x.to.kind = kind}}
  \cup {e.from.id : e \in {x \in Items(g.edges) : /\ x.kind \in edgeKinds /\ x.from.id # id
                                                  /\ x.to.id = id /\ x.from.kind = kind}}
ClaimImpact(g, c) ==
  [Untouched EXCEPT
     !.claims = {c} \cup Neighbours(g, c, {"supports", "derived_from"}, "claims"),
     !.objects = {o.id : o \in {x \in Items(g.objects) : c \in x.claims}},
     !.conflicts = ConflictsOn(g, {c})]
(* Mutant: only claims without other support. *)
SourceImpactSole(g, s) ==
  LET excerpts == {e.id : e \in {x \in Items(g.excerpts) : x.source = s}}
      claims == {c \in UNION {ClaimsOn(g, e) : e \in excerpts} :
                   \A l \in Items(g.evidence) : l.claim = c => l.excerpt \in excerpts}
  IN [Untouched EXCEPT !.excerpts = excerpts, !.claims = claims,
        !.evidence = UNION {{l.id : l \in LinksTo(g, e)} : e \in excerpts},
        !.conflicts = ConflictsOn(g, claims)]
SourceImpact(g, s) ==
  LET excerpts == {e.id : e \in {x \in Items(g.excerpts) : x.source = s}}
      claims == UNION {ClaimsOn(g, e) : e \in excerpts}
  IN [Untouched EXCEPT !.excerpts = excerpts, !.claims = claims,
        !.evidence = UNION {{l.id : l \in LinksTo(g, e)} : e \in excerpts},
        !.conflicts = ConflictsOn(g, claims)]
ExcerptImpact(g, e) ==
  [Untouched EXCEPT !.excerpts = {e}, !.claims = ClaimsOn(g, e),
     !.evidence = {l.id : l \in LinksTo(g, e)}]
ObjectImpact(g, o) ==
  LET claims == IF o \in Ids(g.objects)
                THEN (CHOOSE x \in Items(g.objects) : x.id = o).claims ELSE {}
  IN [Untouched EXCEPT
        !.objects = {o} \cup Neighbours(g, o, {x.kind : x \in Items(g.edges)}, "objects"),
        !.claims = IF Cardinality(claims) = 1 THEN claims ELSE {}]
CascadeImpact(g, event) ==
  CASE event.type = "claim_marked_wrong" -> ClaimImpact(g, event.id)
    [] event.type = "source_marked_unreliable" -> SourceImpact(g, event.id)
    [] event.type = "evidence_excerpt_invalidated" -> ExcerptImpact(g, event.id)
    [] OTHER -> ObjectImpact(g, event.id)
==============================================================================
