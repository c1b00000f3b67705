---------------------------- MODULE BriefBackfill ----------------------------
(* The backfill of saved briefs into evidence graphs: fromBriefJson, the      *)
(* parity report against the brief, the verdict on each brief and on the      *)
(* corpus, and the runner that goes through the rows                         *)
(* (web/lib/accountGraph/fromBriefJson.ts, briefParity.ts, backfillReport.ts, *)
(* web/scripts/run-account-graph-backfill.ts).                                *)
(*                                                                            *)
(* A brief is the sequence of its items, in the order the mapper visits them: *)
(* [section, text, key, confidence, source].  A text is [head, words]: what a *)
(* title keeps of it and its set of words; the empty text has neither.  The   *)
(* key is an initiative's title, a persona's name, an extension's id.         *)
EXTENDS EvidenceGraph

CONSTANTS
  Corpora,        \* sequences of rows: [schema, items], the schema "brief",
                  \* "malformed" or "unsupported"
  PrefixWords,    \* the words of a footprint sub-section's name
  AttributionGap  \* claims without a source that make a brief "partial"

IsList(s) == Len(s) \in Nat /\ s = [i \in 1..Len(s) |-> s[i]]
ASSUME BackfillAssumption ==
  /\ AttributionGap \in Nat
  /\ \A rows \in Corpora :
       /\ IsList(rows)
       /\ \A i \in DOMAIN rows : rows[i].schema = "brief" =>
            /\ IsList(rows[i].items)
            /\ \A k \in DOMAIN rows[i].items : IsFiniteSet(rows[i].items[k].text.words)

VARIABLES corpus, failFast, records, artifacts, verdict
backfillVars == <<corpus, failFast, records, artifacts, verdict>>

Footprint == {"ai_in_production", "active_pilots", "cloud_platforms", "competitive_incumbents"}
Programs == {"modernization_grants", "consortium_purchasing", "public_ai_use_cases"}
Rooted == {"ai_tech_maturity", "buying_path"}
HeadTitled == {"recent_signals", "active_rfps_contracts", "risks", "competitive_signals"}
KeyTitled == {"top_initiatives", "personas", "extension"}
(* The sections the parity report compares. *)
Compared == Footprint \cup Programs \cup HeadTitled \cup {"top_initiatives", "personas"}

IsEmpty(prose) == prose.words = {}
(* jaccard >= 0.7 *)
Near(a, b) == IF a \cup b = {} THEN TRUE
              ELSE 10 * Cardinality(a \cap b) >= 7 * Cardinality(a \cup b)

(* ---- buildGraph ---- *)
(* The items that become claims: near-equal signals and personas of one name  *)
(* are merged into the first.                                                 *)
Repeats(kept, item) ==
  CASE item.section = "recent_signals" ->
         \E k \in Items(kept) : k.section = item.section /\ Near(k.text.words, item.text.words)
    [] item.section = "personas" ->
         \E k \in Items(kept) : k.section = item.section /\ k.key = item.key
    [] OTHER -> FALSE
Merged(brief) ==
  LET kept[k \in 0..Len(brief)] ==
        IF k = 0 THEN << >>
        ELSE IF Repeats(kept[k - 1], brief[k]) THEN kept[k - 1] ELSE Append(kept[k - 1], brief[k])
  IN kept[Len(brief)]

Provenance(item) ==
  CASE item.section \in {"recent_signals", "personas"} ->
         IF item.source # "none" THEN "source_document_only" ELSE "legacy_brief_json"
    [] item.section = "top_initiatives" ->
         IF item.source # "none" THEN "source_document_only" ELSE "inferred_from_brief_json"
    [] item.section = "extension" ->
         IF item.source = "research" THEN "source_document_only"
         ELSE IF item.source = "chat" THEN "chat_patch_object_level"
         ELSE "inferred_from_brief_json"
    [] item.section \in Rooted \cup {"next_action"} -> "inferred_from_brief_json"
    [] OTHER -> "legacy_brief_json"
(* There is no excerpt to back a high rating, so the graph keeps "medium". *)
Recorded(confidence) == IF confidence = "high" THEN "medium" ELSE confidence
Words(item) == IF item.section \in Footprint THEN item.text.words \cup PrefixWords
               ELSE item.text.words
(* A claim's id holds its place in the section; an extension's row only its   *)
(* place in the extension of that id.                                         *)
ClaimId(kept, i) == <<kept[i].section, kept[i].key, kept[i].place>>
Claim(kept, i) ==
  [id |-> ClaimId(kept, i), section |-> kept[i].section, words |-> Words(kept[i]),
   provenance |-> Provenance(kept[i]), confidence |-> Recorded(kept[i].confidence)]
Claims(brief) == LET kept == Merged(brief) IN [i \in DOMAIN kept |-> Claim(kept, i)]

ObjectId(item) ==
  CASE item.section \in HeadTitled -> <<item.section, item.text.head>>
    [] item.section \in KeyTitled -> <<item.section, item.key>>
    [] item.section \in Footprint -> <<"technical_footprint", "one">>
    [] item.section \in Programs -> <<"programs_procurement", "one">>
    [] item.section \in Rooted -> <<"account", "root">>
    [] OTHER -> <<item.section, "one">>
(* One object per item, but one for the footprint, the programs, the root and *)
(* the rows of an extension.                                                    *)
Opens(kept, i) ==
  \/ kept[i].section \in HeadTitled \cup {"top_initiatives", "personas", "next_action",
                                           "ai_governance_policy"}
  \/ kept[i].section = "extension" /\ kept[i].place = 1
  \/ /\ kept[i].section \in Footprint \cup Programs
     /\ \A j \in 1..(i - 1) : ObjectId(kept[j]) # ObjectId(kept[i])
Object(kept, i) ==
  [id |-> ObjectId(kept[i]),
   claims |-> {ClaimId(kept, j) : j \in
     IF kept[i].section \in Footprint \cup Programs \cup {"extension"}
     THEN {j \in DOMAIN kept : ObjectId(kept[j]) = ObjectId(kept[i])} ELSE {i}}]
(* One document for the saved brief and one per distinct citation, which      *)
(* holds no content to quote.                                                 *)
Cites(brief) == {item.source : item \in Items(brief)} \ {"none", "research", "chat", "model"}
SavedBrief == [id |-> "saved", subtype |-> "legacy_brief_json", allowed |-> TRUE]
Citation(s) == [id |-> s, subtype |-> "external_citation_no_content", allowed |-> FALSE]
RootObject(kept) ==
  [id |-> <<"account", "root">>,
   claims |-> {ClaimId(kept, i) : i \in {j \in DOMAIN kept : kept[j].section \in Rooted}}]

Backfilled(brief) ==
  LET kept == Merged(brief)
      opened == SelectSeq([i \in DOMAIN kept |-> i], LAMBDA i : Opens(kept, i))
  IN [sources |-> <<SavedBrief>> \o SetToSeq({Citation(s) : s \in Cites(brief)}),
      excerpts |-> << >>, evidence |-> << >>, edges |-> << >>, conflicts |-> << >>,
      claims |-> Claims(brief),
      objects |-> <<RootObject(kept)>> \o [k \in DOMAIN opened |-> Object(kept, opened[k])]]
(* AccountGraphDocument.parse refuses an empty text or title, and throws. *)
Throws(brief) ==
  \E item \in Items(Merged(brief)) :
    \/ IsEmpty(item.text) /\ item.section \notin Footprint
    \/ item.section = "top_initiatives" /\ item.key = ""

(* ---- buildParityReport ---- *)
Sections(brief) == {item.section : item \in Items(brief)} \cap Compared
Texts(brief, section) ==
  {k \in DOMAIN brief : brief[k].section = section /\ ~IsEmpty(brief[k].text)}
(* An item is matched to the first claim of its section that is left.         *)
Unmatched(claims, free, item) ==
  LET hits == {i \in free : Near(claims[i].words, item.text.words)}
  IN free \ {i \in hits : \A j \in hits : i <= j}
Matched(brief, section) ==
  LET claims == Claims(brief)
      own == {i \in DOMAIN claims : claims[i].section = section}
      free[k \in 0..Len(brief)] ==
        IF k = 0 THEN own
        ELSE IF k \in Texts(brief, section) THEN Unmatched(claims, free[k - 1], brief[k])
        ELSE free[k - 1]
  IN Cardinality(own) - Cardinality(free[Len(brief)])
Dropped(brief) ==
  {s \in Sections(brief) : Texts(brief, s) # {} /\ Matched(brief, s) = 0}

(* ---- classifyBrief ---- *)
Codes(graph) == {e[1] : e \in Errors(graph)}
Unattributed(graph) ==
  {i \in DOMAIN graph.claims :
     graph.claims[i].provenance \in {"legacy_brief_json", "inferred_from_brief_json"}}
Classified(brief) ==
  LET graph == Backfilled(brief)
      codes == Codes(graph)
  IN IF codes \cap {"verified_without_evidence", "verified_from_legacy_brief_only",
                    "disallowed_source_supports_verified_claim"} # {}
     THEN "failed_false_verified_provenance"
     ELSE IF codes \cap {"invented_source_reference", "invented_excerpt_reference",
                         "invented_claim_reference", "edge_missing_endpoint"} # {}
     THEN "failed_invented_evidence"
     ELSE IF codes # {} THEN "failed_validation"
     ELSE IF Cardinality(Dropped(brief)) >= 3 THEN "failed_render_parity"
     ELSE IF Cardinality(Unattributed(graph)) >= AttributionGap THEN "partial_with_attribution_gaps"
     ELSE "pass"

(* ---- aggregateClassification ---- *)
Count(rs, class) == Cardinality({i \in DOMAIN rs : rs[i] = class})
(* Mutant: a graph the validator refused does not fail the corpus. *)
AggregateLenient(rs) ==
  IF \/ \E class \in {"failed_false_verified_provenance", "failed_invented_evidence"} :
          Count(rs, class) > 0
     \/ 4 * Count(rs, "failed_render_parity") > Len(rs)
  THEN "fail"
  ELSE IF \/ 2 * Count(rs, "partial_with_attribution_gaps") > Len(rs)
          \/ Count(rs, "failed_render_parity") > 0
  THEN "borderline" ELSE "pass"
Aggregate(rs) ==
  IF \/ \E class \in {"failed_false_verified_provenance", "failed_invented_evidence",
                      "failed_validation"} : Count(rs, class) > 0
     \/ 4 * Count(rs, "failed_render_parity") > Len(rs)
  THEN "fail"
  ELSE IF \/ 2 * Count(rs, "partial_with_attribution_gaps") > Len(rs)
          \/ Count(rs, "failed_render_parity") > 0
  THEN "borderline" ELSE "pass"

(* ---- main: one row at a time ---- *)
BackfillInit ==
  /\ corpus \in Corpora /\ failFast \in BOOLEAN
  /\ records = << >> /\ artifacts = {} /\ verdict = "running"
NextRow == corpus[Len(records) + 1]
More(schemas) ==
  verdict = "running" /\ Len(records) < Len(corpus) /\ NextRow.schema \in schemas
SkipRow ==
  /\ More({"malformed", "unsupported"})
  /\ records' = Append(records, IF NextRow.schema = "malformed" THEN "skipped_malformed_json"
                                ELSE "skipped_unsupported_schema_variant")
  /\ UNCHANGED <<corpus, failFast, artifacts, verdict>>
IsFatal(class) ==
  class \in {"failed_false_verified_provenance", "failed_invented_evidence", "failed_validation"}
MapRow ==
  /\ More({"brief"}) /\ ~Throws(NextRow.items)
  /\ records' = Append(records, Classified(NextRow.items))
  /\ artifacts' = artifacts \cup {Len(records')}
  /\ verdict' = IF failFast /\ IsFatal(Classified(NextRow.items)) THEN "closing" ELSE verdict
  /\ UNCHANGED <<corpus, failFast>>
RowThrows ==
  /\ More({"brief"}) /\ Throws(NextRow.items)
  /\ verdict' = "aborted"
  /\ UNCHANGED <<corpus, failFast, records, artifacts>>
WriteVerdict ==
  /\ verdict = "closing" \/ (verdict = "running" /\ Len(records) = Len(corpus))
  /\ verdict' = Aggregate(records)
  /\ UNCHANGED <<corpus, failFast, records, artifacts>>
BackfillNext == SkipRow \/ MapRow \/ RowThrows \/ WriteVerdict
BackfillSpec == BackfillInit /\ [][BackfillNext]_backfillVars

-------------------------------------------------------------------------------
(* A corpus that is reported "pass" was read to its end, and each of its      *)
(* briefs is in the graphs: an item of a compared section has a near-equal    *)
(* claim, or its section's name made it unlike its own claim and it is not in *)
(* three such sections.                                                       *)
PassCoversCorpus ==
  verdict = "pass" =>
    /\ Len(records) = Len(corpus)
    /\ \A i \in artifacts :
         /\ ~IsFatal(records[i])
         /\ Cardinality(Dropped(corpus[i].items)) < 3
         /\ Dropped(corpus[i].items) \subseteq Footprint
==============================================================================
