------------------------------ MODULE MCServices ------------------------------
(* The parts of the web application that promise safety, one of them moving  *)
(* in a behaviour: the foreign keys, the document files, the notices, the     *)
(* Journal, the public links, the tasks, decisions and                        *)
(* candidates of the Journal, its change radar, the cards of a refresh, and   *)
(* the account graph's three.                                                  *)
EXTENDS TableRows, DocumentStore, Notices, Journal, ShareLinks, JournalPromotion,
        ValidationRun, GraphCorrections, BriefBackfill, BriefProposals,
        JournalRadar, TLC

CONSTANTS Parts, ann, bob, all, d1, d2, l1, p1, p2
VARIABLE part

(* Two accounts and a brief, with the rows of one feature at a time. *)
MCTableOf ==
  [a |-> "users", u |-> "users", b |-> "briefs", c |-> "brief_chats",
   s |-> "sessions", g |-> "brief_shares", k |-> "journal_radar_checkpoints",
   l |-> "brief_share_links", m |-> "brief_share_emails",
   j |-> "research_jobs", j2 |-> "research_jobs", v |-> "brief_versions",
   r |-> "monitor_runs", h |-> "hermes_jobs", i |-> "hermes_job_events",
   w |-> "canvas_states", p |-> "canvas_proposals",
   q |-> "canvas_capability_proposals",
   o |-> "brief_comments", o2 |-> "brief_comments", n |-> "notifications",
   e |-> "journal_entries", f |-> "journal_documents",
   t |-> "journal_entry_tags", x |-> "journal_entry_mentions",
   y |-> "journal_review_candidates", z |-> "journal_tasks",
   z2 |-> "journal_tasks", d |-> "journal_decisions", d2 |-> "journal_decisions"]
MCRowGroup ==
  {{"a", "u", "b"} \cup g :
     g \in {{"c", "s", "g", "k"}, {"l", "m"}, {"j", "j2", "v", "r"},
            {"j", "h", "i", "w"}, {"h", "p", "q"}, {"o", "o2", "n"},
            {"e", "f", "t", "x"}, {"y", "d", "d2"}, {"e", "y", "d"}, {"z", "z2"}}}
MCHashOf == [d \in Doc |-> "h"]
MCUses == d1 :> {"flip", "create", "mail"} @@ d2 :> {"revoke", "mail"}
MCReaderOf == [p \in {p1, p2} |-> ann]

(* ---- ValidationRun ---- *)
CorpusPaths == {"none", "absent", "inside", "insideAbsent", "empty", "briefs"}
Ceilings == {"default", "zero", "high", "allowed", "invalid"}
Lines(modes, adapters, corpora, missing, costs, environments) ==
  [mode : modes, adapter : adapters, corpus : corpora, missing : missing, cost : costs,
   environment : environments, out : {"default", "inside", "ignored", "outside"}]
MCLines ==
  Lines({"fixture"}, {"none"}, CorpusPaths, {{}}, {"default"}, {"ready"})
  \cup Lines({"model"}, {"none", "fake"}, {"none", "briefs"}, {{}}, Ceilings, {"noKey"})
  \cup Lines({"model"}, {"real"}, CorpusPaths, SUBSET {"allow", "provider", "model", "posture"},
             Ceilings \cup {"fits"}, {"ready", "noKey", "callsOff"})
MCEst == [propose |-> 2, synthesize |-> 3]
MCBill == [propose |-> {2}, synthesize |-> {2, 4}]
Says(provenance, confidence, role, strength, cites) ==
  [provenance |-> provenance, confidence |-> confidence, role |-> role,
   strength |-> strength, cites |-> cites]
MCProposals == {<<"exact", "normalized">>, <<"absent">>, <<"elsewhere", "invented">>}
MCSyntheses ==
  {<<Says("verified", "medium", "supports", "strong", {1})>>,
   <<Says("verified", "medium", "contradicts", "strong", {1})>>,
   <<Says("unverified", "high", "supports", "weak", {2})>>}

(* ---- GraphCorrections ---- *)
Citing(claim, excerpt, role, strength) ==
  [claim |-> claim, excerpt |-> excerpt, role |-> role, strength |-> strength]
MCLinks ==
  {Citing(c, e, "supports", "strong") : c \in {"c1", "c2"}, e \in {"e1", "e2"}}
  \cup {Citing("c1", "e1", "contradicts", "strong"), Citing("c1", "e3", "supports", "weak")}
MCClaims == {[provenance |-> "verified", confidence |-> "high"],
             [provenance |-> "unverified", confidence |-> "medium"]}
Source(id, subtype, allowed) == [id |-> id, subtype |-> subtype, allowed |-> allowed]
Excerpt(id, source) ==
  [id |-> id, source |-> source, text |-> "exact", offsets |-> "ok", method |-> "exact_span"]
Numbered(f, ids) == [i \in 1..Len(ids) |-> [id |-> ids[i]] @@ f[i]]
(* Two sources, two excerpts, two linked claims, two objects, a conflict and  *)
(* an edge between the claims and between the objects.                        *)
MCGraphs ==
  {[sources |-> <<Source("s1", t, a), Source("s2", "web", TRUE)>>,
    excerpts |-> <<Excerpt("e1", "s1"), Excerpt("e2", e)>>,
    evidence |-> Numbered(ls, <<"l1", "l2">>),
    claims |-> Numbered(cs, <<"c1", "c2">>),
    objects |-> <<[id |-> "o1", claims |-> o], [id |-> "o2", claims |-> {"c2"}]>>,
    conflicts |-> <<[id |-> "k1", claims |-> {"c1", "c2"}]>>,
    edges |-> <<[id |-> "g1", kind |-> "supports", from |-> [kind |-> "claims", id |-> "c1"],
                 to |-> [kind |-> "claims", id |-> "c2"]],
               [id |-> "g2", kind |-> "relates_to", from |-> [kind |-> "objects", id |-> "o1"],
                 to |-> [kind |-> "objects", id |-> "o2"]]>>]
   : t \in {"web", "legacy_brief_json"}, a \in BOOLEAN, e \in {"s1", "s2", "s3"},
     ls \in MCLinks \X MCLinks, cs \in MCClaims \X MCClaims, o \in {{}, {"c1"}, {"c1", "c2"}}}

(* ---- BriefBackfill ---- *)
Prose(head, n) == [head |-> head, words |-> {<<head, i>> : i \in 1..n}]
Alike == [head |-> "b", words |-> {<<"a", i>> : i \in 2..9} \cup {<<"b", 1>>}]
SameHead == [head |-> "a", words |-> {<<"c", i>> : i \in 1..9}]
Nothing == [head |-> "", words |-> {}]
Item(section, prose, place, key, confidence, source) ==
  [section |-> section, text |-> prose, place |-> place, key |-> key,
   confidence |-> confidence, source |-> source]
Plain(section, n, place) == Item(section, Prose("a", n), place, "x", "unknown", "none")
Signal(text, place, source) == Item("recent_signals", text, place, "x", "high", source)
MCBriefs ==
  {<< >>,
   <<Signal(Prose("a", 9), 1, "s1"), Signal(Alike, 2, "none"), Signal(SameHead, 3, "none")>>,
   <<Signal(Prose("a", 9), 1, "s1"), Signal(Alike, 2, "s2"), Plain("next_action", 2, 1)>>,
   <<Signal(Nothing, 1, "none")>>,
   <<Item("personas", Prose("a", 3), 1, "kim", "high", "s1"),
     Item("personas", Prose("b", 3), 2, "kim", "low", "none"),
     Item("personas", Prose("b", 3), 3, "lee", "low", "none")>>,
   <<Item("top_initiatives", Prose("a", 3), 1, "cloud", "high", "none"),
     Item("top_initiatives", Prose("b", 3), 2, "cloud", "high", "s1")>>,
   <<Plain("ai_in_production", 2, 1), Plain("active_pilots", 9, 1), Plain("cloud_platforms", 2, 1)>>,
   <<Plain("ai_in_production", 2, 1), Plain("active_pilots", 2, 1), Plain("cloud_platforms", 2, 1)>>,
   <<Plain("modernization_grants", 2, 1), Plain("public_ai_use_cases", 2, 1),
     Plain("buying_path", 2, 1), Plain("risks", 2, 1), Plain("competitive_signals", 2, 1)>>,
   <<Item("extension", Prose("a", 2), 1, "x1", "high", "research"),
     Item("extension", Prose("b", 2), 2, "x1", "high", "research"),
     Item("extension", Prose("a", 2), 1, "x2", "low", "chat")>>,
   <<Item("extension", Prose("a", 2), 1, "x1", "high", "model"),
     Item("extension", Prose("b", 2), 1, "x1", "high", "model")>>}
Rowed(schema, items) == [schema |-> schema, items |-> items]
MCRows == {Rowed("brief", b) : b \in MCBriefs}
          \cup {Rowed("malformed", << >>), Rowed("unsupported", << >>)}
MCCorpora == {<<r>> : r \in MCRows} \cup (MCRows \X MCRows)
             \cup {<<q, r, Rowed("brief", << >>)>> : q \in MCRows, r \in MCRows}
MCPrefix == {<<"p", 1>>, <<"p", 2>>}

(* ---- BriefProposals ---- *)
(* Lists that are empty, known, extended and reworded, and patches that are   *)
(* news, known, terse, malformed, out of bounds and too long.                 *)
Listed(about, text, url, from) == [about |-> about, text |-> text, url |-> url, from |-> from]
MCStored ==
  LET lists(i, e) ==
        [signals |-> <<Listed("a", "1", "u", "research")>>, initiatives |-> i, personas |-> << >>,
         risks |-> <<Listed("r", "1", "none", "research")>>,
         sources |-> <<Listed("a", "1", "u", "research")>>, extensions |-> e] IN
  {[identity |-> "acct", summary |-> "s", lists |-> lists(i, e)] :
     i \in {<< >>, <<Listed("i", "1", "none", "research")>>},
     e \in {<< >>, <<Listed("e", "1", "none", "chat")>>}}
MCResearch ==
  LET heard == {<< >>, <<Listed("a", "1", "u", "research")>>,
                  <<Listed("a", "1", "u", "research"), Listed("b", "1", "v", "research")>>}
      initiatives == {<< >>, <<Listed("i", "1", "none", "research")>>, <<Listed("i", "2", "none", "research")>>}
      personas == {<< >>, <<Listed("p", "bulky", "none", "research")>>}
      risks == {<<Listed("r", "1", "none", "research"), Listed("q", "1", "none", "research")>>,
                <<Listed("q", "1", "none", "research"), Listed("q", "2", "none", "research")>>}
      sources == {<< >>, <<Listed("b", "1", "v", "research")>>,
                  <<Listed("b", "long", "v", "research"), Listed("a", "2", "u", "research")>>}
      extensions == {<< >>, <<Listed("x", "bulky", "none", "research")>>} IN
  {[identity |-> name, summary |-> text,
    lists |-> [signals |-> s, initiatives |-> i, personas |-> p, risks |-> r, sources |-> l, extensions |-> e]] :
     name \in {"acct", "other"}, text \in {"s", "t"}, s \in heard, i \in initiatives,
     p \in personas, r \in risks, l \in sources, e \in extensions}
MCFinding ==
  LET patches == {Patch("append", "signals", Listed("a", "2", "w", "research")),
                  Patch("append", "signals", Listed("a", "terse", "w", "research")),
                  Patch("append", "signals", Listed("b", "1", "v", "research")),
                  Patch("append", "signals", Listed("b", "1", "v", "malformed")),
                  Patch("append", "sources", Listed("a", "1", "w", "research")),
                  Patch("append", "sources", Listed("b", "1", "v", "research")),
                  Patch("append", "sources", Listed("b", "mute", "x", "research")),
                  Patch("append", "extensions", Listed("b", "1", "v", "research")),
                  Patch("append", "risks", Listed("b", "1", "v", "research")),
                  Patch("set", "signals", Listed("b", "2", "none", "research")),
                  Patch("set", "summary", Text("long"))} IN
  UNION {[1..n -> patches] : n \in 0..3}

(* A part that does not move has one initial state: a finished fixture run of  *)
(* the validation, a brief with no work at hand. *)
ASSUME PartsAssumption ==
  (\E l \in CommandLines : l.mode = "fixture") /\ StoredBrief # {}
RowsIdle == group = {} /\ rows = << >> /\ gone = {}
ValidationIdle ==
  /\ args = (CHOOSE l \in CommandLines : l.mode = "fixture") /\ pc = "done" /\ exit = 0 /\ written = {}
  /\ spent = 0 /\ budget = [observed |-> 0, unknown |-> FALSE, calls |-> 0]
  /\ stageNow = NoStage /\ accepted = << >> /\ violations = {}
  /\ results = << >> /\ graphs = << >> /\ report = "none"
CorrectionIdle == graph = NoGraph /\ event = NoEvent /\ impact = Untouched
BackfillIdle ==
  corpus = << >> /\ failFast = FALSE /\ records = << >> /\ artifacts = {} /\ verdict = "running"
RefreshIdle ==
  /\ content = (CHOOSE b \in StoredBrief : TRUE) /\ writer = TRUE
  /\ work = Waiting /\ scan = << >> /\ proposed = content /\ cards = << >>
RadarIdle == RadarInit /\ \A id \in Records : ~There(log, id)

vars ==
  <<part, rowVars, storeVars, noticeVars, journalVars, shareVars,
    promotionVars, validationVars, correctionVars, backfillVars,
    proposalBriefVars, radarVars>>
On(p) == part = p /\ UNCHANGED part
Init ==
  /\ part \in Parts
  /\ IF part = "rows" THEN RowInit ELSE RowsIdle
  /\ IF part = "validation" THEN ValidationInit ELSE ValidationIdle
  /\ IF part = "correction" THEN CorrectionInit ELSE CorrectionIdle
  /\ IF part = "backfill" THEN BackfillInit ELSE BackfillIdle
  /\ IF part = "refresh" THEN ProposalBriefInit ELSE RefreshIdle
  /\ IF part = "radar" THEN RadarInit ELSE RadarIdle
  /\ StoreInit /\ NoticeInit /\ JournalInit /\ ShareInit /\ PromotionInit
Next ==
  \/ /\ On("rows") /\ RowNext
     /\ UNCHANGED <<storeVars, noticeVars, journalVars, shareVars,
            promotionVars, validationVars, correctionVars, backfillVars,
            proposalBriefVars, radarVars>>
  \/ /\ On("files") /\ StoreNext
     /\ UNCHANGED <<rowVars, noticeVars, journalVars, shareVars,
            promotionVars, validationVars, correctionVars, backfillVars,
            proposalBriefVars, radarVars>>
  \/ /\ On("notices") /\ NoticeNext
     /\ UNCHANGED <<rowVars, storeVars, journalVars, shareVars,
            promotionVars, validationVars, correctionVars, backfillVars,
            proposalBriefVars, radarVars>>
  \/ /\ On("journal") /\ JournalNext
     /\ UNCHANGED <<rowVars, storeVars, noticeVars, shareVars,
            promotionVars, validationVars, correctionVars, backfillVars,
            proposalBriefVars, radarVars>>
  \/ /\ On("share") /\ ShareNext
     /\ UNCHANGED <<rowVars, storeVars, noticeVars, journalVars,
            promotionVars, validationVars, correctionVars, backfillVars,
            proposalBriefVars, radarVars>>
  \/ /\ On("records") /\ PromotionNext
     /\ UNCHANGED <<rowVars, storeVars, noticeVars, journalVars, shareVars,
            validationVars, correctionVars, backfillVars, proposalBriefVars,
            radarVars>>
  \/ /\ On("validation") /\ ValidationNext
     /\ UNCHANGED <<rowVars, storeVars, noticeVars, journalVars, shareVars,
            promotionVars, correctionVars, backfillVars, proposalBriefVars,
            radarVars>>
  \/ /\ On("correction") /\ CorrectionNext
     /\ UNCHANGED <<rowVars, storeVars, noticeVars, journalVars, shareVars,
            promotionVars, validationVars, backfillVars, proposalBriefVars,
            radarVars>>
  \/ /\ On("backfill") /\ BackfillNext
     /\ UNCHANGED <<rowVars, storeVars, noticeVars, journalVars, shareVars,
            promotionVars, validationVars, correctionVars, proposalBriefVars,
            radarVars>>
  \/ /\ On("refresh") /\ ProposalBriefNext
     /\ UNCHANGED <<rowVars, storeVars, noticeVars, journalVars, shareVars,
            promotionVars, validationVars, correctionVars, backfillVars,
            radarVars>>
  \/ /\ On("radar") /\ RadarNext
     /\ UNCHANGED <<rowVars, storeVars, noticeVars, journalVars, shareVars,
            promotionVars, validationVars, correctionVars, backfillVars,
            proposalBriefVars>>
Spec == Init /\ [][Next]_vars

(* Type invariant. *)
ServicesTypeOK ==
  /\ StoreTypeOK /\ NoticeTypeOK /\ JournalTypeOK /\ ShareTypeOK /\
     PromotionTypeOK /\ ValidationTypeOK
==============================================================================
