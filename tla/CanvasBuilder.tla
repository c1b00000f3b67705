---------------------------- MODULE CanvasBuilder ----------------------------
(* The read-only Canvas of a brief: what the planner promotes                *)
(* (layoutPlanner.ts), the widgets emitted, and the two passes that reorder  *)
(* and collapse them (fromBrief.ts, visualGrammar.ts).  A list of the brief   *)
(* is its length, and whether at least half of its items are confident; a    *)
(* text is missing (empty or a placeholder), hedged ("not found ..." with     *)
(* more to say) or detailed.  An item of a list has a text of its own.  A     *)
(* widget is known by the place where it was emitted: ids need not differ,    *)
(* nothing keeps a brief from having two extensions of one id.                 *)
EXTENDS Integers, SequencesExt

CONSTANT CanvasBrief  \* the briefs that a canvas is built from

ASSUME CanvasBriefAssumption ==
  \A b \in CanvasBrief :
    b.extensions \in Seq([id : STRING, kind : {"card", "table", "list", "narrative"}, empty : BOOLEAN])

VARIABLES saved, layoutPlan, widgets, spots, canvasStage
canvasVars == <<saved, layoutPlan, widgets, spots, canvasStage>>

GridCols == 12
TopClusterSize == 5
BarCap == 1

------------------------------------------------------------------------------
(* Signals and story. Buckets: none, low, med, high are 0 .. 3. *)
CountBucket(n) == IF n > 3 THEN 3 ELSE n
WeightedBucket(items) ==
  CountBucket(IF items.n > 0 /\ items.sure THEN items.n + 1 ELSE items.n)
FootprintBucket(filled) == IF filled > 6 THEN 3 ELSE filled \div 2
BuyingBucket(path) == IF path = "detailed" THEN 2 ELSE 0

BriefSignals(b) ==
  [recency |-> WeightedBucket(b.signals), depth |-> WeightedBucket(b.personas),
   strength |-> WeightedBucket(b.initiatives), risk |-> CountBucket(b.risks + b.competitive),
   buying |-> BuyingBucket(b.buying), footprint |-> FootprintBucket(b.footprint),
   procurement |-> b.rfps + b.grants, action |-> b.nextAction]

\* The first rule that matches names the story.
StoryRules(s) ==
  <<[story |-> "momentum", holds |-> s.recency = 3 /\ s.procurement >= 1],
    [story |-> "stakeholder-led", holds |-> s.depth >= 3 /\ s.buying >= 2],
    [story |-> "risk-balanced", holds |-> s.strength >= 2 /\ s.risk >= 2],
    [story |-> "tech-modernization", holds |-> s.footprint >= 3 /\ s.strength >= 2],
    [story |-> "procurement-window", holds |-> s.procurement >= 2 /\ s.risk < 2],
    [story |-> "single-action", holds |-> s.action /\ s.recency <= 1 /\ s.depth <= 1 /\ s.strength <= 1],
    [story |-> "balanced", holds |-> TRUE]>>
ClassifyStory(s) == SelectSeq(StoryRules(s), LAMBDA r : r.holds)[1].story

------------------------------------------------------------------------------
(* Visual forms and the planner. *)
Candidates == <<"section-recent-signals", "section-personas", "insight-opportunity-risk">>

VisualForm(story, s, b, id) ==
  CASE id = "section-recent-signals" /\ b.signals.n >= 3
         /\ story \in {"momentum", "tech-modernization", "procurement-window"} -> "timeline"
    [] id = "section-personas" /\ b.personas.n >= 4 /\ s.buying >= 2
         /\ story = "stakeholder-led" -> "persona-map"
    [] id = "insight-opportunity-risk" /\ b.initiatives.n > 0 /\ s.strength >= 2
         /\ s.risk >= 2 /\ story = "risk-balanced" -> "tension-matrix"
    [] OTHER -> "default"

LandscapeKeys == {"top_initiatives", "recent_signals", "personas", "risks", "competitive_signals"}
\* A widget that reads like a bar chart.
IsBar(w) ==
  \/ w.kind \in {"momentum_strip", "strategic_signal_radar"}
  \/ w.form = "default" /\ w.kind = "opportunity_risk_split"
  \/ w.form = "default" /\ w.kind = "section_ref" /\ w.key \in LandscapeKeys

\* The forms of the candidates; one that is not the default is promoted.  None of
\* those is a bar, which makes the planner's own bar cap and its bar spacing
\* leave their order alone.
BuildLayoutPlan(b) ==
  LET s == BriefSignals(b)
      story == ClassifyStory(s)
  IN [id \in ToSet(Candidates) |-> VisualForm(story, s, b, id)]

------------------------------------------------------------------------------
(* The widgets, in the order of emission. *)
\* The packer's next place, in the row it is filling or in a new one.
Placed(row, w) ==
  LET wraps == row.x + w.w > GridCols
      x == IF wraps THEN 0 ELSE row.x
      y == IF wraps THEN row.y + row.high ELSE row.y
      high == IF wraps \/ w.h > row.high THEN w.h ELSE row.high
  IN [x |-> x + w.w, y |-> y, high |-> high, spots |-> Append(row.spots, [x |-> x, y |-> y])]
Pack(ws) ==
  LET after[n \in 0 .. Len(ws)] ==
        IF n = 0 THEN [x |-> 0, y |-> 0, high |-> 0, spots |-> << >>]
        ELSE Placed(after[n - 1], ws[n])
  IN after[Len(ws)].spots

\* What is emitted, and the widget made of it: its form, its place in the
\* emission, and the widgets it stands for when it is a gap.
Tile(id, kind, key, empty, w, h) ==
  [id |-> id, kind |-> kind, key |-> key, empty |-> empty, w |-> w, h |-> h]
Widget(row, form, at, names) ==
  [id |-> row.id, kind |-> row.kind, key |-> row.key, empty |-> row.empty, w |-> row.w,
   h |-> row.h, form |-> form, at |-> at, names |-> names]
\* What the insights count (strategicInsights.ts).
RadarEmpty(b) == ~b.matched
SplitEmpty(b) == b.initiatives.n + b.risks = 0
MomentumEmpty(b) == b.signals.n + b.initiatives.n + b.pilots + b.rfps = 0

\* The footprint and the programs say so in a sentence when there is nothing to
\* list, the maturity is always rated, and the takeaways read it.
IsEmptyWidgetPayload(b, of) ==
  CASE of = "top_initiatives" -> b.initiatives.n = 0
    [] of = "risks" -> b.risks = 0
    [] of = "evidence_board" -> b.signals.n + b.initiatives.n + b.personas.n + Len(b.extensions) = 0
    [] of = "strategic_signal_radar" -> RadarEmpty(b)
    [] of = "opportunity_risk_split" -> SplitEmpty(b)
    [] of = "momentum_strip" -> MomentumEmpty(b)
    [] of = "personas" -> b.personas.n = 0
    [] of = "buying_path" -> b.buying = "missing"
    [] of = "first_angle" -> ~b.angle
    [] of = "recent_signals" -> b.signals.n = 0
    [] of = "competitive_signals" -> b.competitive = 0
    [] of \in {"snapshot", "priority_summary"} -> ~b.snapshot
    [] of = "sources" -> b.sources = 0
    [] OTHER -> FALSE

Section(b, id, key, w, h) == Tile(id, "section_ref", key, IsEmptyWidgetPayload(b, key), w, h)
Insight(b, id, kind, w, h) == Tile(id, kind, "", IsEmptyWidgetPayload(b, kind), w, h)

DecisionRows(b) ==
  <<Insight(b, "action-next", "action_panel", 12, 5),
    Section(b, "section-top-initiatives", "top_initiatives", 6, 4),
    Section(b, "section-risks", "risks", 6, 4),
    Insight(b, "evidence-board", "evidence_board", 12, 4),
    Insight(b, "insight-signal-radar", "strategic_signal_radar", 4, 4),
    Insight(b, "insight-opportunity-risk", "opportunity_risk_split", 4, 4),
    Insight(b, "insight-momentum-strip", "momentum_strip", 4, 4)>>
BuyingRow(b) ==
  <<Section(b, "section-personas", "personas", 6, 3),
    Section(b, "section-buying-path", "buying_path", 6, 3),
    Section(b, "section-first-angle", "first_angle", 6, 3),
    Insight(b, "insight-ai-takeaways", "ai_takeaways", 6, 3)>>
LandscapeRows(b) ==
  <<Section(b, "section-technical-footprint", "technical_footprint", 6, 3),
    Section(b, "section-programs-procurement", "programs_procurement", 6, 3),
    Section(b, "section-recent-signals", "recent_signals", 6, 3),
    Section(b, "section-competitive-signals", "competitive_signals", 6, 3)>>

\* One question for each thing the brief lacks.
HasGaps(b) ==
  LET given == {t \in {"snapshot", "priority", "angle", "action", "buying"} :
                  CASE t \in {"snapshot", "priority"} -> b.snapshot [] t = "angle" -> b.angle
                    [] t = "action" -> b.nextAction [] t = "buying" -> b.buying = "detailed"}
      lists == {l \in {"signals", "initiatives", "personas"} : b[l].n > 0}
  IN b.personas.n = 0 \/ b.competitive = 0 \/ Cardinality(given) + Cardinality(lists) < 4
OpenQuestions(b) ==
  IF HasGaps(b) THEN <<Insight(b, "open-questions", "open_questions", 6, 3)>> ELSE << >>

ExtensionWidget(e) ==
  Tile(e.id, "extension", "", e.empty,
      IF e.kind \in {"table", "narrative"} THEN 12 ELSE 6, IF e.kind = "table" THEN 4 ELSE 3)

AccountRows(b) ==
  <<Section(b, "section-snapshot", "snapshot", 8, 3),
    Insight(b, "metric-ai-maturity", "metric", 4, 3),
    Section(b, "section-priority", "priority_summary", 6, 3),
    Section(b, "section-ai-maturity", "ai_tech_maturity", 6, 3),
    Section(b, "section-sources", "sources", 12, 2)>>

EmittedRows(b) ==
  DecisionRows(b) \o BuyingRow(b) \o LandscapeRows(b) \o OpenQuestions(b)
  \o [i \in DOMAIN b.extensions |-> ExtensionWidget(b.extensions[i])] \o AccountRows(b)

EmittedWidgets(b, forms) ==
  LET rows == EmittedRows(b)
      form(id) == IF id \in DOMAIN forms THEN forms[id] ELSE "default"
  IN [i \in DOMAIN rows |-> Widget(rows[i], form(rows[i].id), i, {})]

------------------------------------------------------------------------------
\* The places of S by their key, those of one key in the order they are in.
InOrder(S, key) ==
  LET before(j) == {i \in S : key[i] < key[j] \/ (key[i] = key[j] /\ i <= j)}
      ranked == {<<Cardinality(before(j)), j>> : j \in S}
  IN [k \in 1 .. Cardinality(S) |-> (CHOOSE p \in ranked : p[1] = k)[2]]
Reordered(ws, key) ==
  LET order == InOrder(DOMAIN ws, key) IN [k \in DOMAIN order |-> ws[order[k]]]

(* applyPlannerLayout: the action, the promoted widgets, then the rest; the   *)
(* bars beyond the cap sink below everything else.                            *)
Turn(w, forms) ==
  LET promoted == {k \in DOMAIN Candidates : w.id = Candidates[k] /\ forms[w.id] # "default" /\ ~IsBar(w)}
  IN IF w.id = "action-next" THEN 0
     ELSE IF promoted # {} THEN CHOOSE k \in promoted : TRUE ELSE 1 + Len(Candidates)

\* The action is 0, the top cluster 1, the tail 2, the demoted 3.
Admit(acc, w) ==
  LET full == acc.top >= TopClusterSize
      capped == IsBar(w) /\ acc.bars >= BarCap
      place == IF w.id = "action-next" THEN 0 ELSE IF full THEN 2 ELSE IF capped THEN 3 ELSE 1
      one == IF place = 1 THEN 1 ELSE 0
  IN [top |-> acc.top + one, bars |-> IF IsBar(w) THEN acc.bars + one ELSE acc.bars,
      places |-> Append(acc.places, place)]
Admitted(ws) ==
  LET after[n \in 0 .. Len(ws)] ==
        IF n = 0 THEN [top |-> 0, bars |-> 0, places |-> << >>] ELSE Admit(after[n - 1], ws[n])
  IN after[Len(ws)].places

Arranged(ws, forms) ==
  LET ordered == Reordered(ws, [i \in DOMAIN ws |-> Turn(ws[i], forms)])
  IN Reordered(ordered, Admitted(ordered))

TierOf(w) ==
  CASE w.id = "action-next" -> "executive-decision"
    [] \/ w.id = "section-recent-signals"
       \/ w.kind \in {"momentum_strip", "strategic_signal_radar"} -> "strategic-signals"
    [] \/ w.id \in {"section-top-initiatives", "section-programs-procurement"}
       \/ w.kind = "evidence_board" -> "evidence"
    [] w.id \in {"section-personas", "section-buying-path"} -> "buying-committee"
    [] \/ w.id \in {"section-risks", "section-competitive-signals"}
       \/ w.kind \in {"opportunity_risk_split", "open_questions"} -> "risks-gaps"
    [] OTHER -> "supporting-context"

\* applyTierCollapse: the empty widgets of a tier, when they have two ids or more,
\* become one gap widget where the first of them stood.
Empties(ws, t) == {i \in DOMAIN ws : ws[i].empty /\ TierOf(ws[i]) = t}
Collapses(ws, i) ==
  ws[i].empty /\ Cardinality({ws[j].id : j \in Empties(ws, TierOf(ws[i]))}) >= 2
\* Once for all the tiers.
HidesTogether(ws, i) == Collapses(ws, i) /\ \E j \in 1 .. i - 1 : ws[j].empty
Hides(ws, i) == Collapses(ws, i) /\ \E j \in Empties(ws, TierOf(ws[i])) : j < i

\* One question for each widget that the gap stands for.
Gap(tier, asked) ==
  LET n == Cardinality(asked)
  IN Widget(Tile("gaps-" \o tier, "open_questions", "", FALSE, 6,
                IF n < 3 THEN 3 ELSE IF n > 6 THEN 6 ELSE n), "default", 0, asked)
ShownAt(ws, i) ==
  IF Collapses(ws, i)
  THEN Gap(TierOf(ws[i]), {ws[j].at : j \in Empties(ws, TierOf(ws[i]))}) ELSE ws[i]
Collapsed(ws) ==
  LET order == InOrder({i \in DOMAIN ws : ~Hides(ws, i)}, [i \in DOMAIN ws |-> i])
  IN [k \in DOMAIN order |-> ShownAt(ws, order[k])]

------------------------------------------------------------------------------
CanvasInit ==
  /\ saved \in CanvasBrief /\ canvasStage = "saved"
  /\ layoutPlan = << >> /\ widgets = << >> /\ spots = << >>

EmitCanvas ==
  /\ canvasStage = "saved" /\ canvasStage' = "emitted"
  /\ layoutPlan' = BuildLayoutPlan(saved)
  /\ widgets' = EmittedWidgets(saved, layoutPlan') /\ spots' = Pack(widgets')
  /\ UNCHANGED saved
ArrangeCanvas ==
  /\ canvasStage = "emitted" /\ canvasStage' = "arranged"
  /\ widgets' = Arranged(widgets, layoutPlan) /\ spots' = Pack(widgets')
  /\ UNCHANGED <<saved, layoutPlan>>
CollapseCanvas ==
  /\ canvasStage = "arranged" /\ canvasStage' = "shown"
  /\ widgets' = Collapsed(widgets) /\ spots' = Pack(widgets')
  /\ UNCHANGED <<saved, layoutPlan>>

CanvasNext == EmitCanvas \/ ArrangeCanvas \/ CollapseCanvas
CanvasSpec == CanvasInit /\ [][CanvasNext]_canvasVars

(* The tiles of a list of widgets stay on the grid and do not overlap         *)
(* (GridPacker).                                                               *)
TilesFit ==
  /\ DOMAIN spots = DOMAIN widgets
  /\ \A i \in DOMAIN widgets : spots[i].x + widgets[i].w <= GridCols
  /\ \A i, j \in DOMAIN widgets : i # j =>
       \/ spots[i].x + widgets[i].w <= spots[j].x
       \/ spots[j].x + widgets[j].w <= spots[i].x
       \/ spots[i].y + widgets[i].h <= spots[j].y
       \/ spots[j].y + widgets[j].h <= spots[i].y

(* Every widget emitted is shown once, as it is, or is named by one gap that  *)
(* stands for it and at least one other empty widget of its tier, whatever    *)
(* the ids are; the tiles fit (applyPlannerLayout, applyTierCollapse).        *)
NothingIsLost ==
  canvasStage \in {"arranged", "shown"} =>
    /\ TilesFit
    /\ LET rows == EmittedRows(saved) IN
         /\ \A e \in DOMAIN rows :
              Cardinality({i \in DOMAIN widgets : widgets[i].at = e \/ e \in widgets[i].names}) = 1
         /\ \A i \in DOMAIN widgets : LET w == widgets[i] IN
              IF w.names = {} THEN w.at \in DOMAIN rows /\ w.id = rows[w.at].id
              ELSE /\ Cardinality(w.names) > 1
                   /\ \A e \in w.names : rows[e].empty /\ \A f \in w.names : TierOf(rows[f]) = TierOf(rows[e])
==============================================================================
