-------------------------- MODULE CompositionProofs --------------------------
(* The services together.  In a behaviour of MCServices one part of the        *)
(* application moves and the others stay as they are.  So each part follows    *)
(* its own specification, and what is proved of that specification holds in    *)
(* the composition; a part whose initial state is not that of its              *)
(* specification when it does not move stays idle, and an idle part keeps its  *)
(* promises too.                                                               *)
EXTENDS MCServices, ServiceProofs, JournalProofs, BriefProofs

(* Each step of the composition is one of every part, or leaves the part.      *)
LEMMA StepsOfParts ==
  ASSUME [Next]_vars
  PROVE  /\ [RowNext]_rowVars /\ [StoreNext]_storeVars /\ [NoticeNext]_noticeVars
         /\ [JournalNext]_journalVars /\ [ShareNext]_shareVars
         /\ [PromotionNext]_promotionVars /\ [ValidationNext]_validationVars
         /\ [CorrectionNext]_correctionVars /\ [BackfillNext]_backfillVars
         /\ [ProposalBriefNext]_proposalBriefVars /\ [RadarNext]_radarVars
<1>1. CASE Next
  BY <1>1 DEF Next
<1>2. CASE UNCHANGED vars
  BY <1>2 DEF vars
<1> QED  BY <1>1, <1>2

(* A part that was not chosen does not move. *)
LEMMA OthersStay ==
  ASSUME [Next]_vars
  PROVE  /\ part' = part
         /\ part # "rows" => UNCHANGED rowVars
         /\ part # "validation" => UNCHANGED validationVars
         /\ part # "correction" => UNCHANGED correctionVars
         /\ part # "backfill" => UNCHANGED backfillVars
         /\ part # "refresh" => UNCHANGED proposalBriefVars
<1>1. CASE Next
  BY <1>1 DEF Next, On
<1>2. CASE UNCHANGED vars
  BY <1>2 DEF vars
<1> QED  BY <1>1, <1>2

(* The parts that start as their specifications say, whichever moves. *)
LEMMA AlwaysAPart ==
  Spec => /\ StoreSpec /\ NoticeSpec /\ JournalSafeSpec /\ ShareSpec /\ PromotionSpec /\ RadarSpec
<1>1. Init => /\ StoreInit /\ NoticeInit /\ JournalInit /\ ShareInit /\ PromotionInit /\ RadarInit
  BY DEF Init, RadarIdle
<1>2. [Next]_vars => /\ [StoreNext]_storeVars /\ [NoticeNext]_noticeVars
                     /\ [JournalNext]_journalVars /\ [ShareNext]_shareVars
                     /\ [PromotionNext]_promotionVars /\ [RadarNext]_radarVars
  BY StepsOfParts
<1> QED
  BY <1>1, <1>2, PTL
  DEF Spec, StoreSpec, NoticeSpec, JournalSafeSpec, ShareSpec, PromotionSpec, RadarSpec

(* References between rows, whether the rows move or not. *)
LEMMA RowsPart == Spec => NothingDangles
<1> DEFINE Still == part # "rows" /\ RowsIdle
<1>1. Init => RowInit \/ Still
  BY DEF Init
<1>2. [Next]_vars => [RowNext]_rowVars
  BY StepsOfParts
<1>3. Still /\ [Next]_vars => Still' /\ [NothingCutOff]_rowVars
  BY OthersStay DEF RowsIdle, rowVars
<1> HIDE DEF Still
<1> QED
  BY <1>1, <1>2, <1>3, RowsHold, PTL
  DEF Spec, RowSpec, NothingDangles, NothingCutOff

(* The validation, run or finished before. *)
LEMMA ValidationPart == Spec => [](ValidationTypeOK /\ PassIsEarned)
<1> DEFINE Still == part # "validation" /\ ValidationIdle
<1>1. Init => ValidationInit \/ Still
  BY DEF Init
<1>2. [Next]_vars => [ValidationNext]_validationVars
  BY StepsOfParts
<1>3. Still /\ [Next]_vars => Still'
  BY OthersStay DEF ValidationIdle, validationVars
<1>4. Still => ValidationTypeOK /\ PassIsEarned
  <2> SUFFICES ASSUME Still PROVE ValidationTypeOK /\ PassIsEarned
    OBVIOUS
  <2>1. PassIsEarned
    BY DEF ValidationIdle, PassIsEarned
  <2>2. args \in CommandLines
    BY PartsAssumption DEF ValidationIdle
  <2>3. stageNow.name = "none" /\ stageNow.attempt = 0 /\ stageNow.round = 0
    BY DEF ValidationIdle, NoStage
  <2>4. Len(results) = 0 /\ Len(graphs) = 0
    BY DEF ValidationIdle
  <2>5. budget \in [observed : Nat, unknown : BOOLEAN, calls : 0 .. (2 * Accounts)]
    BY ValidationAssumption DEF ValidationIdle
  <2> QED
    BY <2>1, <2>2, <2>3, <2>4, <2>5, ValidationAssumption
    DEF ValidationIdle, ValidationTypeOK, MaxRetries
<1> HIDE DEF Still
<1> QED
  BY <1>1, <1>2, <1>3, <1>4, ValidationTypes, PassHolds, PTL DEF Spec, ValidationSpec

(* The corrections of a graph, made or not. *)
LEMMA CorrectionPart == Spec => []CascadeIsComplete
<1> DEFINE Still == part # "correction" /\ CorrectionIdle
<1>1. Init => CorrectionInit \/ Still
  BY DEF Init
<1>2. [Next]_vars => [CorrectionNext]_correctionVars
  BY StepsOfParts
<1>3. Still /\ [Next]_vars => Still'
  BY OthersStay DEF CorrectionIdle, correctionVars
<1>4. Still => CascadeIsComplete
  BY DEF CorrectionIdle, CascadeIsComplete
<1> HIDE DEF Still
<1> QED
  BY <1>1, <1>2, <1>3, <1>4, CascadeHolds, PTL DEF Spec, CorrectionSpec

(* The backfill of a corpus, run or not. *)
LEMMA BackfillPart == Spec => []PassCoversCorpus
<1> DEFINE Still == part # "backfill" /\ BackfillIdle
<1>1. Init => BackfillInit \/ Still
  BY DEF Init
<1>2. [Next]_vars => [BackfillNext]_backfillVars
  BY StepsOfParts
<1>3. Still /\ [Next]_vars => Still'
  BY OthersStay DEF BackfillIdle, backfillVars
<1>4. Still => PassCoversCorpus
  BY DEF BackfillIdle, PassCoversCorpus
<1> HIDE DEF Still
<1> QED
  BY <1>1, <1>2, <1>3, <1>4, CorpusCovered, PTL DEF Spec, BackfillSpec

(* The cards of a refresh, or a brief with none. *)
LEMMA RefreshPart == Spec => [](CardsRebuildTheResult /\ MonitorBringsNews)
<1> DEFINE Still == part # "refresh" /\ RefreshIdle
<1>1. Init => ProposalBriefInit \/ Still
  BY DEF Init
<1>2. [Next]_vars => [ProposalBriefNext]_proposalBriefVars
  BY StepsOfParts
<1>3. Still /\ [Next]_vars => Still'
  BY OthersStay DEF RefreshIdle, proposalBriefVars, Waiting
<1>4. Still => CardsRebuildTheResult /\ MonitorBringsNews
  BY DEF RefreshIdle, CardsRebuildTheResult, MonitorBringsNews, Waiting
<1> HIDE DEF Still
<1> QED
  BY <1>1, <1>2, <1>3, <1>4, CardsHold, NewsHolds, PTL DEF Spec, ProposalBriefSpec

(* ServicesTypeOK: the state of every service stays within its type, whichever *)
(* of them moves.                                                              *)
THEOREM ServicesTypes == Spec => []ServicesTypeOK
<1>1. SharesSafe => ShareTypeOK
  BY DEF SharesSafe
<1>2. ShareSpec => []ShareTypeOK
  BY <1>1, SharesStart, SharesStep, PTL DEF ShareSpec
<1>3. RecordsSafe => PromotionTypeOK
  BY DEF RecordsSafe
<1> QED
  BY <1>2, <1>3, AlwaysAPart, StoreTypes, NoticeTypes, JournalTypes, RecordsHold, ValidationPart,
     PTL DEF ServicesTypeOK

(* The services keep together what each promises alone: the references of      *)
(* rows, the bytes of documents and their backups, the notices of comments,    *)
(* the catch-ups, the links of internal briefs, the forest of tasks, the       *)
(* cascades of corrections, the verdicts of the two batch runs, the cards of a *)
(* refresh and what a reader of the radar is shown.                            *)
THEOREM ServicesHold ==
  Spec => /\ NothingDangles
          /\ [](RowsHaveBytes /\ CopiesAreWhole /\ CommentsAreTold)
          /\ [](DeletedIsNotServed /\ InternalHasNoLiveLink /\ TaskForest)
          /\ [](CascadeIsComplete /\ PassIsEarned /\ PassCoversCorpus)
          /\ [](CardsRebuildTheResult /\ MonitorBringsNews)
          /\ NothingIsPassedOver
<1> QED
  BY AlwaysAPart, RowsPart, ValidationPart, CorrectionPart, BackfillPart, RefreshPart,
     BytesHold, CopiesHold, ToldHolds, DeletedHolds, LinksHold, ForestHolds, RadarHolds, PTL
==============================================================================
