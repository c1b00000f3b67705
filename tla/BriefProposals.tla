--------------------------- MODULE BriefProposals ---------------------------
(***************************************************************************)
(* What the worker makes of fresh research about a brief: the merge of a   *)
(* refresh (lib/briefMerge.ts), the sifting of the monitor's patches       *)
(* (lib/researchWorker.ts), and the review cards both become               *)
(* (lib/briefUpdateReviewBoundary.ts, lib/briefPatches.ts).                *)
(*                                                                         *)
(* A job reads the brief, waits for its research while the brief is edited *)
(* and rights are taken, and queues its cards in one transaction.  When a  *)
(* job is claimed and what becomes of its row is ResearchWorker's; here is *)
(* the content.                                                            *)
(*                                                                         *)
(* Abstractions.  An item of a list is what it is about, its wording, the  *)
(* address it cites and where it came from: two titles, names or texts     *)
(* match when they are about the same thing, two sources when their        *)
(* address is.  The monitor compares words, and of some wordings it cannot *)
(* tell: a terse one has, or shares with others, less than five words that *)
(* count, too few for a duplicate, a mute one less than three, too few to  *)
(* support anything either.  A long wording stands for a value over        *)
(* MAX_VALUE_BYTES, and more than MaxBulky bulky ones for a set over       *)
(* MAX_TOTAL_BYTES.                                                        *)
(* One text field stands for those set as a whole, and one identity for    *)
(* account name, segment and audience.                                     *)
(***************************************************************************)
EXTENDS Integers, Sequences, SequencesExt, FiniteSetsExt

CONSTANTS
  StoredBrief,    \* briefs a job may find
  Research,       \* briefs the research of a refresh brings
  Finding,        \* lists of patches the monitor's scan brings
  MaxCards,       \* BRIEF_UPDATE_REVIEW_LIMITS.maxCandidates
  MaxBulky        \* bulky values that fit in maxTotalBytes

VARIABLES
  content,      \* the brief's JSON
  writer,       \* the requester may write the brief
  work,         \* the job: its kind, stage and the brief it read
  scan,         \* the patches the monitor's scan brought it
  proposed,     \* the brief the job proposes
  cards         \* the review cards it queued

proposalBriefVars == <<content, writer, work, scan, proposed, cards>>

ListField == {"signals", "initiatives", "personas", "risks", "sources", "extensions"}
PatchField == ListField \union {"summary"}
IsBrief(b) ==
  /\ b = [identity |-> b.identity, summary |-> b.summary,
          lists |-> [f \in ListField |-> b.lists[f]]]
  /\ \A f \in ListField : b.lists[f] \in Seq(Range(b.lists[f]))
ASSUME ProposalAssumption ==
  /\ MaxCards \in Nat \ {0} /\ MaxBulky \in Nat
  /\ \A b \in StoredBrief \union Research : IsBrief(b)
  /\ \A ps \in Finding : ps \in Seq(Range(ps))

MonitorField == {"summary", "signals", "initiatives", "sources", "extensions"}

Subject(f, x) == IF f = "sources" THEN x.url ELSE x.about
Subjects(f, s) == {Subject(f, x) : x \in Range(s)}
Each(Op(_), s) == [i \in DOMAIN s |-> Op(s[i])]

-----------------------------------------------------------------------------
(* mergeBriefs *)

MarkPreviouslyFound(x) == [x EXCEPT !.from = "earlier"]
UnlessChat(x) == IF x.from = "chat" THEN x ELSE MarkPreviouslyFound(x)

(* the items at some places, in order *)
ItemsAt(s, places) ==
  LET kept[n \in 0..Len(s)] ==
        IF n = 0 THEN << >>
        ELSE IF n \in places THEN Append(kept[n - 1], s[n]) ELSE kept[n - 1]
  IN  kept[Len(s)]
Retained(f, prev, next) ==
  ItemsAt(prev, {i \in DOMAIN prev : Subject(f, prev[i]) \notin Subjects(f, next)})
(* the first item of every subject *)
Firsts(f, s) ==
  ItemsAt(s, {i \in DOMAIN s : \A j \in 1..(i - 1) : Subject(f, s[j]) # Subject(f, s[i])})
LastItem(f, s, x) == SelectLastInSeq(s, LAMBDA y : Subject(f, y) = Subject(f, x))

MergedList(f, prev, next) ==
  CASE f \in {"signals", "initiatives"} ->
         next \o Each(MarkPreviouslyFound, Retained(f, prev, next))
    [] f \in {"personas", "extensions"} ->
         next \o Each(UnlessChat, Retained(f, prev, next))
    [] f = "risks" -> Firsts(f, next \o prev)
    [] f = "sources" ->
         LET both == prev \o next IN
         Each(LAMBDA x : both[LastItem(f, both, x)], Firsts(f, both))

MergeBriefs(prev, next) ==
  [next EXCEPT !.lists = [f \in ListField |-> MergedList(f, prev.lists[f], next.lists[f])]]

-----------------------------------------------------------------------------
(* applyPatches and the review boundary *)

Patch(op, f, x) == [op |-> op, field |-> f, value |-> x]

(* what parses: a setting of a text, an item for a list, or a list of one *)
Parses(p) == p.value.from # "malformed" /\ (p.op = "append" => p.field \in ListField)
ByChat(p) == IF p.field = "extensions" THEN [p.value EXCEPT !.from = "chat"] ELSE p.value
Patched(b, p) ==
  IF p.field = "summary" THEN [b EXCEPT !.summary = p.value.text]
  ELSE [b EXCEPT !.lists[p.field] = IF p.op = "append" THEN @ \o <<ByChat(p)>> ELSE <<p.value>>]
(* a brief after each of some patches, those about other fields left out *)
Applied(b, ps, fields) ==
  LET after[n \in 0..Len(ps)] ==
        IF n = 0 THEN b
        ELSE IF ps[n].field \in fields THEN Patched(after[n - 1], ps[n]) ELSE after[n - 1]
  IN  after
PatchedWith(b, ps) == Applied(b, ps, PatchField)[Len(ps)]

Text(t) == [about |-> "summary", text |-> t, url |-> "none", from |-> "research"]

\* Mutant of KeepsPrefixes: a list that grew is taken for an extended one.
KeepsLengths(base, to) == \A f \in ListField : Len(base.lists[f]) <= Len(to.lists[f])

KeepsPrefixes(base, to) == \A f \in ListField : IsPrefix(base.lists[f], to.lists[f])
(* in the order of ALLOWED_BRIEF_PATCH_FIELDS *)
PatchesFromWholeBrief(base, to) ==
  LET old(f) == Len(base.lists[f])
      added(f) == [i \in 1..(Len(to.lists[f]) - old(f)) |->
                     Patch("append", f, to.lists[f][old(f) + i])] IN
  (IF to.summary = base.summary THEN << >> ELSE <<Patch("set", "summary", Text(to.summary))>>)
    \o added("signals") \o added("initiatives") \o added("personas")
    \o added("risks") \o added("sources") \o added("extensions")

(* normalizePatches, prepareBriefUpdateCandidates: at least one, not too many,
   none too long, nor all together *)
WithinLimits(ps) ==
  /\ ps # << >> /\ Len(ps) <= MaxCards
  /\ \A p \in Range(ps) : p.value.text # "long"
  /\ Cardinality({i \in DOMAIN ps : ps[i].value.text = "bulky"}) <= MaxBulky

Cards(base, ps) == Each(LAMBDA p : [patch |-> p, baseline |-> base], ps)

-----------------------------------------------------------------------------
(* applyValidMonitorPatches *)

Urls(b) == {x.url : x \in UNION {Range(b.lists[f]) : f \in ListField}} \ {"none"}
CitesUrl(p) == {p.value.url} \ {"none"}
(* about the same, as far as the words tell *)
SoundAlike(x, y, untold) == x.about = y.about /\ {x.text, y.text} \intersect untold = {}
(* monitorTextsAreDuplicates *)
RepeatsSignal(x, y) == SoundAlike(x, y, {"terse", "mute"})
IsDuplicate(b, p) ==
  /\ p.op = "append"
  /\ \/ p.field = "sources" /\ CitesUrl(p) \intersect Urls(b) # {}
     \/ p.field = "signals" /\ \E x \in Range(b.lists["signals"]) : RepeatsSignal(x, p.value)

(* a source supports the findings that cite it or are about the same *)
SourceSupports(p, ps) ==
  \E q \in ps : CitesUrl(p) \intersect CitesUrl(q) # {} \/ SoundAlike(p.value, q.value, {"mute"})

(* one finding: out of bounds, known already, malformed, or accepted *)
TakeFinding(acc, p) ==
  IF IsDuplicate(acc.brief, p) THEN [acc EXCEPT !.known = @ \union {p}]
  ELSE IF ~Parses(p) THEN acc
  ELSE [acc EXCEPT !.brief = Patched(@, p), !.taken = Append(@, p)]

\* Mutant of TakeSource: a source that only backs a known finding is taken.
TakeAnySource(base, acc, p) ==
  LET cited == UNION {CitesUrl(q) : q \in {x \in Range(acc.taken) : x.field = "sources"}} IN
  IF IsDuplicate(base, p) \/ CitesUrl(p) \intersect cited # {} \/ ~Parses(p) THEN acc
  ELSE [acc EXCEPT !.brief = Patched(@, p), !.taken = Append(@, p)]

(* a source after them, unless it only backs a finding that was known, or is
   known itself *)
TakeSource(base, acc, p) ==
  LET findings == {q \in Range(acc.taken) : q.field # "sources"}
      cited == UNION {CitesUrl(q) : q \in Range(acc.taken) \ findings} IN
  IF \/ ~SourceSupports(p, findings) /\ SourceSupports(p, acc.known)
     \/ IsDuplicate(base, p) \/ CitesUrl(p) \intersect cited # {}
     \/ ~Parses(p)
  THEN acc
  ELSE [acc EXCEPT !.brief = Patched(@, p), !.taken = Append(@, p)]

(* first the findings, then the sources *)
ApplyValidMonitorPatches(base, ps) ==
  LET known == {p \in Range(ps) : p.field # "sources" /\ IsDuplicate(base, p)}
      found[n \in 0..Len(ps)] ==
        IF n = 0 THEN [brief |-> base, taken |-> << >>, known |-> known]
        ELSE IF ps[n].field \in MonitorField \ {"sources"} THEN TakeFinding(found[n - 1], ps[n])
        ELSE found[n - 1]
      sifted[n \in 0..Len(ps)] ==
        IF n = 0 THEN found[Len(ps)]
        ELSE IF ps[n].field = "sources" THEN TakeSource(base, sifted[n - 1], ps[n])
        ELSE sifted[n - 1]
  IN  sifted[Len(ps)]

-----------------------------------------------------------------------------
(* A job and the people at its brief. *)

Waiting == [kind |-> "none", stage |-> "waiting", base |-> content]
ProposalBriefInit ==
  /\ content \in StoredBrief /\ writer = TRUE
  /\ work = Waiting /\ scan = << >> /\ proposed = content /\ cards = << >>

(* executeResearchJob and executeMonitorJob read their brief *)
ReadBrief(kind) ==
  /\ work.stage = "waiting" /\ writer
  /\ work' = [kind |-> kind, stage |-> "research", base |-> content]
  /\ UNCHANGED <<content, writer, scan, proposed, cards>>

(* somebody saves another brief, or the requester's right is taken *)
EditBrief(b) ==
  /\ work.stage = "research" /\ b # content
  /\ content' = b /\ UNCHANGED <<writer, work, scan, proposed, cards>>
TakeRight ==
  /\ work.stage = "research" /\ writer
  /\ writer' = FALSE /\ UNCHANGED <<content, work, scan, proposed, cards>>

End(stage) == work' = [work EXCEPT !.stage = stage] /\ UNCHANGED <<content, writer>>

(* the transaction: the same brief, the right, and every card or none *)
Unchanged == writer /\ content = work.base
Queue(ps) == cards' = Cards(work.base, ps)

(* queueRefreshCandidatesAndMarkJobDone *)
RefreshAllowed(to) ==
  /\ Unchanged /\ to.identity = work.base.identity
  /\ KeepsPrefixes(work.base, to)
  /\ LET ps == PatchesFromWholeBrief(work.base, to) IN ps = << >> \/ WithinLimits(ps)
FinishRefresh ==
  /\ work.stage = "research" /\ work.kind = "refresh"
  /\ \E r \in Research :
       LET to == MergeBriefs(work.base, r) IN
       /\ proposed' = to /\ UNCHANGED scan
       /\ IF RefreshAllowed(to)
          THEN End("done") /\ Queue(PatchesFromWholeBrief(work.base, to))
          ELSE End("failed") /\ UNCHANGED cards

(* the rest of executeMonitorJob: nothing new, stale, refused, or queued *)
FinishMonitor ==
  /\ work.stage = "research" /\ work.kind = "monitor"
  /\ \E ps \in Finding :
       LET new == ApplyValidMonitorPatches(work.base, ps) IN
       /\ scan' = ps /\ proposed' = new.brief
       /\ IF ~Unchanged \/ (new.taken # << >> /\ ~WithinLimits(new.taken))
          THEN End("failed") /\ UNCHANGED cards
          ELSE End("done") /\ Queue(new.taken)

ProposalBriefNext ==
  \/ \E kind \in {"refresh", "monitor"} : ReadBrief(kind)
  \/ \E b \in StoredBrief : EditBrief(b)
  \/ TakeRight
  \/ FinishRefresh \/ FinishMonitor

ProposalBriefSpec == ProposalBriefInit /\ [][ProposalBriefNext]_proposalBriefVars

-----------------------------------------------------------------------------
(* A reviewer who incorporates every card of a job into the brief the cards *)
(* name gets the brief the job proposed, but for the author of an extension *)
(* (an appended extension is signed "chat"), and that brief is the one the  *)
(* job read: a card never speaks of another brief, repeats an item the      *)
(* brief has, or leaves a part of the job's result out.                     *)
Unsigned(b) ==
  [b EXCEPT !.lists["extensions"] = Each(LAMBDA x : [x EXCEPT !.from = "any"], @)]
CardsRebuildTheResult ==
  cards # << >> =>
    LET base == cards[1].baseline
        ps == Each(LAMBDA c : c.patch, cards) IN
    /\ \A i \in DOMAIN cards : cards[i].baseline = content
    /\ Unsigned(PatchedWith(base, ps)) = Unsigned(proposed)

(* The monitor's cards bring news: no appended signal repeats, in words      *)
(* enough to tell, what another signal of the brief or of an earlier card    *)
(* says (a terse signal is appended again and again), no two sources share   *)
(* an address, and no source is there only for a finding left out as known.  *)
MonitorBringsNews ==
  work.kind = "monitor" =>
    LET ps == Each(LAMBDA c : c.patch, cards)
        findings == {p \in Range(ps) : p.field # "sources"}
        left == {p \in Range(scan) : p.field \in MonitorField \ {"sources"} /\ Parses(p)} \ findings IN
    \A i \in DOMAIN ps :
      /\ ~IsDuplicate(Applied(work.base, ps, {ps[i].field})[i - 1], ps[i])
      /\ ps[i].field = "sources" =>
           SourceSupports(ps[i], findings) \/ ~SourceSupports(ps[i], left)

(* What the dialog says before a refresh (RefreshConfirmModal.tsx:74): new  *)
(* findings update matching items, and unmatched ones are kept as           *)
(* "previously found". So a refresh of a brief that did not change, by one  *)
(* who may write it, about the same account and within the limits, ends     *)
(* with its merge in review.                                                *)
RefreshUpdatesMatching ==
  work.kind = "refresh" /\ work.stage = "failed" =>
    \/ ~Unchanged \/ proposed.identity # work.base.identity
    \/ Cardinality(UNION {Range(proposed.lists[f]) \ Range(work.base.lists[f]) : f \in ListField})
         >= MaxCards
    \/ \E f \in ListField : \E x \in Range(proposed.lists[f]) : x.text = "long"
    \/ proposed.summary = "long"
    \/ Cardinality({x \in UNION {{f} \X DOMAIN proposed.lists[f] : f \in ListField} :
                       proposed.lists[x[1]][x[2]].text = "bulky"}) >= MaxBulky
==============================================================================
