---------------------------- MODULE JournalProofs ----------------------------
(* Proofs about the Journal.                                                  *)
(*                                                                            *)
(* Its change radar passes nothing over (NothingIsPassedOver).  What a        *)
(* checkpoint froze is a manifest of the past: every record it lists is still *)
(* listed now, and one it lists as removed has not changed since (Later).     *)
(* That relation is what the invariant keeps (RadarSafe), for the checkpoints *)
(* and for the two manifests of an answer under way; between two manifests so *)
(* related the buckets are exact, kind of record by kind of record            *)
(* (ExactLater).                                                              *)
(*                                                                            *)
(* Its records are well formed: for any number of tasks, decisions and        *)
(* candidates the checklist stays a forest, decisions form linear chains that *)
(* are never rewritten, a candidate has one live record.                      *)
EXTENDS JournalRadar, JournalPromotion, TLAPS

------------------------------------------------------------------------------
(* The radar *)

(* What a row of the log, or of a manifest, looks like. *)
RowOK(id, r) ==
  /\ r = [at |-> r.at, status |-> r.status, doneAt |-> r.doneAt, text |-> r.text,
          touched |-> r.touched, of |-> r.of]
  /\ r.at \in {"none", "live", "removed"} /\ (r.at = "none" => r = NoRecord)
  /\ id \in RadarEntry /\ r.at # "none" =>
       r.status = "posted" /\ r.doneAt = 0 /\ r.touched = 0 /\ r.of = ""
  /\ id \in RadarSource /\ r.at # "none" =>
       r.status = "stored" /\ r.doneAt = 0 /\ r.touched = 0 /\ r.text = 0 /\ r.of \in RadarEntry
  /\ id \in RadarCandidate /\ r.at # "none" =>
       r.at = "live" /\ r.doneAt = 0 /\ r.text = 0 /\ r.of = ""
  /\ id \in RadarTask => r.of = ""
  /\ id \in RadarDecision => r.doneAt = 0

(* How a row may be found later: what is there stays, and a removed record does *)
(* not change any more.                                                         *)
Succeeds(r, s) ==
  /\ r.at # "none" => s.at # "none"
  /\ r.at = "removed" => s = r

Typed(m) == \A id \in Records : RowOK(id, m.rows[id])
Later(c, m) == Typed(c) /\ Typed(m) /\ \A id \in Records : Succeeds(c.rows[id], m.rows[id])

LEMMA ItemIds ==
  /\ \A name, S : {item.id : item \in Bucket(name, S)} = S
  /\ \A name, S : {item.id : item \in Unlinked(name, S)} = S
  /\ \A A, B : {item.id : item \in A \union B} = {item.id : item \in A} \union {item.id : item \in B}
<1>1. \A name, S : {item.id : item \in Bucket(name, S)} = S
  <2> SUFFICES ASSUME NEW name, NEW S PROVE {item.id : item \in Bucket(name, S)} = S
    OBVIOUS
  <2>1. \A item \in Bucket(name, S) : item.id \in S
    BY DEF Bucket
  <2>2. ASSUME NEW i \in S PROVE \E item \in Bucket(name, S) : item.id = i
    <3>1. [bucket |-> name, id |-> i, to |-> i] \in Bucket(name, S)
      BY DEF Bucket
    <3> QED  BY <3>1
  <2> QED  BY <2>1, <2>2
<1>2. \A name, S : {item.id : item \in Unlinked(name, S)} = S
  <2> SUFFICES ASSUME NEW name, NEW S PROVE {item.id : item \in Unlinked(name, S)} = S
    OBVIOUS
  <2>1. \A item \in Unlinked(name, S) : item.id \in S
    BY DEF Unlinked
  <2>2. ASSUME NEW i \in S PROVE \E item \in Unlinked(name, S) : item.id = i
    <3>1. [bucket |-> name, id |-> i, to |-> "none"] \in Unlinked(name, S)
      BY DEF Unlinked
    <3> QED  BY <3>1
  <2> QED  BY <2>1, <2>2
<1>3. \A A, B : {item.id : item \in A \union B} = {item.id : item \in A} \union {item.id : item \in B}
  OBVIOUS
<1> QED  BY <1>1, <1>2, <1>3

(* The columns in which two rows differ, one by one. *)
LEMMA DifferingColumns ==
  ASSUME NEW c, NEW m, NEW id
  PROVE  /\ \A ids : id \in Differ(c, m, ids, {"text"}) <=>
              id \in InBoth(c, m, ids) /\ c.rows[id].text # m.rows[id].text
         /\ \A ids : id \in Differ(c, m, ids, {"at", "text", "of"}) <=>
              /\ id \in InBoth(c, m, ids)
              /\ \/ c.rows[id].at # m.rows[id].at \/ c.rows[id].text # m.rows[id].text
                 \/ c.rows[id].of # m.rows[id].of
         /\ \A ids : id \in Differ(c, m, ids, {"at", "status"}) <=>
              /\ id \in InBoth(c, m, ids)
              /\ \/ c.rows[id].at # m.rows[id].at \/ c.rows[id].status # m.rows[id].status
         /\ \A ids : id \in Differ(c, m, ids, {"status", "doneAt"}) <=>
              /\ id \in InBoth(c, m, ids)
              /\ \/ c.rows[id].status # m.rows[id].status \/ c.rows[id].doneAt # m.rows[id].doneAt
         /\ \A ids : id \in Differ(c, m, ids, {"at", "status", "text", "of", "touched"}) <=>
              /\ id \in InBoth(c, m, ids)
              /\ \/ c.rows[id].at # m.rows[id].at \/ c.rows[id].status # m.rows[id].status
                 \/ c.rows[id].text # m.rows[id].text \/ c.rows[id].of # m.rows[id].of
                 \/ c.rows[id].touched # m.rows[id].touched
BY DEF Differ

(* The rows of the two manifests under one id. *)
LEMMA TwoRows ==
  ASSUME NEW c, NEW m, Later(c, m), NEW id \in Records
  PROVE  /\ RowOK(id, c.rows[id]) /\ RowOK(id, m.rows[id])
         /\ Succeeds(c.rows[id], m.rows[id])
BY DEF Later, Typed

(* What a reader sees of a row differs in its presence, or in a visible column. *)
LEMMA SeenRow ==
  ASSUME NEW m, NEW id, RowOK(id, m.rows[id]), NEW r, r = m.rows[id]
  PROVE  /\ r.at # "live" => SeenOf(m, id) = [at |-> r.at, status |-> "", doneAt |-> 0,
                                text |-> 0, touched |-> 0, of |-> ""]
         /\ r.at = "live" => SeenOf(m, id) = [at |-> "live", status |-> r.status, doneAt |-> r.doneAt,
              text |-> r.text, of |-> r.of,
              touched |-> IF id \in RadarTask \union RadarCandidate THEN 0 ELSE r.touched]
<1>1. r = [at |-> r.at, status |-> r.status, doneAt |-> r.doneAt, text |-> r.text,
           touched |-> r.touched, of |-> r.of]
  BY DEF RowOK
<1>2. CASE r.at # "live"
  BY <1>2 DEF SeenOf, NoRecord
<1>3. CASE r.at = "live" /\ id \in RadarTask \union RadarCandidate
  <2>1. SeenOf(m, id) = [r EXCEPT !.touched = 0]
    BY <1>3 DEF SeenOf
  <2>2. [r EXCEPT !.touched = 0] = [at |-> r.at, status |-> r.status, doneAt |-> r.doneAt,
                                    text |-> r.text, touched |-> 0, of |-> r.of]
    BY <1>1
  <2> QED  BY <1>3, <2>1, <2>2
<1>4. CASE r.at = "live" /\ id \notin RadarTask \union RadarCandidate
  BY <1>1, <1>4 DEF SeenOf
<1> QED  BY <1>2, <1>3, <1>4

LEMMA SeenDiffers ==
  ASSUME NEW c, NEW m, NEW id, RowOK(id, c.rows[id]), RowOK(id, m.rows[id]),
         NEW r, NEW s, r = c.rows[id], s = m.rows[id]
  PROVE  SeenOf(c, id) # SeenOf(m, id) <=>
           \/ r.at # s.at
           \/ /\ r.at = "live" /\ s.at = "live"
              /\ \/ r.status # s.status \/ r.doneAt # s.doneAt \/ r.text # s.text \/ r.of # s.of
                 \/ id \notin RadarTask \union RadarCandidate /\ r.touched # s.touched
<1>1. /\ r.at # "live" => SeenOf(c, id) = [at |-> r.at, status |-> "", doneAt |-> 0,
                                text |-> 0, touched |-> 0, of |-> ""]
      /\ r.at = "live" => SeenOf(c, id) = [at |-> "live", status |-> r.status, doneAt |-> r.doneAt,
              text |-> r.text, of |-> r.of,
              touched |-> IF id \in RadarTask \union RadarCandidate THEN 0 ELSE r.touched]
  BY ZenonT(30), SeenRow
<1>2. /\ s.at # "live" => SeenOf(m, id) = [at |-> s.at, status |-> "", doneAt |-> 0,
                                text |-> 0, touched |-> 0, of |-> ""]
      /\ s.at = "live" => SeenOf(m, id) = [at |-> "live", status |-> s.status, doneAt |-> s.doneAt,
              text |-> s.text, of |-> s.of,
              touched |-> IF id \in RadarTask \union RadarCandidate THEN 0 ELSE s.touched]
  BY ZenonT(30), SeenRow
<1>3. CASE r.at = "live" /\ s.at = "live"
  <2> DEFINE Touch(x) == IF id \in RadarTask \union RadarCandidate THEN 0 ELSE x.touched
  <2>1. /\ SeenOf(c, id) = [at |-> "live", status |-> r.status, doneAt |-> r.doneAt,
                           text |-> r.text, of |-> r.of, touched |-> Touch(r)]
        /\ SeenOf(m, id) = [at |-> "live", status |-> s.status, doneAt |-> s.doneAt,
                           text |-> s.text, of |-> s.of, touched |-> Touch(s)]
    BY <1>1, <1>2, <1>3
  <2>2. Touch(r) # Touch(s) <=> id \notin RadarTask \union RadarCandidate /\ r.touched # s.touched
    OBVIOUS
  <2> HIDE DEF Touch
  <2>3. SeenOf(c, id) # SeenOf(m, id) <=>
          \/ r.status # s.status \/ r.doneAt # s.doneAt \/ r.text # s.text \/ r.of # s.of
          \/ Touch(r) # Touch(s)
    BY <2>1
  <2> QED  BY <1>3, <2>2, <2>3
<1>4. CASE r.at # s.at
  <2> DEFINE Look(x) ==
        IF x.at = "live"
          THEN [at |-> "live", status |-> x.status, doneAt |-> x.doneAt, text |-> x.text, of |-> x.of,
                touched |-> IF id \in RadarTask \union RadarCandidate THEN 0 ELSE x.touched]
          ELSE [at |-> x.at, status |-> "", doneAt |-> 0, text |-> 0, touched |-> 0, of |-> ""]
  <2>1. SeenOf(c, id) = Look(r) /\ SeenOf(m, id) = Look(s)
    BY <1>1, <1>2
  <2>2. Look(r).at = r.at /\ Look(s).at = s.at
    OBVIOUS
  <2> HIDE DEF Look
  <2> QED  BY <1>4, <2>1, <2>2
<1>5. CASE r.at # "live" /\ r.at = s.at
  BY <1>1, <1>2, <1>5
<1> QED  BY <1>3, <1>4, <1>5

(* What each kind of record contributes to the buckets. *)
LEMMA EntryIds ==
  ASSUME NEW c, NEW m, Later(c, m)
  PROVE  /\ {item.id : item \in EntryItems(c, m)}
              = {id \in RadarEntry : SeenOf(c, id) # SeenOf(m, id)}
         /\ \A item \in EntryItems(c, m) : item.to # "none" => IsLive(m, item.to)
<1> DEFINE gone == In(c, RadarEntry) \ In(m, RadarEntry)
<1> DEFINE new == Added(c, m, RadarEntry) \cap In(m, RadarEntry)
<1> DEFINE lost == (Added(c, m, RadarEntry) \ In(m, RadarEntry)) \union gone
<1> DEFINE edited == Differ(c, m, In(m, RadarEntry), {"text"})
<1>1. EntryItems(c, m) = Bucket("new_entries", new) \union Unlinked("removed_entries", lost)
                           \union Bucket("edited_entries", edited)
  BY DEF EntryItems
<1>2. ASSUME NEW id \in RadarEntry
      PROVE  id \in new \union lost \union edited <=> SeenOf(c, id) # SeenOf(m, id)
  <2>1. id \in Records /\ id \notin RadarTask \union RadarCandidate
    BY <1>2, RadarAssumption DEF Records, RadarAssumption
  <2> DEFINE r == c.rows[id]
  <2> DEFINE s == m.rows[id]
  <2>2. RowOK(id, r) /\ RowOK(id, s) /\ Succeeds(r, s)
    BY <2>1, TwoRows
  <2>3. id \in Differ(c, m, In(m, RadarEntry), {"text"}) <=> id \in InBoth(c, m, In(m, RadarEntry)) /\ r.text # s.text
    BY DifferingColumns
  <2>4. SeenOf(c, id) # SeenOf(m, id) <=>
           \/ r.at # s.at
           \/ /\ r.at = "live" /\ s.at = "live"
              /\ \/ r.status # s.status \/ r.doneAt # s.doneAt \/ r.text # s.text \/ r.of # s.of
                 \/ id \notin RadarTask \union RadarCandidate /\ r.touched # s.touched
    BY <2>2, SeenDiffers
  <2>5. id \in new \union lost \union edited <=> r.at # s.at \/ (r.at = "live" /\ s.at = "live" /\ (r.text # s.text))
    BY <1>2, <2>2, <2>3 DEF RowOK, Succeeds, Added, In, InBoth, There, IsLive
  <2> QED  BY <1>2, <2>1, <2>2, <2>4, <2>5 DEF RowOK
<1>3. new \subseteq RadarEntry /\ lost \subseteq RadarEntry /\ edited \subseteq RadarEntry
  BY DEF Added, In, Differ, InBoth
<1>4. \A id \in new \union edited : IsLive(m, id)
  BY DEF In, Differ, InBoth
<1> HIDE DEF new, lost, edited
<1>5. \A item \in EntryItems(c, m) : item.to # "none" => item.to \in new \union edited
  BY <1>1 DEF Bucket, Unlinked
<1>6. {item.id : item \in EntryItems(c, m)} = new \union lost \union edited
  BY <1>1, ItemIds
<1> QED  BY <1>2, <1>3, <1>4, <1>5, <1>6

LEMMA SourceIds ==
  ASSUME NEW c, NEW m, Later(c, m)
  PROVE  /\ {item.id : item \in SourceItems(c, m)}
              = {id \in RadarSource : SeenOf(c, id) # SeenOf(m, id)}
         /\ \A item \in SourceItems(c, m) : item.to # "none" => IsLive(m, item.to)
<1> DEFINE listed == Added(c, m, RadarSource) \union Differ(c, m, RadarSource, {"at", "text", "of"})
<1>1. SourceItems(c, m) = Unlinked("source_changes", listed)
  BY DEF SourceItems
<1>2. ASSUME NEW id \in RadarSource
      PROVE  id \in listed <=> SeenOf(c, id) # SeenOf(m, id)
  <2>1. id \in Records /\ id \notin RadarTask \union RadarCandidate /\ id \notin RadarEntry
    BY <1>2, RadarAssumption DEF Records, RadarAssumption
  <2> DEFINE r == c.rows[id]
  <2> DEFINE s == m.rows[id]
  <2>2. RowOK(id, r) /\ RowOK(id, s) /\ Succeeds(r, s)
    BY <2>1, TwoRows
  <2>3. id \in Differ(c, m, RadarSource, {"at", "text", "of"}) <=> id \in InBoth(c, m, RadarSource) /\ (r.at # s.at \/ r.text # s.text \/ r.of # s.of)
    BY DifferingColumns
  <2>4. SeenOf(c, id) # SeenOf(m, id) <=>
           \/ r.at # s.at
           \/ /\ r.at = "live" /\ s.at = "live"
              /\ \/ r.status # s.status \/ r.doneAt # s.doneAt \/ r.text # s.text \/ r.of # s.of
                 \/ id \notin RadarTask \union RadarCandidate /\ r.touched # s.touched
    BY <2>2, SeenDiffers
  <2>5. id \in listed <=> r.at # s.at \/ (r.at = "live" /\ s.at = "live" /\ (r.text # s.text \/ r.of # s.of))
    BY <1>2, <2>2, <2>3 DEF RowOK, Succeeds, Added, In, InBoth, There, IsLive
  <2> QED  BY <1>2, <2>1, <2>2, <2>4, <2>5 DEF RowOK
<1>3. listed \subseteq RadarSource
  BY DEF Added, In, Differ, InBoth
<1> HIDE DEF listed
<1>5. \A item \in SourceItems(c, m) : item.to = "none"
  BY <1>1 DEF Unlinked
<1>6. {item.id : item \in SourceItems(c, m)} = listed
  BY <1>1, ItemIds
<1> QED  BY <1>2, <1>3, <1>5, <1>6

LEMMA CandidateIds ==
  ASSUME NEW c, NEW m, Later(c, m)
  PROVE  /\ {item.id : item \in CandidateItems(c, m)}
              = {id \in RadarCandidate : SeenOf(c, id) # SeenOf(m, id)}
         /\ \A item \in CandidateItems(c, m) : item.to # "none" => IsLive(m, item.to)
<1> DEFINE pending == {id \in RadarCandidate : Pending(m, id)}
<1> DEFINE awaiting == Added(c, m, RadarCandidate) \cap pending
<1> DEFINE moved == (Added(c, m, RadarCandidate) \ pending) \union Differ(c, m, RadarCandidate, {"at", "status"})
<1>1. CandidateItems(c, m) = Unlinked("candidates_awaiting_review", awaiting) \union Unlinked("candidate_status_transitions", moved)
  BY DEF CandidateItems
<1>2. ASSUME NEW id \in RadarCandidate
      PROVE  id \in awaiting \union moved <=> SeenOf(c, id) # SeenOf(m, id)
  <2>1. id \in Records /\ id \notin RadarEntry \union RadarSource
    BY <1>2, RadarAssumption DEF Records, RadarAssumption
  <2> DEFINE r == c.rows[id]
  <2> DEFINE s == m.rows[id]
  <2>2. RowOK(id, r) /\ RowOK(id, s) /\ Succeeds(r, s)
    BY <2>1, TwoRows
  <2>3. id \in Differ(c, m, RadarCandidate, {"at", "status"}) <=> id \in InBoth(c, m, RadarCandidate) /\ (r.at # s.at \/ r.status # s.status)
    BY DifferingColumns
  <2>4. SeenOf(c, id) # SeenOf(m, id) <=>
           \/ r.at # s.at
           \/ /\ r.at = "live" /\ s.at = "live"
              /\ \/ r.status # s.status \/ r.doneAt # s.doneAt \/ r.text # s.text \/ r.of # s.of
                 \/ id \notin RadarTask \union RadarCandidate /\ r.touched # s.touched
    BY <2>2, SeenDiffers
  <2>5. id \in awaiting \union moved <=> r.at # s.at \/ (r.at = "live" /\ s.at = "live" /\ (r.status # s.status))
    BY <1>2, <2>2, <2>3 DEF RowOK, Succeeds, Added, In, InBoth, There, IsLive, Pending
  <2> QED  BY <1>2, <2>1, <2>2, <2>4, <2>5 DEF RowOK
<1>3. awaiting \subseteq RadarCandidate /\ moved \subseteq RadarCandidate
  BY DEF Added, In, Differ, InBoth
<1> HIDE DEF awaiting, moved
<1>5. \A item \in CandidateItems(c, m) : item.to = "none"
  BY <1>1 DEF Unlinked
<1>6. {item.id : item \in CandidateItems(c, m)} = awaiting \union moved
  BY <1>1, ItemIds
<1> QED  BY <1>2, <1>3, <1>5, <1>6

LEMMA TaskIds ==
  ASSUME NEW c, NEW m, Later(c, m)
  PROVE  /\ {item.id : item \in TaskItems(c, m)}
              = {id \in RadarTask : SeenOf(c, id) # SeenOf(m, id)}
         /\ \A item \in TaskItems(c, m) : item.to # "none" => IsLive(m, item.to)
<1> DEFINE gone == In(c, RadarTask) \ In(m, RadarTask)
<1> DEFINE done == {id \in RadarTask : m.rows[id].status = "done"}
<1> DEFINE new == Added(c, m, RadarTask) \cap In(m, RadarTask)
<1> DEFINE completed == (Added(c, m, RadarTask) \cap In(m, RadarTask) \cap done) \union Differ(c, m, In(m, RadarTask), {"status", "doneAt"})
<1> DEFINE lost == (Added(c, m, RadarTask) \ In(m, RadarTask)) \union gone
<1> DEFINE edited == Differ(c, m, In(m, RadarTask), {"text"})
<1>1. TaskItems(c, m) = Bucket("new_tasks", new) \union Bucket("completed_tasks", completed)
       \union Unlinked("removed_tasks", lost) \union Bucket("task_detail_changes", edited)
  BY DEF TaskItems
<1>2. ASSUME NEW id \in RadarTask
      PROVE  id \in new \union completed \union lost \union edited <=> SeenOf(c, id) # SeenOf(m, id)
  <2>1. id \in Records /\ id \in RadarTask
    BY <1>2, RadarAssumption DEF Records, RadarAssumption
  <2> DEFINE r == c.rows[id]
  <2> DEFINE s == m.rows[id]
  <2>2. RowOK(id, r) /\ RowOK(id, s) /\ Succeeds(r, s)
    BY <2>1, TwoRows
  <2>3. id \in Differ(c, m, In(m, RadarTask), {"text"}) <=> id \in InBoth(c, m, In(m, RadarTask)) /\ r.text # s.text
    BY DifferingColumns
  <2>4. id \in Differ(c, m, In(m, RadarTask), {"status", "doneAt"}) <=> id \in InBoth(c, m, In(m, RadarTask)) /\ (r.status # s.status \/ r.doneAt # s.doneAt)
    BY DifferingColumns
  <2>5. SeenOf(c, id) # SeenOf(m, id) <=>
           \/ r.at # s.at
           \/ /\ r.at = "live" /\ s.at = "live"
              /\ \/ r.status # s.status \/ r.doneAt # s.doneAt \/ r.text # s.text \/ r.of # s.of
                 \/ id \notin RadarTask \union RadarCandidate /\ r.touched # s.touched
    BY <2>2, SeenDiffers
  <2>6. id \in new \union completed \union lost \union edited <=> r.at # s.at \/ (r.at = "live" /\ s.at = "live" /\ (r.status # s.status \/ r.doneAt # s.doneAt \/ r.text # s.text))
    BY <1>2, <2>2, <2>3, <2>4 DEF RowOK, Succeeds, Added, In, InBoth, There, IsLive
  <2> QED  BY <1>2, <2>1, <2>2, <2>5, <2>6 DEF RowOK
<1>3. new \subseteq RadarTask /\ completed \subseteq RadarTask /\ lost \subseteq RadarTask /\ edited \subseteq RadarTask
  BY DEF Added, In, Differ, InBoth
<1>4. \A id \in new \union completed \union edited : IsLive(m, id)
  BY DEF In, Differ, InBoth
<1> HIDE DEF new, completed, lost, edited
<1>5. \A item \in TaskItems(c, m) : item.to # "none" => item.to \in new \union completed \union edited
  BY <1>1 DEF Bucket, Unlinked
<1>6. {item.id : item \in TaskItems(c, m)} = new \union completed \union lost \union edited
  BY <1>1, ItemIds
<1> QED  BY <1>2, <1>3, <1>4, <1>5, <1>6

LEMMA DecisionIds ==
  ASSUME NEW c, NEW m, Later(c, m)
  PROVE  /\ {item.id : item \in DecisionItems(c, m)}
              = {id \in RadarDecision : SeenOf(c, id) # SeenOf(m, id)}
         /\ \A item \in DecisionItems(c, m) : item.to # "none" => IsLive(m, item.to)
<1> DEFINE linked == {id \in RadarDecision : m.rows[id].status # "active" \/ m.rows[id].of # ""}
<1> DEFINE listed == (Added(c, m, RadarDecision) \ In(m, RadarDecision)) \union (Added(c, m, RadarDecision) \cap linked)
       \union Differ(c, m, RadarDecision, {"at", "status", "text", "of", "touched"})
<1> DEFINE new == Added(c, m, RadarDecision) \cap In(m, RadarDecision)
<1> DEFINE there == listed \cap In(m, RadarDecision)
<1> DEFINE lost == listed \ In(m, RadarDecision)
<1>1. DecisionItems(c, m) = Bucket("new_decisions", new) \union Bucket("decision_lifecycle_changes", there)
       \union Unlinked("decision_lifecycle_changes", lost)
  BY DEF DecisionItems
<1>2. ASSUME NEW id \in RadarDecision
      PROVE  id \in new \union there \union lost <=> SeenOf(c, id) # SeenOf(m, id)
  <2>1. id \in Records /\ id \notin RadarTask \union RadarCandidate
    BY <1>2, RadarAssumption DEF Records, RadarAssumption
  <2> DEFINE r == c.rows[id]
  <2> DEFINE s == m.rows[id]
  <2>2. RowOK(id, r) /\ RowOK(id, s) /\ Succeeds(r, s)
    BY <2>1, TwoRows
  <2>3. id \in Differ(c, m, RadarDecision, {"at", "status", "text", "of", "touched"}) <=> id \in InBoth(c, m, RadarDecision)
          /\ (r.at # s.at \/ r.status # s.status \/ r.text # s.text \/ r.of # s.of \/ r.touched # s.touched)
    BY DifferingColumns
  <2>4. SeenOf(c, id) # SeenOf(m, id) <=>
           \/ r.at # s.at
           \/ /\ r.at = "live" /\ s.at = "live"
              /\ \/ r.status # s.status \/ r.doneAt # s.doneAt \/ r.text # s.text \/ r.of # s.of
                 \/ id \notin RadarTask \union RadarCandidate /\ r.touched # s.touched
    BY <2>2, SeenDiffers
  <2>5. id \in new \union there \union lost <=> r.at # s.at \/ (r.at = "live" /\ s.at = "live" /\ (r.status # s.status \/ r.text # s.text \/ r.of # s.of \/ r.touched # s.touched))
    BY <1>2, <2>2, <2>3 DEF RowOK, Succeeds, Added, In, InBoth, There, IsLive
  <2> QED  BY <1>2, <2>1, <2>2, <2>4, <2>5 DEF RowOK
<1>3. new \subseteq RadarDecision /\ there \subseteq RadarDecision /\ lost \subseteq RadarDecision
  BY DEF Added, In, Differ, InBoth
<1>4. \A id \in new \union there : IsLive(m, id)
  BY DEF In, Differ, InBoth
<1> HIDE DEF new, there, lost
<1>5. \A item \in DecisionItems(c, m) : item.to # "none" => item.to \in new \union there
  BY <1>1 DEF Bucket, Unlinked
<1>6. {item.id : item \in DecisionItems(c, m)} = new \union there \union lost
  BY <1>1, ItemIds
<1> QED  BY <1>2, <1>3, <1>4, <1>5, <1>6


(* What a panel shows is exact when its manifest was read after its checkpoint. *)
LEMMA ExactLater ==
  ASSUME NEW radar, radar.since = Missing \/ Later(radar.since, radar.manifest)
  PROVE  Exact(radar)
<1> DEFINE c == radar.since
<1> DEFINE m == radar.manifest
<1> SUFFICES ASSUME Frozen(c)
             PROVE  /\ {item.id : item \in RadarItems(c, m)}
                         = {id \in Records : SeenOf(c, id) # SeenOf(m, id)}
                    /\ \A item \in RadarItems(c, m) : item.to # "none" => IsLive(m, item.to)
  BY DEF Exact
<1>1. Later(c, m)
  BY DEF Frozen
<1> HIDE DEF c, m
<1>2. RadarItems(c, m) = EntryItems(c, m) \union SourceItems(c, m) \union CandidateItems(c, m)
         \union TaskItems(c, m) \union DecisionItems(c, m)
  BY DEF RadarItems
<1>3. {item.id : item \in RadarItems(c, m)}
        = {item.id : item \in EntryItems(c, m)} \union {item.id : item \in SourceItems(c, m)}
            \union {item.id : item \in CandidateItems(c, m)}
            \union {item.id : item \in TaskItems(c, m)} \union {item.id : item \in DecisionItems(c, m)}
  BY <1>2
<1>4. {item.id : item \in RadarItems(c, m)}
        = {id \in Records : SeenOf(c, id) # SeenOf(m, id)}
  <2> DEFINE shown(K) == {id \in K : SeenOf(c, id) # SeenOf(m, id)}
  <2>1. /\ {item.id : item \in EntryItems(c, m)} = shown(RadarEntry)
        /\ {item.id : item \in SourceItems(c, m)} = shown(RadarSource)
        /\ {item.id : item \in CandidateItems(c, m)} = shown(RadarCandidate)
        /\ {item.id : item \in TaskItems(c, m)} = shown(RadarTask)
        /\ {item.id : item \in DecisionItems(c, m)} = shown(RadarDecision)
    BY <1>1, EntryIds, SourceIds, CandidateIds, TaskIds, DecisionIds
  <2>2. shown(Records) = shown(RadarEntry) \union shown(RadarSource) \union shown(RadarCandidate)
                           \union shown(RadarTask) \union shown(RadarDecision)
    BY DEF Records
  <2> QED  BY <1>3, <2>1, <2>2
<1>5. \A item \in RadarItems(c, m) : item.to # "none" => IsLive(m, item.to)
  BY <1>1, <1>2, EntryIds, SourceIds, CandidateIds, TaskIds, DecisionIds
<1> QED  BY <1>4, <1>5

(* The log: a source is there with its entry, and is never changed itself. *)
LogSafe ==
  /\ log = [rows |-> [id \in Records |-> log.rows[id]], versions |-> log.versions]
  /\ Typed(log)
  /\ \A id \in RadarSource : There(log, id) => IsLive(log, id) /\ There(log, log.rows[id].of)

RadarSafe ==
  /\ LogSafe
  /\ reviewed = [u \in RadarReader |-> reviewed[u]]
  /\ \A u \in RadarReader : reviewed[u] = Missing \/ Later(reviewed[u], Manifest)
  /\ panel = [p \in Panel |-> [phase |-> panel[p].phase, reply |-> panel[p].reply,
                              radar |-> panel[p].radar]]
  /\ \A p \in Panel : \/ panel[p].reply.since = Missing
                      \/ Later(panel[p].reply.since, panel[p].reply.manifest)

ManifestIs ==
  \A id \in Records : Manifest.rows[id] =
    IF id \in RadarSource /\ There(log, id) /\ ~IsLive(log, log.rows[id].of)
    THEN [log.rows[id] EXCEPT !.at = "removed"] ELSE log.rows[id]

LEMMA ManifestRows == LogSafe => ManifestIs
<1> SUFFICES ASSUME LogSafe PROVE ManifestIs
  OBVIOUS
<1> DEFINE Seen(id) == IF id \in RadarSource /\ There(log, id) /\ ~IsLive(log, log.rows[id].of)
                       THEN [log.rows[id] EXCEPT !.at = "removed"] ELSE log.rows[id]
<1>1. Manifest = [log EXCEPT !.rows = [id \in Records |-> Seen(id)]]
  BY DEF Manifest
<1> HIDE DEF Seen
<1>2. Manifest.rows = [id \in Records |-> Seen(id)]
  BY <1>1 DEF LogSafe
<1>3. \A id \in Records : Manifest.rows[id] = Seen(id)
  BY <1>2
<1> QED  BY <1>3 DEF Seen, ManifestIs

LEMMA ManifestTyped == LogSafe => Typed(Manifest)
<1> SUFFICES ASSUME LogSafe, NEW id \in Records PROVE RowOK(id, Manifest.rows[id])
  BY DEF Typed
<1>1. RowOK(id, log.rows[id])
  BY DEF LogSafe, Typed
<1> DEFINE r == log.rows[id]
<1>2. CASE id \in RadarSource /\ There(log, id) /\ ~IsLive(log, log.rows[id].of)
  <2>1. Manifest.rows[id] = [r EXCEPT !.at = "removed"]
    BY <1>2, ManifestRows DEF ManifestIs
  <2>a. r = [at |-> r.at, status |-> r.status, doneAt |-> r.doneAt, text |-> r.text,
             touched |-> r.touched, of |-> r.of]
    BY <1>1 DEF RowOK
  <2> HIDE DEF r
  <2>2. [r EXCEPT !.at = "removed"] = [at |-> "removed", status |-> r.status, doneAt |-> r.doneAt,
                                      text |-> r.text, touched |-> r.touched, of |-> r.of]
    BY <2>a
  <2> USE DEF r
  <2>3. id \notin RadarEntry \union RadarCandidate \union RadarTask \union RadarDecision
    BY <1>2, RadarAssumption DEF RadarAssumption
  <2> QED  BY <1>1, <1>2, <2>1, <2>2, <2>3 DEF RowOK, There
<1>3. CASE ~(id \in RadarSource /\ There(log, id) /\ ~IsLive(log, log.rows[id].of))
  BY <1>1, <1>3, ManifestRows DEF ManifestIs
<1> QED  BY <1>2, <1>3

(* What was behind the log stays behind it while records move as they may. *)
LEMMA ManifestMoves ==
  ASSUME LogSafe, LogSafe',
         \A id \in Records : Succeeds(log.rows[id], log'.rows[id]),
         \A id \in RadarSource : There(log, id) => log'.rows[id] = log.rows[id]
  PROVE  \A c : Later(c, Manifest) => Later(c, Manifest')
<1>1. Typed(Manifest) /\ Typed(Manifest')
  <2>1. (LogSafe => Typed(Manifest))'
    BY ManifestTyped, PTL
  <2> QED  BY <2>1, ManifestTyped
<1>2. ASSUME NEW id \in Records PROVE Succeeds(Manifest.rows[id], Manifest'.rows[id])
  <2>1. Manifest.rows[id] =
           IF id \in RadarSource /\ There(log, id) /\ ~IsLive(log, log.rows[id].of)
           THEN [log.rows[id] EXCEPT !.at = "removed"] ELSE log.rows[id]
    BY ManifestRows DEF ManifestIs
  <2>2. Manifest'.rows[id] =
           IF id \in RadarSource /\ There(log', id) /\ ~IsLive(log', log'.rows[id].of)
           THEN [log'.rows[id] EXCEPT !.at = "removed"] ELSE log'.rows[id]
    <3>1. LogSafe' => ManifestIs'
      BY ManifestRows, PTL
    <3> QED  BY <3>1 DEF ManifestIs
  <2>3. Succeeds(log.rows[id], log'.rows[id])
    OBVIOUS
  <2>4. CASE id \notin RadarSource
    BY <2>1, <2>2, <2>3, <2>4
  <2>5. CASE id \in RadarSource /\ ~There(log, id)
    <3>1. Manifest.rows[id].at = "none"
      BY <2>1, <2>5 DEF There
    <3> QED  BY <3>1 DEF Succeeds
  <2>6. CASE id \in RadarSource /\ There(log, id)
    <3> DEFINE e == log.rows[id].of
    <3>1. log'.rows[id] = log.rows[id] /\ There(log', id)
      BY <2>6 DEF There
    <3>2. e \in RadarEntry /\ e \in Records /\ There(log, e) /\ IsLive(log, id)
      BY <2>6 DEF LogSafe, Typed, RowOK, There, Records
    <3>3. RowOK(e, log.rows[e]) /\ Succeeds(log.rows[e], log'.rows[e]) /\ RowOK(id, log.rows[id])
      BY <3>2 DEF LogSafe, Typed
    <3>4. CASE IsLive(log, e)
      <4>1. Manifest.rows[id] = log.rows[id] /\ log.rows[id].at = "live"
        BY <2>1, <3>2, <3>4 DEF IsLive
      <4>2. Manifest'.rows[id].at # "none"
        <5>1. [log.rows[id] EXCEPT !.at = "removed"].at = "removed"
          BY <3>3 DEF RowOK
        <5> QED  BY <2>2, <3>1, <4>1, <5>1
      <4> QED  BY <4>1, <4>2 DEF Succeeds
    <3>5. CASE ~IsLive(log, e)
      <4>1. log.rows[e].at = "removed"
        BY <3>2, <3>3, <3>5 DEF There, IsLive, RowOK
      <4>2. ~IsLive(log', e)
        BY <3>3, <4>1 DEF Succeeds, IsLive
      <4>3. Manifest.rows[id] = [log.rows[id] EXCEPT !.at = "removed"]
            /\ Manifest'.rows[id] = Manifest.rows[id]
        BY <2>1, <2>2, <2>6, <3>1, <3>5, <4>2
      <4>4. Manifest.rows[id].at = "removed"
        BY <3>3, <4>3 DEF RowOK
      <4> QED  BY <4>3, <4>4 DEF Succeeds
    <3> QED  BY <3>4, <3>5
  <2> QED  BY <2>4, <2>5, <2>6
<1>3. ASSUME NEW c, Later(c, Manifest) PROVE Later(c, Manifest')
  <2>1. \A id \in Records : Succeeds(c.rows[id], Manifest.rows[id])
    BY <1>3 DEF Later
  <2>2. \A id \in Records : Succeeds(c.rows[id], Manifest'.rows[id])
    BY <1>2, <2>1 DEF Succeeds
  <2> QED  BY <1>1, <1>3, <2>2 DEF Later
<1> QED  BY <1>3

(* A row, column by column. *)
LEMMA RowParts ==
  ASSUME NEW at, NEW status, NEW doneAt, NEW text, NEW touched, NEW of,
         NEW r, r = [at |-> at, status |-> status, doneAt |-> doneAt, text |-> text,
                     touched |-> touched, of |-> of]
  PROVE  /\ r.at = at /\ r.status = status /\ r.doneAt = doneAt /\ r.text = text
         /\ r.touched = touched /\ r.of = of
         /\ r = [at |-> r.at, status |-> r.status, doneAt |-> r.doneAt, text |-> r.text,
                 touched |-> r.touched, of |-> r.of]
<1>1. /\ r.at = at /\ r.status = status /\ r.doneAt = doneAt /\ r.text = text
      /\ r.touched = touched /\ r.of = of
  OBVIOUS
<1> QED  BY <1>1

LEMMA NewRowIs ==
  ASSUME NEW status, NEW of
  PROVE  NewRow(status, of) = [at |-> "live", status |-> status, doneAt |-> 0, text |-> 0,
                               touched |-> 0, of |-> of]
BY DEF NewRow

LEMMA RadarStart == RadarInit => RadarSafe
<1> SUFFICES ASSUME RadarInit PROVE RadarSafe
  OBVIOUS
<1>1. PICK old \in BOOLEAN :
        log = [rows |-> [id \in Records |->
                 IF ~old \/ id \in RadarSource THEN NoRecord
                 ELSE NewRow(CASE id \in RadarEntry -> "posted" [] id \in RadarCandidate -> "new"
                              [] id \in RadarTask -> "open" [] OTHER -> "active", "")],
               versions |-> 0]
  BY DEF RadarInit
<1>2. ASSUME NEW id \in Records
      PROVE  \/ log.rows[id] = NoRecord
             \/ id \notin RadarSource /\ \E status :
                  log.rows[id] = NewRow(status, "") /\ (id \in RadarEntry => status = "posted")
  <2>1. CASE ~old \/ id \in RadarSource
    BY <1>1, <2>1
  <2>2. CASE ~(~old \/ id \in RadarSource)
    <3> DEFINE status == CASE id \in RadarEntry -> "posted" [] id \in RadarCandidate -> "new"
                              [] id \in RadarTask -> "open" [] OTHER -> "active"
    <3>1. log.rows[id] = NewRow(status, "")
      BY <1>1, <2>2
    <3>2. id \in RadarEntry => status = "posted"
      BY RadarAssumption DEF RadarAssumption
    <3> QED  BY <2>2, <3>1, <3>2
  <2> QED  BY <2>1, <2>2
<1>3. ASSUME NEW id \in Records PROVE RowOK(id, log.rows[id])
  <2>1. CASE log.rows[id] = NoRecord
    <3>1. NoRecord.at = "none" /\ NoRecord.of = "" /\ NoRecord.doneAt = 0
          /\ NoRecord = [at |-> NoRecord.at, status |-> NoRecord.status,
               doneAt |-> NoRecord.doneAt, text |-> NoRecord.text,
               touched |-> NoRecord.touched, of |-> NoRecord.of]
      BY DEF NoRecord
    <3> QED  BY <2>1, <3>1 DEF RowOK
  <2>2. ASSUME NEW status, log.rows[id] = NewRow(status, ""), id \notin RadarSource,
               id \in RadarEntry => status = "posted"
        PROVE  RowOK(id, log.rows[id])
    <3> DEFINE r == log.rows[id]
    <3>1. r = [at |-> "live", status |-> status, doneAt |-> 0, text |-> 0, touched |-> 0, of |-> ""]
      BY <2>2, NewRowIs
    <3> HIDE DEF r
    <3>2. /\ r.at = "live" /\ r.status = status /\ r.doneAt = 0 /\ r.text = 0
          /\ r.touched = 0 /\ r.of = ""
          /\ r = [at |-> r.at, status |-> r.status, doneAt |-> r.doneAt, text |-> r.text,
                  touched |-> r.touched, of |-> r.of]
      BY <3>1, RowParts
    <3>3. RowOK(id, r)
      BY <2>2, <3>2 DEF RowOK
    <3> QED  BY <3>3 DEF r
  <2> QED  BY <1>2, <2>1, <2>2
<1>4. LogSafe
  <2>1. log = [rows |-> [id \in Records |-> log.rows[id]], versions |-> log.versions]
    <3> DEFINE F == [id \in Records |->
                 IF ~old \/ id \in RadarSource THEN NoRecord
                 ELSE NewRow(CASE id \in RadarEntry -> "posted" [] id \in RadarCandidate -> "new"
                              [] id \in RadarTask -> "open" [] OTHER -> "active", "")]
    <3>a. log = [rows |-> F, versions |-> 0]
      BY <1>1
    <3>b. F = [id \in Records |-> F[id]]
      OBVIOUS
    <3> HIDE DEF F
    <3>1. log = [rows |-> F, versions |-> 0] /\ F = [id \in Records |-> F[id]]
      BY <3>a, <3>b
    <3>2. log.rows = F /\ log.versions = 0
      BY <3>1
    <3> QED  BY <3>1, <3>2
  <2>2. \A id \in RadarSource : ~There(log, id)
    <3>1. NoRecord.at = "none"
      BY DEF NoRecord
    <3> QED  BY <1>2, <3>1 DEF There, Records
  <2> QED  BY <1>3, <2>1, <2>2 DEF LogSafe, Typed
<1>5. \A p \in Panel : panel[p] = [phase |-> "idle", reply |-> NoRadar, radar |-> NoRadar]
  BY DEF RadarInit, Closed
<1>6. panel = [p \in Panel |-> [phase |-> panel[p].phase, reply |-> panel[p].reply,
                              radar |-> panel[p].radar]]
  BY <1>5 DEF RadarInit, Closed
<1>7. \A p \in Panel : panel[p].reply.since = Missing
  BY <1>5 DEF NoRadar
<1> QED  BY <1>4, <1>6, <1>7 DEF RadarInit, RadarSafe

(* A record has changed, and what the readers hold has not. *)
LEMMA RecordsMove ==
  ASSUME RadarSafe, LogSafe', UNCHANGED <<reviewed, panel>>,
         \A id \in Records : Succeeds(log.rows[id], log'.rows[id]),
         \A id \in RadarSource : There(log, id) => log'.rows[id] = log.rows[id]
  PROVE  RadarSafe'
<1>1. LogSafe
  BY DEF RadarSafe
<1>2. \A c : Later(c, Manifest) => Later(c, Manifest')
  BY <1>1, ManifestMoves
<1> QED  BY <1>2 DEF RadarSafe

(* One row is written. *)
LEMMA RowChanges ==
  ASSUME RadarSafe, NEW id \in Records, NEW row, Change(id, row),
         RowOK(id, row), Succeeds(log.rows[id], row),
         id \in RadarSource => ~There(log, id) /\ row.at = "live" /\ There(log, row.of)
  PROVE  RadarSafe'
<1>1. /\ log = [rows |-> [k \in Records |-> log.rows[k]], versions |-> log.versions]
      /\ log' = [log EXCEPT !.rows[id] = row] /\ UNCHANGED <<reviewed, panel>>
  BY DEF RadarSafe, LogSafe, Change
<1>2. log' = [rows |-> [k \in Records |-> IF k = id THEN row ELSE log.rows[k]],
              versions |-> log.versions]
  BY <1>1
<1>3. \A k \in Records : log'.rows[k] = IF k = id THEN row ELSE log.rows[k]
  BY <1>2
<1>4. \A k \in Records : RowOK(k, log.rows[k])
  BY DEF RadarSafe, LogSafe, Typed
<1>5. \A k \in Records : RowOK(k, log'.rows[k]) /\ Succeeds(log.rows[k], log'.rows[k])
  BY <1>3, <1>4 DEF Succeeds
<1>6. ASSUME NEW k \in RadarSource, There(log', k)
      PROVE  IsLive(log', k) /\ There(log', log'.rows[k].of)
  <2>1. k \in Records
    BY DEF Records
  <2>2. CASE k = id
    <3>1. row.of \in Records
      BY <1>3, <1>6, <2>1, <2>2 DEF RowOK, There, Records
    <3>2. There(log', row.of)
      BY <1>5, <2>2, <3>1 DEF Succeeds, There
    <3> QED  BY <1>3, <2>1, <2>2, <3>2 DEF IsLive
  <2>3. CASE k # id
    <3>1. log'.rows[k] = log.rows[k] /\ There(log, k)
      BY <1>3, <1>6, <2>1, <2>3 DEF There
    <3>2. IsLive(log, k) /\ There(log, log.rows[k].of) /\ log.rows[k].of \in Records
      BY <1>4, <2>1, <3>1 DEF RadarSafe, LogSafe, RowOK, There, Records
    <3> QED  BY <1>5, <3>1, <3>2 DEF Succeeds, There, IsLive
  <2> QED  BY <2>2, <2>3
<1>7. log' = [rows |-> [k \in Records |-> log'.rows[k]], versions |-> log'.versions]
  BY <1>2
<1>8. LogSafe'
  BY <1>5, <1>6, <1>7 DEF LogSafe, Typed
<1>9. \A k \in RadarSource : There(log, k) => log'.rows[k] = log.rows[k]
  BY <1>3 DEF Records
<1> QED  BY <1>1, <1>5, <1>8, <1>9, RecordsMove

(* A new record, and the writes to one that is there. *)
LEMMA Adding ==
  ASSUME RadarSafe, NEW id \in Records, NEW status, NEW of, Add(id, status, of),
         id \in RadarEntry => status = "posted" /\ of = "",
         id \in RadarSource => status = "stored" /\ of \in RadarEntry /\ There(log, of),
         id \in RadarCandidate \union RadarTask => of = ""
  PROVE  RadarSafe'
<1> DEFINE r == NewRow(status, of)
<1>a. r = [at |-> "live", status |-> status, doneAt |-> 0, text |-> 0, touched |-> 0, of |-> of]
  BY NewRowIs
<1> HIDE DEF r
<1>1. /\ r.at = "live" /\ r.status = status /\ r.doneAt = 0 /\ r.text = 0
      /\ r.touched = 0 /\ r.of = of
      /\ r = [at |-> r.at, status |-> r.status, doneAt |-> r.doneAt, text |-> r.text,
              touched |-> r.touched, of |-> r.of]
  BY <1>a, RowParts
<1>2. RowOK(id, r)
  BY <1>1, RadarAssumption DEF RowOK, RadarAssumption
<1>3. Change(id, r) /\ ~There(log, id)
  BY DEF Add, r
<1>4. Succeeds(log.rows[id], r)
  BY <1>3 DEF Succeeds, There
<1> QED  BY <1>1, <1>2, <1>3, <1>4, RowChanges

LEMMA Editing ==
  ASSUME RadarSafe, NEW id \in Records \ RadarSource, NEW row, Edit(id, row),
         NEW r, r = log.rows[id],
         \E at, status, doneAt, text, touched :
           /\ row = [at |-> at, status |-> status, doneAt |-> doneAt, text |-> text,
                     touched |-> touched, of |-> r.of]
           /\ at \in {"live", "removed"}
           /\ id \in RadarEntry => status = r.status /\ doneAt = r.doneAt /\ touched = r.touched
           /\ id \in RadarCandidate => at = "live" /\ doneAt = r.doneAt /\ text = r.text
           /\ id \in RadarDecision => doneAt = r.doneAt
  PROVE  RadarSafe'
<1>1. Change(id, row) /\ r.at = "live" /\ RowOK(id, r)
  BY DEF Edit, IsLive, RadarSafe, LogSafe, Typed
<1>a. PICK at, status, doneAt, text, touched :
        /\ row = [at |-> at, status |-> status, doneAt |-> doneAt, text |-> text,
                  touched |-> touched, of |-> r.of]
        /\ at \in {"live", "removed"}
        /\ id \in RadarEntry => status = r.status /\ doneAt = r.doneAt /\ touched = r.touched
        /\ id \in RadarCandidate => at = "live" /\ doneAt = r.doneAt /\ text = r.text
        /\ id \in RadarDecision => doneAt = r.doneAt
  OBVIOUS
<1>b. /\ row.at = at /\ row.status = status /\ row.doneAt = doneAt /\ row.text = text
      /\ row.touched = touched /\ row.of = r.of
      /\ row = [at |-> row.at, status |-> row.status, doneAt |-> row.doneAt, text |-> row.text,
                touched |-> row.touched, of |-> row.of]
  BY <1>a, RowParts
<1>2. RowOK(id, row) /\ row.at # "none"
  BY <1>1, <1>a, <1>b DEF RowOK
<1>3. Succeeds(r, row)
  BY <1>1, <1>2 DEF Succeeds
<1> QED  BY <1>1, <1>2, <1>3, RowChanges

(* The writes to a row, column by column. *)
LEMMA OneWrite ==
  ASSUME NEW at, NEW status, NEW doneAt, NEW text, NEW touched, NEW of, NEW x,
         NEW r, r = [at |-> at, status |-> status, doneAt |-> doneAt, text |-> text,
                     touched |-> touched, of |-> of]
  PROVE  /\ [r EXCEPT !.at = x] = [at |-> x, status |-> status, doneAt |-> doneAt,
              text |-> text, touched |-> touched, of |-> of]
         /\ [r EXCEPT !.text = x] = [at |-> at, status |-> status, doneAt |-> doneAt,
              text |-> x, touched |-> touched, of |-> of]
         /\ [r EXCEPT !.status = x] = [at |-> at, status |-> x, doneAt |-> doneAt,
              text |-> text, touched |-> touched, of |-> of]
         /\ [r EXCEPT !.of = x] = [at |-> at, status |-> status, doneAt |-> doneAt,
              text |-> text, touched |-> touched, of |-> x]
         /\ [r EXCEPT !.doneAt = x] = [at |-> at, status |-> status, doneAt |-> x,
              text |-> text, touched |-> touched, of |-> of]
         /\ [r EXCEPT !.touched = x] = [at |-> at, status |-> status, doneAt |-> doneAt,
              text |-> text, touched |-> x, of |-> of]
         /\ [r EXCEPT !.touched = @ + 1] = [at |-> at, status |-> status, doneAt |-> doneAt,
              text |-> text, touched |-> touched + 1, of |-> of]
         /\ [r EXCEPT !.text = @ + 1] = [at |-> at, status |-> status, doneAt |-> doneAt,
              text |-> text + 1, touched |-> touched, of |-> of]
OBVIOUS

LEMMA RowWrites ==
  ASSUME NEW id, NEW r, RowOK(id, r)
  PROVE  /\ [r EXCEPT !.text = @ + 1] =
               [at |-> r.at, status |-> r.status, doneAt |-> r.doneAt, text |-> r.text + 1,
               touched |-> r.touched, of |-> r.of]
         /\ [r EXCEPT !.at = "removed"] =
               [at |-> "removed", status |-> r.status, doneAt |-> r.doneAt, text |-> r.text,
               touched |-> r.touched, of |-> r.of]
         /\ [r EXCEPT !.touched = @ + 1] =
               [at |-> r.at, status |-> r.status, doneAt |-> r.doneAt, text |-> r.text,
               touched |-> r.touched + 1, of |-> r.of]
         /\ [r EXCEPT !.text = @ + 1, !.touched = @ + 1] =
               [at |-> r.at, status |-> r.status, doneAt |-> r.doneAt, text |-> r.text + 1,
               touched |-> r.touched + 1, of |-> r.of]
         /\ [r EXCEPT !.at = "removed", !.touched = @ + 1] =
               [at |-> "removed", status |-> r.status, doneAt |-> r.doneAt, text |-> r.text,
               touched |-> r.touched + 1, of |-> r.of]
<1>1. r = [at |-> r.at, status |-> r.status, doneAt |-> r.doneAt, text |-> r.text,
           touched |-> r.touched, of |-> r.of]
  BY DEF RowOK
<1>2. [r EXCEPT !.text = @ + 1] =
    [at |-> r.at, status |-> r.status, doneAt |-> r.doneAt, text |-> r.text + 1,
    touched |-> r.touched, of |-> r.of]
  BY <1>1, OneWrite
<1>3. [r EXCEPT !.at = "removed"] =
    [at |-> "removed", status |-> r.status, doneAt |-> r.doneAt, text |-> r.text,
    touched |-> r.touched, of |-> r.of]
  BY <1>1, OneWrite
<1>4. [r EXCEPT !.touched = @ + 1] =
    [at |-> r.at, status |-> r.status, doneAt |-> r.doneAt, text |-> r.text,
    touched |-> r.touched + 1, of |-> r.of]
  BY <1>1, OneWrite
<1>5. [r EXCEPT !.text = @ + 1, !.touched = @ + 1] =
    [at |-> r.at, status |-> r.status, doneAt |-> r.doneAt, text |-> r.text + 1,
    touched |-> r.touched + 1, of |-> r.of]
  <2>1. PICK r1 : r1 = [r EXCEPT !.text = @ + 1]
    OBVIOUS
  <2>4. r1 = [at |-> r.at, status |-> r.status, doneAt |-> r.doneAt, text |-> r.text + 1, touched |-> r.touched, of |-> r.of]
    BY <1>1, <2>1, OneWrite
  <2>2. PICK r2 : r2 = [r1 EXCEPT !.touched = @ + 1]
    OBVIOUS
  <2>5. r2 = [at |-> r.at, status |-> r.status, doneAt |-> r.doneAt, text |-> r.text + 1, touched |-> r.touched + 1, of |-> r.of]
    BY <1>1, <2>2, <2>4, OneWrite
  <2>7. [r EXCEPT !.text = @ + 1, !.touched = @ + 1] = r2
    BY <2>1, <2>2
  <2> QED  BY <2>5, <2>7
<1>6. [r EXCEPT !.at = "removed", !.touched = @ + 1] =
    [at |-> "removed", status |-> r.status, doneAt |-> r.doneAt, text |-> r.text,
    touched |-> r.touched + 1, of |-> r.of]
  <2>1. PICK r1 : r1 = [r EXCEPT !.at = "removed"]
    OBVIOUS
  <2>4. r1 = [at |-> "removed", status |-> r.status, doneAt |-> r.doneAt, text |-> r.text, touched |-> r.touched, of |-> r.of]
    BY <1>1, <2>1, OneWrite
  <2>2. PICK r2 : r2 = [r1 EXCEPT !.touched = @ + 1]
    OBVIOUS
  <2>5. r2 = [at |-> "removed", status |-> r.status, doneAt |-> r.doneAt, text |-> r.text, touched |-> r.touched + 1, of |-> r.of]
    BY <1>1, <2>2, <2>4, OneWrite
  <2>7. [r EXCEPT !.at = "removed", !.touched = @ + 1] = r2
    BY <2>1, <2>2
  <2> QED  BY <2>5, <2>7
<1> QED  BY <1>2, <1>3, <1>4, <1>5, <1>6

LEMMA EntryKeeps ==
  ASSUME RadarSafe, NEW e \in RadarEntry, ChangeEntry(e) \/ \E s \in RadarSource : AddSource(s, e)
  PROVE  RadarSafe'
<1> DEFINE r == log.rows[e]
<1>1. e \in Records \ RadarSource /\ e \notin RadarCandidate \union RadarTask \union RadarDecision
  BY RadarAssumption DEF RadarAssumption, Records
<1>2. RowOK(e, r)
  BY <1>1 DEF RadarSafe, LogSafe, Typed
<1>3. CASE Add(e, "posted", "")
  BY <1>1, <1>3, Adding
<1>4. CASE Edit(e, [r EXCEPT !.text = @ + 1]) \/ Edit(e, [r EXCEPT !.at = "removed"])
  <2>1. r.at = "live"
    BY <1>4 DEF Edit, IsLive
  <2>2. CASE Edit(e, [r EXCEPT !.text = @ + 1])
    <3> DEFINE row == [r EXCEPT !.text = @ + 1]
    <3>1. row = [at |-> r.at, status |-> r.status, doneAt |-> r.doneAt, text |-> r.text + 1,
                 touched |-> r.touched, of |-> r.of]
      BY <1>2, RowWrites
    <3>2. Edit(e, row)
      BY <2>2
    <3> HIDE DEF row, r
    <3> QED  BY <1>1, <2>1, <3>1, <3>2, Editing DEF r
  <2>3. CASE Edit(e, [r EXCEPT !.at = "removed"])
    <3> DEFINE row == [r EXCEPT !.at = "removed"]
    <3>1. row = [at |-> "removed", status |-> r.status, doneAt |-> r.doneAt, text |-> r.text,
                 touched |-> r.touched, of |-> r.of]
      BY <1>2, RowWrites
    <3>2. Edit(e, row)
      BY <2>3
    <3> HIDE DEF row, r
    <3> QED  BY <1>1, <3>1, <3>2, Editing DEF r
  <2> QED  BY <1>4, <2>2, <2>3
<1>5. ASSUME NEW s \in RadarSource, AddSource(s, e)
      PROVE  RadarSafe'
  <2>1. s \in Records /\ s \notin RadarEntry \union RadarCandidate \union RadarTask
    BY RadarAssumption DEF RadarAssumption, Records
  <2>2. Add(s, "stored", e) /\ There(log, e)
    BY <1>5 DEF AddSource, IsLive, There
  <2> QED  BY <2>1, <2>2, Adding
<1> QED  BY <1>3, <1>4, <1>5 DEF ChangeEntry, RecordRow

LEMMA CandidateKeeps ==
  ASSUME RadarSafe, NEW c \in RadarCandidate, ChangeCandidate(c)
  PROVE  RadarSafe'
<1> DEFINE r == log.rows[c]
<1>1. c \in Records \ RadarSource /\ c \notin RadarEntry \union RadarTask \union RadarDecision
  BY RadarAssumption DEF RadarAssumption, Records
<1>2. RowOK(c, r)
  BY <1>1 DEF RadarSafe, LogSafe, Typed
<1>3. CASE Add(c, "new", "")
  BY <1>1, <1>3, Adding
<1>4. ASSUME NEW status, Edit(c, [r EXCEPT !.status = status, !.touched = @ + 1])
      PROVE  RadarSafe'
  <2> DEFINE row == [r EXCEPT !.status = status, !.touched = @ + 1]
  <2>1. row = [at |-> r.at, status |-> status, doneAt |-> r.doneAt, text |-> r.text,
               touched |-> r.touched + 1, of |-> r.of]
    <3>0. r = [at |-> r.at, status |-> r.status, doneAt |-> r.doneAt, text |-> r.text,
            touched |-> r.touched, of |-> r.of]
      BY <1>2 DEF RowOK
    <3>1. PICK r1 : r1 = [r EXCEPT !.status = status]
      OBVIOUS
    <3>2. r1 = [at |-> r.at, status |-> status, doneAt |-> r.doneAt, text |-> r.text,
            touched |-> r.touched, of |-> r.of]
      BY <3>0, <3>1, OneWrite
    <3>3. PICK r2 : r2 = [r1 EXCEPT !.touched = @ + 1]
      OBVIOUS
    <3>4. r2 = [at |-> r.at, status |-> status, doneAt |-> r.doneAt, text |-> r.text,
            touched |-> r.touched + 1, of |-> r.of]
      BY <3>2, <3>3, OneWrite
    <3>5. [r EXCEPT !.status = status, !.touched = @ + 1] = r2
      BY <3>1, <3>3
    <3> QED  BY <3>4, <3>5
  <2>2. Edit(c, row) /\ r.at = "live"
    BY <1>4 DEF Edit, IsLive
  <2> HIDE DEF row, r
  <2> QED  BY <1>1, <2>1, <2>2, Editing DEF r
<1> QED  BY <1>3, <1>4 DEF ChangeCandidate, RecordRow

LEMMA TaskKeeps ==
  ASSUME RadarSafe, NEW t \in RadarTask, ChangeTask(t)
  PROVE  RadarSafe'
<1> DEFINE r == log.rows[t]
<1>1. t \in Records \ RadarSource /\ t \notin RadarEntry \union RadarCandidate \union RadarDecision
  BY RadarAssumption DEF RadarAssumption, Records
<1>2. RowOK(t, r)
  BY <1>1 DEF RadarSafe, LogSafe, Typed
<1>5. CASE Add(t, "open", "")
  BY <1>1, <1>5, Adding
<1>6. CASE Edit(t, [r EXCEPT !.status = "done", !.touched = @ + 1, !.doneAt = recordChanges + 1])
  <2> DEFINE row == [r EXCEPT !.status = "done", !.touched = @ + 1, !.doneAt = recordChanges + 1]
  <2>1. row = [at |-> r.at, status |-> "done", doneAt |-> recordChanges + 1, text |-> r.text,
               touched |-> r.touched + 1, of |-> r.of]
    <3>0. r = [at |-> r.at, status |-> r.status, doneAt |-> r.doneAt, text |-> r.text,
            touched |-> r.touched, of |-> r.of]
      BY <1>2 DEF RowOK
    <3>1. PICK r1 : r1 = [r EXCEPT !.status = "done"]
      OBVIOUS
    <3>2. r1 = [at |-> r.at, status |-> "done", doneAt |-> r.doneAt, text |-> r.text,
            touched |-> r.touched, of |-> r.of]
      BY <3>0, <3>1, OneWrite
    <3>3. PICK r2 : r2 = [r1 EXCEPT !.touched = @ + 1]
      OBVIOUS
    <3>4. r2 = [at |-> r.at, status |-> "done", doneAt |-> r.doneAt, text |-> r.text,
            touched |-> r.touched + 1, of |-> r.of]
      BY <3>2, <3>3, OneWrite
    <3>5. PICK r3 : r3 = [r2 EXCEPT !.doneAt = recordChanges + 1]
      OBVIOUS
    <3>6. r3 = [at |-> r.at, status |-> "done", doneAt |-> recordChanges + 1, text |-> r.text,
            touched |-> r.touched + 1, of |-> r.of]
      BY <3>4, <3>5, OneWrite
    <3>7. [r EXCEPT !.status = "done", !.touched = @ + 1, !.doneAt = recordChanges + 1] = r3
      BY <3>1, <3>3, <3>5
    <3> QED  BY <3>6, <3>7
  <2>2. Edit(t, row) /\ r.at = "live"
    BY <1>6 DEF Edit, IsLive
  <2> HIDE DEF row, r
  <2> QED  BY <1>1, <2>1, <2>2, Editing DEF r
<1>7. CASE Edit(t, [r EXCEPT !.status = "open", !.touched = @ + 1, !.doneAt = 0])
  <2> DEFINE row == [r EXCEPT !.status = "open", !.touched = @ + 1, !.doneAt = 0]
  <2>1. row = [at |-> r.at, status |-> "open", doneAt |-> 0, text |-> r.text,
               touched |-> r.touched + 1, of |-> r.of]
    <3>0. r = [at |-> r.at, status |-> r.status, doneAt |-> r.doneAt, text |-> r.text,
            touched |-> r.touched, of |-> r.of]
      BY <1>2 DEF RowOK
    <3>1. PICK r1 : r1 = [r EXCEPT !.status = "open"]
      OBVIOUS
    <3>2. r1 = [at |-> r.at, status |-> "open", doneAt |-> r.doneAt, text |-> r.text,
            touched |-> r.touched, of |-> r.of]
      BY <3>0, <3>1, OneWrite
    <3>3. PICK r2 : r2 = [r1 EXCEPT !.touched = @ + 1]
      OBVIOUS
    <3>4. r2 = [at |-> r.at, status |-> "open", doneAt |-> r.doneAt, text |-> r.text,
            touched |-> r.touched + 1, of |-> r.of]
      BY <3>2, <3>3, OneWrite
    <3>5. PICK r3 : r3 = [r2 EXCEPT !.doneAt = 0]
      OBVIOUS
    <3>6. r3 = [at |-> r.at, status |-> "open", doneAt |-> 0, text |-> r.text,
            touched |-> r.touched + 1, of |-> r.of]
      BY <3>4, <3>5, OneWrite
    <3>7. [r EXCEPT !.status = "open", !.touched = @ + 1, !.doneAt = 0] = r3
      BY <3>1, <3>3, <3>5
    <3> QED  BY <3>6, <3>7
  <2>2. Edit(t, row) /\ r.at = "live"
    BY <1>7 DEF Edit, IsLive
  <2> HIDE DEF row, r
  <2> QED  BY <1>1, <2>1, <2>2, Editing DEF r
<1>8. CASE Edit(t, [r EXCEPT !.text = @ + 1, !.touched = @ + 1])
  <2> DEFINE row == [r EXCEPT !.text = @ + 1, !.touched = @ + 1]
  <2>1. row = [at |-> r.at, status |-> r.status, doneAt |-> r.doneAt, text |-> r.text + 1,
               touched |-> r.touched + 1, of |-> r.of]
    BY <1>2, RowWrites
  <2>2. Edit(t, row) /\ r.at = "live"
    BY <1>8 DEF Edit, IsLive
  <2> HIDE DEF row, r
  <2> QED  BY <1>1, <2>1, <2>2, Editing DEF r
<1>9. CASE Edit(t, [r EXCEPT !.touched = @ + 1])
  <2> DEFINE row == [r EXCEPT !.touched = @ + 1]
  <2>1. row = [at |-> r.at, status |-> r.status, doneAt |-> r.doneAt, text |-> r.text,
               touched |-> r.touched + 1, of |-> r.of]
    BY <1>2, RowWrites
  <2>2. Edit(t, row) /\ r.at = "live"
    BY <1>9 DEF Edit, IsLive
  <2> HIDE DEF row, r
  <2> QED  BY <1>1, <2>1, <2>2, Editing DEF r
<1>10. CASE Edit(t, [r EXCEPT !.at = "removed", !.touched = @ + 1])
  <2> DEFINE row == [r EXCEPT !.at = "removed", !.touched = @ + 1]
  <2>1. row = [at |-> "removed", status |-> r.status, doneAt |-> r.doneAt, text |-> r.text,
               touched |-> r.touched + 1, of |-> r.of]
    BY <1>2, RowWrites
  <2>2. Edit(t, row) /\ r.at = "live"
    BY <1>10 DEF Edit, IsLive
  <2> HIDE DEF row, r
  <2> QED  BY <1>1, <2>1, <2>2, Editing DEF r
<1> QED  BY <1>5, <1>6, <1>7, <1>8, <1>9, <1>10 DEF ChangeTask, RecordRow

LEMMA DecisionKeeps ==
  ASSUME RadarSafe, NEW d \in RadarDecision, ChangeDecision(d)
  PROVE  RadarSafe'
<1> DEFINE r == log.rows[d]
<1>1. d \in Records \ RadarSource /\ d \notin RadarEntry \union RadarCandidate \union RadarTask
  BY RadarAssumption DEF RadarAssumption, Records
<1>2. RowOK(d, r)
  BY <1>1 DEF RadarSafe, LogSafe, Typed
<1>5. CASE Add(d, "active", "")
  BY <1>1, <1>5, Adding
<1>6. CASE Edit(d, [r EXCEPT !.text = @ + 1, !.touched = @ + 1])
  <2> DEFINE row == [r EXCEPT !.text = @ + 1, !.touched = @ + 1]
  <2>1. row = [at |-> r.at, status |-> r.status, doneAt |-> r.doneAt, text |-> r.text + 1,
               touched |-> r.touched + 1, of |-> r.of]
    BY <1>2, RowWrites
  <2>2. Edit(d, row) /\ r.at = "live"
    BY <1>6 DEF Edit, IsLive
  <2> HIDE DEF row, r
  <2> QED  BY <1>1, <2>1, <2>2, Editing DEF r
<1>7. CASE Edit(d, [r EXCEPT !.status = "revoked", !.touched = @ + 1])
  <2> DEFINE row == [r EXCEPT !.status = "revoked", !.touched = @ + 1]
  <2>1. row = [at |-> r.at, status |-> "revoked", doneAt |-> r.doneAt, text |-> r.text,
               touched |-> r.touched + 1, of |-> r.of]
    <3>0. r = [at |-> r.at, status |-> r.status, doneAt |-> r.doneAt, text |-> r.text,
            touched |-> r.touched, of |-> r.of]
      BY <1>2 DEF RowOK
    <3>1. PICK r1 : r1 = [r EXCEPT !.status = "revoked"]
      OBVIOUS
    <3>2. r1 = [at |-> r.at, status |-> "revoked", doneAt |-> r.doneAt, text |-> r.text,
            touched |-> r.touched, of |-> r.of]
      BY <3>0, <3>1, OneWrite
    <3>3. PICK r2 : r2 = [r1 EXCEPT !.touched = @ + 1]
      OBVIOUS
    <3>4. r2 = [at |-> r.at, status |-> "revoked", doneAt |-> r.doneAt, text |-> r.text,
            touched |-> r.touched + 1, of |-> r.of]
      BY <3>2, <3>3, OneWrite
    <3>5. [r EXCEPT !.status = "revoked", !.touched = @ + 1] = r2
      BY <3>1, <3>3
    <3> QED  BY <3>4, <3>5
  <2>2. Edit(d, row) /\ r.at = "live"
    BY <1>7 DEF Edit, IsLive
  <2> HIDE DEF row, r
  <2> QED  BY <1>1, <2>1, <2>2, Editing DEF r
<1>8. CASE Edit(d, [r EXCEPT !.at = "removed", !.touched = @ + 1])
  <2> DEFINE row == [r EXCEPT !.at = "removed", !.touched = @ + 1]
  <2>1. row = [at |-> "removed", status |-> r.status, doneAt |-> r.doneAt, text |-> r.text,
               touched |-> r.touched + 1, of |-> r.of]
    BY <1>2, RowWrites
  <2>2. Edit(d, row) /\ r.at = "live"
    BY <1>8 DEF Edit, IsLive
  <2> HIDE DEF row, r
  <2> QED  BY <1>1, <2>1, <2>2, Editing DEF r
<1> QED  BY <1>5, <1>6, <1>7, <1>8 DEF ChangeDecision, RecordRow

LEMMA SupersedeKeeps ==
  ASSUME RadarSafe, NEW d \in RadarDecision, NEW prior \in RadarDecision, Supersede(d, prior)
  PROVE  RadarSafe'
<1> DEFINE new == NewRow("active", prior)
<1> DEFINE r == log.rows[prior]
<1> DEFINE old == [r EXCEPT !.status = "superseded", !.of = d, !.touched = @ + 1]
<1>1. /\ d \in Records /\ d \notin RadarSource \union RadarEntry \union RadarCandidate \union RadarTask
      /\ prior \in Records
      /\ prior \notin RadarSource \union RadarEntry \union RadarCandidate \union RadarTask
  BY RadarAssumption DEF RadarAssumption, Records
<1>2. d # prior /\ log.rows[d].at = "none" /\ r.at = "live"
  BY DEF Supersede, There, IsLive
<1>3. /\ log = [rows |-> [k \in Records |-> log.rows[k]], versions |-> log.versions]
      /\ RowOK(d, log.rows[d]) /\ RowOK(prior, r)
  BY <1>1 DEF RadarSafe, LogSafe, Typed
<1>a. new = [at |-> "live", status |-> "active", doneAt |-> 0, text |-> 0, touched |-> 0, of |-> prior]
  BY NewRowIs
<1>b. old = [at |-> r.at, status |-> "superseded", doneAt |-> r.doneAt, text |-> r.text,
             touched |-> r.touched + 1, of |-> d]
  <2>0. r = [at |-> r.at, status |-> r.status, doneAt |-> r.doneAt, text |-> r.text,
          touched |-> r.touched, of |-> r.of]
    BY <1>3 DEF RowOK
  <2>1. PICK r1 : r1 = [r EXCEPT !.status = "superseded"]
    OBVIOUS
  <2>2. r1 = [at |-> r.at, status |-> "superseded", doneAt |-> r.doneAt, text |-> r.text,
          touched |-> r.touched, of |-> r.of]
    BY <2>0, <2>1, OneWrite
  <2>3. PICK r2 : r2 = [r1 EXCEPT !.of = d]
    OBVIOUS
  <2>4. r2 = [at |-> r.at, status |-> "superseded", doneAt |-> r.doneAt, text |-> r.text,
          touched |-> r.touched, of |-> d]
    BY <2>2, <2>3, OneWrite
  <2>5. PICK r3 : r3 = [r2 EXCEPT !.touched = @ + 1]
    OBVIOUS
  <2>6. r3 = [at |-> r.at, status |-> "superseded", doneAt |-> r.doneAt, text |-> r.text,
          touched |-> r.touched + 1, of |-> d]
    BY <2>4, <2>5, OneWrite
  <2>7. [r EXCEPT !.status = "superseded", !.of = d, !.touched = @ + 1] = r3
    BY <2>1, <2>3, <2>5
  <2> QED  BY <2>6, <2>7
<1>4. RowOK(d, new) /\ new.at = "live"
  <2> HIDE DEF new
  <2>1. /\ new.at = "live" /\ new.doneAt = 0
        /\ new = [at |-> new.at, status |-> new.status, doneAt |-> new.doneAt, text |-> new.text,
                   touched |-> new.touched, of |-> new.of]
    BY <1>a, RowParts
  <2> QED  BY <1>1, <2>1 DEF RowOK
<1>5. RowOK(prior, old) /\ old.at = "live"
  <2> HIDE DEF old
  <2>1. /\ old.at = r.at /\ old.doneAt = r.doneAt
        /\ old = [at |-> old.at, status |-> old.status, doneAt |-> old.doneAt, text |-> old.text,
                   touched |-> old.touched, of |-> old.of]
    BY <1>b, RowParts
  <2> QED  BY <1>1, <1>2, <1>3, <2>1 DEF RowOK
<1>6. log' = [rows |-> [k \in Records |-> IF k = prior THEN old ELSE IF k = d THEN new ELSE log.rows[k]],
              versions |-> log.versions]
  <2>1. log' = [log EXCEPT !.rows[d] = new, !.rows[prior] = old]
    BY DEF Supersede, RecordRow
  <2> HIDE DEF new, old, r
  <2>2. PICK log1 : log1 = [log EXCEPT !.rows[d] = new]
    OBVIOUS
  <2>3. log1 = [rows |-> [k \in Records |-> IF k = d THEN new ELSE log.rows[k]], versions |-> log.versions]
    BY <1>3, <2>2
  <2>4. log' = [log1 EXCEPT !.rows[prior] = old]
    BY <2>1, <2>2
  <2> QED  BY <2>3, <2>4
<1> HIDE DEF new, old
<1>7. \A k \in Records : log'.rows[k] = IF k = prior THEN old ELSE IF k = d THEN new ELSE log.rows[k]
  BY <1>6
<1>8. \A k \in Records : RowOK(k, log.rows[k])
  BY DEF RadarSafe, LogSafe, Typed
<1>9. \A k \in Records : RowOK(k, log'.rows[k]) /\ Succeeds(log.rows[k], log'.rows[k])
  BY <1>2, <1>4, <1>5, <1>7, <1>8 DEF Succeeds
<1>10. \A k \in RadarSource : log'.rows[k] = log.rows[k]
  BY <1>1, <1>7 DEF Records
<1>11. ASSUME NEW k \in RadarSource, There(log', k)
       PROVE  IsLive(log', k) /\ There(log', log'.rows[k].of)
  <2>1. k \in Records /\ log'.rows[k] = log.rows[k] /\ There(log, k)
    BY <1>10, <1>11 DEF Records, There
  <2>2. IsLive(log, k) /\ There(log, log.rows[k].of) /\ log.rows[k].of \in Records
    BY <1>8, <2>1 DEF RadarSafe, LogSafe, RowOK, There, Records
  <2> QED  BY <1>9, <2>1, <2>2 DEF Succeeds, There, IsLive
<1>12. log' = [rows |-> [k \in Records |-> log'.rows[k]], versions |-> log'.versions]
  BY <1>6
<1>13. LogSafe'
  BY <1>9, <1>11, <1>12 DEF LogSafe, Typed
<1> QED  BY <1>9, <1>10, <1>13, RecordsMove DEF Supersede

LEMMA VersionKeeps ==
  ASSUME RadarSafe, SaveVersion
  PROVE  RadarSafe'
<1>1. log = [rows |-> [k \in Records |-> log.rows[k]], versions |-> log.versions]
  BY DEF RadarSafe, LogSafe
<1>2. log' = [rows |-> [k \in Records |-> log.rows[k]], versions |-> log.versions + 1]
  BY <1>1 DEF SaveVersion
<1>3. \A k \in Records : log'.rows[k] = log.rows[k]
  BY <1>2
<1>4. log' = [rows |-> [k \in Records |-> log'.rows[k]], versions |-> log'.versions]
  BY <1>2
<1>5. \A k \in RadarSource : There(log', k) => IsLive(log', k) /\ There(log', log'.rows[k].of)
  <2> SUFFICES ASSUME NEW k \in RadarSource, There(log', k)
               PROVE  IsLive(log', k) /\ There(log', log'.rows[k].of)
    OBVIOUS
  <2>1. k \in Records /\ log'.rows[k] = log.rows[k] /\ There(log, k)
    BY <1>3 DEF Records, There
  <2>2. IsLive(log, k) /\ There(log, log.rows[k].of) /\ log.rows[k].of \in Records
    BY <2>1 DEF RadarSafe, LogSafe, Typed, RowOK, There, Records
  <2> QED  BY <1>3, <2>1, <2>2 DEF There, IsLive
<1>6. LogSafe'
  BY <1>3, <1>4, <1>5 DEF RadarSafe, LogSafe, Typed
<1> QED  BY <1>3, <1>6, RecordsMove DEF SaveVersion, Succeeds, Records

(* What the steps of the records and of the panels do to what is displayed and *)
(* to the checkpoints.                                                         *)
NotPassed ==
  /\ \A p \in Panel : panel'[p].radar # panel[p].radar => Exact(panel'[p].radar)
  /\ \A u \in RadarReader : reviewed'[u] # reviewed[u] =>
       \E p \in Panel : ReaderOf[p] = u /\ panel[p].radar.manifest = reviewed'[u]

ReplyOK(reply) == reply.since = Missing \/ Later(reply.since, reply.manifest)

LEMMA PanelMoves ==
  ASSUME RadarSafe, NEW p \in Panel, NEW phase, NEW reply, NEW radar, NEW next,
         next = [phase |-> phase, reply |-> reply, radar |-> radar], PanelIs(p, next),
         ReplyOK(reply)
  PROVE  /\ \A q \in Panel : panel'[q].radar = IF q = p THEN radar ELSE panel[q].radar
         /\ panel' = [q \in Panel |-> [phase |-> panel'[q].phase, reply |-> panel'[q].reply,
                                      radar |-> panel'[q].radar]]
         /\ \A q \in Panel : ReplyOK(panel'[q].reply)
<1>1. panel = [q \in Panel |-> [phase |-> panel[q].phase, reply |-> panel[q].reply,
                               radar |-> panel[q].radar]]
      /\ \A q \in Panel : ReplyOK(panel[q].reply)
  BY DEF RadarSafe, ReplyOK
<1>2. panel' = [q \in Panel |-> IF q = p THEN next ELSE panel[q]]
  BY <1>1 DEF PanelIs
<1>3. next.reply = reply /\ next.radar = radar
      /\ next = [phase |-> next.phase, reply |-> next.reply, radar |-> next.radar]
  OBVIOUS
<1>4. \A q \in Panel : panel'[q] = IF q = p THEN next ELSE panel[q]
  BY <1>2
<1>5. \A q \in Panel : panel[q] = [phase |-> panel[q].phase, reply |-> panel[q].reply,
                                   radar |-> panel[q].radar]
  BY <1>1
<1>6. \A q \in Panel : panel'[q] = [phase |-> panel'[q].phase, reply |-> panel'[q].reply,
                                    radar |-> panel'[q].radar]
  BY <1>3, <1>4, <1>5
<1>7. panel' = [q \in Panel |-> [phase |-> panel'[q].phase, reply |-> panel'[q].reply,
                                radar |-> panel'[q].radar]]
  BY <1>2, <1>6
<1> QED  BY <1>1, <1>3, <1>4, <1>7

LEMMA PanelKeeps ==
  ASSUME RadarSafe, NEW p \in Panel,
         \/ ServeRadar(p) \/ ShowRadar(p)
         \/ MarkReviewed(p) \/ SaveCheckpoint(p) \/ RequestFails(p) \/ MarkFails(p)
  PROVE  RadarSafe' /\ NotPassed
<1> DEFINE q == panel[p]
<1> DEFINE u == ReaderOf[p]
<1>1. /\ q = [phase |-> q.phase, reply |-> q.reply, radar |-> q.radar] /\ ReplyOK(q.reply)
      /\ LogSafe /\ u \in RadarReader
  BY DEF RadarSafe, ReplyOK, RadarReader
<1>2. log' = log /\ LogSafe' /\ Manifest' = Manifest
  BY <1>1 DEF ServeRadar, ShowRadar, MarkReviewed, SaveCheckpoint, RequestFails, MarkFails,
              ButPanel, LogSafe, There, IsLive, Manifest
<1>3. ReplyOK(NoRadar)
  BY DEF ReplyOK, NoRadar
<1>4. ASSUME NEW phase, NEW reply, ReplyOK(reply),
             PanelIs(p, [phase |-> phase, reply |-> reply, radar |-> q.radar]),
             UNCHANGED reviewed
      PROVE  RadarSafe' /\ NotPassed
  <2>1. /\ \A k \in Panel : panel'[k].radar = panel[k].radar
        /\ panel' = [k \in Panel |-> [phase |-> panel'[k].phase, reply |-> panel'[k].reply,
                                     radar |-> panel'[k].radar]]
        /\ \A k \in Panel : ReplyOK(panel'[k].reply)
    BY <1>4, PanelMoves
  <2>2. reviewed' = [k \in RadarReader |-> reviewed'[k]]
        /\ \A k \in RadarReader : reviewed'[k] = Missing \/ Later(reviewed'[k], Manifest')
    BY <1>2, <1>4 DEF RadarSafe
  <2>3. RadarSafe'
    BY <1>2, <2>1, <2>2 DEF RadarSafe, ReplyOK
  <2> QED  BY <1>4, <2>1, <2>3 DEF NotPassed
<1>5. CASE ServeRadar(p)
  <2> DEFINE reply == [manifest |-> Manifest, since |-> reviewed[u]]
  <2>1. reply.manifest = Manifest /\ reply.since = reviewed[u]
    OBVIOUS
  <2>2. ReplyOK(reply)
    BY <1>1, <2>1 DEF ReplyOK, RadarSafe
  <2>3. PanelIs(p, [q EXCEPT !.phase = "answered", !.reply = reply]) /\ UNCHANGED reviewed
    BY <1>5 DEF ServeRadar
  <2> HIDE DEF reply, q
  <2>4. [q EXCEPT !.phase = "answered", !.reply = reply]
          = [phase |-> "answered", reply |-> reply, radar |-> q.radar]
    <3>1. PICK q1 : q1 = [q EXCEPT !.phase = "answered"]
      OBVIOUS
    <3>2. q1 = [phase |-> "answered", reply |-> q.reply, radar |-> q.radar]
      BY <1>1, <3>1
    <3>3. [q EXCEPT !.phase = "answered", !.reply = reply] = [q1 EXCEPT !.reply = reply]
      BY <3>1
    <3> QED  BY <3>2, <3>3
  <2> QED  BY <1>4, <2>2, <2>3, <2>4
<1>6. CASE ShowRadar(p)
  <2>1. PanelIs(p, [phase |-> "idle", reply |-> NoRadar, radar |-> q.reply]) /\ UNCHANGED reviewed
    BY <1>6 DEF ShowRadar
  <2>2. /\ \A k \in Panel : panel'[k].radar = IF k = p THEN q.reply ELSE panel[k].radar
        /\ panel' = [k \in Panel |-> [phase |-> panel'[k].phase, reply |-> panel'[k].reply,
                                     radar |-> panel'[k].radar]]
        /\ \A k \in Panel : ReplyOK(panel'[k].reply)
    BY <1>3, <2>1, PanelMoves
  <2>3. Exact(q.reply)
    BY <1>1, ExactLater DEF ReplyOK
  <2>4. reviewed' = [k \in RadarReader |-> reviewed'[k]]
        /\ \A k \in RadarReader : reviewed'[k] = Missing \/ Later(reviewed'[k], Manifest')
    BY <1>2, <2>1 DEF RadarSafe
  <2>5. RadarSafe'
    BY <1>2, <2>2, <2>4 DEF RadarSafe, ReplyOK
  <2>6. \A k \in Panel : panel'[k].radar # panel[k].radar => Exact(panel'[k].radar)
    BY <2>2, <2>3
  <2> QED  BY <2>1, <2>5, <2>6 DEF NotPassed
<1>7. CASE MarkReviewed(p) \/ MarkFails(p)
  <2>1. PICK phase : PanelIs(p, [q EXCEPT !.phase = phase]) /\ UNCHANGED reviewed
    BY <1>7 DEF MarkReviewed, MarkFails
  <2> HIDE DEF q
  <2>2. [q EXCEPT !.phase = phase] = [phase |-> phase, reply |-> q.reply, radar |-> q.radar]
    BY <1>1
  <2> QED  BY <1>1, <1>4, <2>1, <2>2
<1>8. CASE RequestFails(p)
  <2>1. PanelIs(p, [q EXCEPT !.phase = "idle", !.reply = NoRadar]) /\ UNCHANGED reviewed
    BY <1>8 DEF RequestFails
  <2> HIDE DEF q
  <2>2. [q EXCEPT !.phase = "idle", !.reply = NoRadar]
          = [phase |-> "idle", reply |-> NoRadar, radar |-> q.radar]
    <3>1. PICK q1 : q1 = [q EXCEPT !.phase = "idle"]
      OBVIOUS
    <3>2. q1 = [phase |-> "idle", reply |-> q.reply, radar |-> q.radar]
      BY <1>1, <3>1
    <3>3. [q EXCEPT !.phase = "idle", !.reply = NoRadar] = [q1 EXCEPT !.reply = NoRadar]
      BY <3>1
    <3> QED  BY <3>2, <3>3
  <2> QED  BY <1>3, <1>4, <2>1, <2>2
<1>9. CASE SaveCheckpoint(p)
  <2>1. PanelIs(p, [q EXCEPT !.phase = "idle"])
    BY <1>9 DEF SaveCheckpoint
  <2>2. [q EXCEPT !.phase = "idle"] = [phase |-> "idle", reply |-> q.reply, radar |-> q.radar]
    <3> HIDE DEF q
    <3> QED  BY <1>1
  <2>3. CASE q.radar.manifest # Manifest
    <3>1. UNCHANGED reviewed
      BY <1>9, <2>3 DEF SaveCheckpoint
    <3> QED  BY <1>1, <1>4, <2>1, <2>2, <3>1
  <2>4. CASE q.radar.manifest = Manifest
    <3>1. reviewed' = [reviewed EXCEPT ![u] = Manifest]
      BY <1>9, <2>4 DEF SaveCheckpoint
    <3>2. reviewed' = [k \in RadarReader |-> IF k = u THEN Manifest ELSE reviewed[k]]
      BY <3>1 DEF RadarSafe
    <3>3. Later(Manifest, Manifest)
      BY <1>1, ManifestTyped DEF Later, Succeeds
    <3>4. \A k \in RadarReader : reviewed'[k] = IF k = u THEN Manifest ELSE reviewed[k]
      BY <3>2
    <3>5. reviewed' = [k \in RadarReader |-> reviewed'[k]]
          /\ \A k \in RadarReader : reviewed'[k] = Missing \/ Later(reviewed'[k], Manifest')
      BY <1>2, <3>2, <3>3, <3>4 DEF RadarSafe
    <3>6. /\ \A k \in Panel : panel'[k].radar = panel[k].radar
          /\ panel' = [k \in Panel |-> [phase |-> panel'[k].phase, reply |-> panel'[k].reply,
                                       radar |-> panel'[k].radar]]
          /\ \A k \in Panel : ReplyOK(panel'[k].reply)
      BY <1>1, <2>1, <2>2, PanelMoves
    <3>7. RadarSafe'
      BY <1>2, <3>5, <3>6 DEF RadarSafe, ReplyOK
    <3>8. \A k \in RadarReader : reviewed'[k] # reviewed[k] =>
            \E o \in Panel : ReaderOf[o] = k /\ panel[o].radar.manifest = reviewed'[k]
      BY <2>4, <3>4
    <3> QED  BY <3>6, <3>7, <3>8 DEF NotPassed
  <2> QED  BY <2>3, <2>4
<1> QED  BY <1>5, <1>6, <1>7, <1>8, <1>9

LEMMA RadarStep ==
  ASSUME RadarSafe, [RadarNext]_radarVars
  PROVE  RadarSafe' /\ [NotPassed]_radarVars
<1>1. CASE UNCHANGED radarVars
  <2>1. Manifest' = Manifest /\ LogSafe'
    BY <1>1 DEF radarVars, Manifest, RadarSafe, LogSafe, There, IsLive
  <2> QED  BY <1>1, <2>1 DEF radarVars, RadarSafe
<1>2. ASSUME UNCHANGED <<reviewed, panel>> PROVE NotPassed
  BY <1>2 DEF NotPassed
<1>3. CASE SaveVersion
  BY <1>2, <1>3, VersionKeeps DEF SaveVersion
<1>4. ASSUME NEW e \in RadarEntry, ChangeEntry(e) \/ \E s \in RadarSource : AddSource(s, e)
      PROVE  RadarSafe' /\ NotPassed
  BY <1>2, <1>4, EntryKeeps DEF ChangeEntry, AddSource, Add, Edit, Change
<1>5. ASSUME NEW c \in RadarCandidate, ChangeCandidate(c) PROVE RadarSafe' /\ NotPassed
  BY <1>2, <1>5, CandidateKeeps DEF ChangeCandidate, Add, Edit, Change
<1>6. ASSUME NEW t \in RadarTask, ChangeTask(t) PROVE RadarSafe' /\ NotPassed
  BY <1>2, <1>6, TaskKeeps DEF ChangeTask, Add, Edit, Change
<1>7. ASSUME NEW d \in RadarDecision, ChangeDecision(d) PROVE RadarSafe' /\ NotPassed
  BY <1>2, <1>7, DecisionKeeps DEF ChangeDecision, Add, Edit, Change
<1>8. ASSUME NEW d \in RadarDecision, NEW prior \in RadarDecision, Supersede(d, prior)
      PROVE  RadarSafe' /\ NotPassed
  BY <1>2, <1>8, SupersedeKeeps DEF Supersede
<1> QED  BY <1>1, <1>3, <1>4, <1>5, <1>6, <1>7, <1>8, PanelKeeps DEF RadarNext

(* No change of the records is passed over, whatever the records, readers and *)
(* panels are, and however the changes, displays and presses interleave.      *)
THEOREM RadarHolds == RadarSpec => NothingIsPassedOver
<1>1. RadarSpec => []RadarSafe
  BY RadarStart, RadarStep, PTL DEF RadarSpec
<1>2. RadarSafe /\ [RadarNext]_radarVars => [NotPassed]_radarVars
  BY RadarStep
<1>3. RadarSpec => [][NotPassed]_radarVars
  BY <1>1, <1>2, PTL DEF RadarSpec
<1> QED  BY <1>3 DEF NothingIsPassedOver, NotPassed

USE CandidatesAssumption, TasksAssumption, DecisionsAssumption

------------------------------------------------------------------------------
(* Tasks.  Inserting, moving and deleting each keep a forest of bounded depth, *)
(* for any number of tasks and any limit.  The new depths are given            *)
(* explicitly; no induction over the tree is needed, because Path and Subtree  *)
(* are the smallest closed sets.                                               *)

(* On a forest depthOf is a depth function. *)
LEMMA DepthOfIsDepth ==
  ASSUME TaskForest
  PROVE  depthOf \in Depths /\ IsDepth(depthOf)
  BY DEF TaskForest, depthOf

(* The subtree of a live task holds the task and all children of its members. *)
LEMMA SubtreeClosed ==
  ASSUME NEW t \in Live
  PROVE  /\ t \in Subtree(t) /\ Subtree(t) \subseteq Live
         /\ DownClosed(Subtree(t))
  BY DEF Subtree, DownClosed

(* It is the smallest such set. *)
LEMMA SubtreeSmallest ==
  ASSUME NEW t \in Live, NEW S \in SUBSET Live, t \in S, DownClosed(S)
  PROVE  Subtree(t) \subseteq S
  BY DEF Subtree

(* Every member but the task itself has its parent in the subtree. *)
LEMMA SubtreeParent ==
  ASSUME NEW t \in Live, NEW x \in Subtree(t), x # t
  PROVE  Parent(x) \in Subtree(t)
<1> DEFINE S == {t} \union {y \in Subtree(t) : Parent(y) \in Subtree(t)}
<1>1. S \in SUBSET Live /\ t \in S
  BY SubtreeClosed
<1>2. DownClosed(S)
  BY SubtreeClosed DEF DownClosed
<1>3. Subtree(t) \subseteq S
  BY <1>1, <1>2, SubtreeSmallest
<1> QED
  BY <1>3

(* No member lies above the task. *)
LEMMA SubtreeBelow ==
  ASSUME NEW t \in Live, TaskForest, NEW x \in Subtree(t)
  PROVE  depthOf[x] >= depthOf[t]
<1> DEFINE S == {y \in Live : depthOf[y] >= depthOf[t]}
<1>1. depthOf \in Depths /\ IsDepth(depthOf)
  BY DepthOfIsDepth
<1>2. \A y \in Live : depthOf[y] \in Nat
  BY <1>1 DEF Depths
<1>3. S \in SUBSET Live /\ t \in S
  BY <1>2
<1>4. DownClosed(S)
  <2> SUFFICES ASSUME NEW y \in Live, Parent(y) \in S
               PROVE  y \in S
    BY DEF DownClosed
  <2>1. Parent(y) # NoTask
    BY DEF Live
  <2>2. depthOf[y] = depthOf[Parent(y)] + 1
    BY <1>1, <2>1 DEF IsDepth
  <2> QED
    BY <1>2, <2>2
<1>5. Subtree(t) \subseteq S
  BY <1>3, <1>4, SubtreeSmallest
<1> QED
  BY <1>5

(* The cycle check is the right one: if the walk up from p does not meet t,
   then p is not below t. *)
LEMMA CycleCheck ==
  ASSUME NEW t \in Live, NEW p \in Live, t \notin Path(p)
  PROVE  p \notin Subtree(t)
<1> DEFINE S == {x \in Live : t \in Path(x)}
<1>1. S \in SUBSET Live /\ t \in S
  BY DEF Path
<1>2. DownClosed(S)
  BY DEF DownClosed, UpClosed, Path
<1>3. Subtree(t) \subseteq S
  BY <1>1, <1>2, SubtreeSmallest
<1> QED
  BY <1>3

------------------------------------------------------------------------------
(* To show that the new tree is a forest, give the new depths. *)
LEMMA NewForest ==
  ASSUME NEW f, f \in Depths',
         \A x \in Live' : \/ Parent(x)' = NoTask /\ f[x] = 0
                          \/ Parent(x)' \in Live' /\ f[x] = f[Parent(x)'] + 1
  PROVE  TaskForest'
  BY DEF TaskForest, IsDepth

LEMMA InsertKeepsForest ==
  ASSUME TasksTypeOK, TaskForest, NEW t \in TaskId,
         NEW p \in TaskId \union {NoTask}, NEW c \in Candidate \union {NoCandidate},
         InsertTask(t, p, c)
  PROVE  TasksTypeOK' /\ TaskForest'
<1>1. TasksTypeOK'
  BY DEF TasksTypeOK, InsertTask, Task
<1>2. depthOf \in Depths /\ IsDepth(depthOf)
  BY DepthOfIsDepth
<1>3. /\ t \notin Live /\ Live' = Live \union {t}
      /\ \A x \in Live : x # t /\ Parent(x)' = Parent(x)
      /\ Parent(t)' = p
  BY DEF TasksTypeOK, InsertTask, Live, Parent
<1>4. DepthUnder(p) \in 0..MaxDepth - 1
  BY <1>2 DEF InsertTask, DepthUnder, Depths
<1>f. PICK f : f = [x \in Live' |-> IF x = t THEN DepthUnder(p) ELSE depthOf[x]]
  OBVIOUS
<1>5. f \in Depths'
  BY <1>f, <1>2, <1>3, <1>4 DEF Depths
<1>6. ASSUME NEW x \in Live'
      PROVE  \/ Parent(x)' = NoTask /\ f[x] = 0
             \/ Parent(x)' \in Live' /\ f[x] = f[Parent(x)'] + 1
  <2>1. CASE x = t
    <3>1. p = NoTask \/ p \in Live
      BY DEF InsertTask
    <3> QED
      BY <1>f, <1>3, <2>1, <3>1 DEF DepthUnder
  <2>2. CASE x # t
    <3>1. \/ Parent(x) = NoTask /\ depthOf[x] = 0
          \/ Parent(x) \in Live /\ depthOf[x] = depthOf[Parent(x)] + 1
      BY <1>2, <1>3, <2>2 DEF IsDepth
    <3> QED
      BY <1>f, <1>3, <2>2, <3>1
  <2> QED
    BY <2>1, <2>2
<1> QED
  BY <1>1, <1>5, <1>6, NewForest

LEMMA MoveKeepsForest ==
  ASSUME TasksTypeOK, TaskForest, NEW t \in TaskId,
         NEW p \in TaskId \union {NoTask}, MoveTask(t, p)
  PROVE  TasksTypeOK' /\ TaskForest'
<1>1. TasksTypeOK'
  BY DEF TasksTypeOK, MoveTask, Task
<1>2. depthOf \in Depths /\ IsDepth(depthOf)
  BY DepthOfIsDepth
<1>3. /\ t \in Live /\ Live' = Live
      /\ \A x \in Live : Parent(x)' = IF x = t THEN p ELSE Parent(x)
  BY DEF TasksTypeOK, MoveTask, Live, Parent
<1>4. p = NoTask \/ (p \in Live /\ p \notin Subtree(t))
  BY <1>3, CycleCheck DEF MoveTask
<1>5. \A x \in Live : depthOf[x] \in 0..MaxDepth - 1
  BY <1>2 DEF Depths
<1>6. DepthUnder(p) \in Nat
  BY <1>4, <1>5 DEF DepthUnder
<1>7. /\ t \in Subtree(t) /\ Subtree(t) \subseteq Live
      /\ DownClosed(Subtree(t))
  BY <1>3, SubtreeClosed
<1> DEFINE moved(x) == DepthUnder(p) + (depthOf[x] - depthOf[t])
<1>f. PICK f : f = [x \in Live |-> IF x \in Subtree(t) THEN moved(x) ELSE depthOf[x]]
  OBVIOUS
<1>8. \A x \in Subtree(t) : moved(x) \in 0..MaxDepth - 1
  <2> TAKE x \in Subtree(t)
  <2>1. depthOf[x] >= depthOf[t]
    BY <1>3, SubtreeBelow
  <2>2. moved(x) < MaxDepth
    BY DEF MoveTask
  <2>3. depthOf[x] \in Nat /\ depthOf[t] \in Nat
    BY <1>3, <1>5, <1>7
  <2> QED
    BY <1>6, <2>1, <2>2, <2>3
<1>9. f \in Depths'
  <2> HIDE DEF moved
  <2> QED
    BY <1>f, <1>3, <1>5, <1>8 DEF Depths
<1>10. ASSUME NEW x \in Live
      PROVE  \/ Parent(x)' = NoTask /\ f[x] = 0
             \/ Parent(x)' \in Live /\ f[x] = f[Parent(x)'] + 1
  <2>0. \/ Parent(x) = NoTask /\ depthOf[x] = 0
        \/ Parent(x) \in Live /\ depthOf[x] = depthOf[Parent(x)] + 1
    BY <1>2 DEF IsDepth
  <2>1. CASE x = t
    <3>1. Parent(x)' = p /\ f[x] = DepthUnder(p)
      BY <1>f, <1>3, <1>5, <1>6, <1>7, <2>1
    <3>2. p # NoTask => f[p] = depthOf[p]
      BY <1>f, <1>4
    <3> QED
      BY <1>4, <3>1, <3>2 DEF DepthUnder
  <2>2. CASE x # t /\ x \in Subtree(t)
    <3>1. Parent(x)' = Parent(x) /\ Parent(x) \in Subtree(t)
      BY <1>3, <2>2, SubtreeParent
    <3>2. Parent(x) \in Live /\ depthOf[x] = depthOf[Parent(x)] + 1
      BY <1>7, <2>0, <3>1 DEF Live
    <3>3. f[x] = moved(x) /\ f[Parent(x)] = moved(Parent(x))
      BY <1>f, <2>2, <3>1, <3>2
    <3>4. moved(x) = moved(Parent(x)) + 1
      BY <1>3, <1>5, <1>6, <3>2
    <3> QED
      BY <3>1, <3>2, <3>3, <3>4
  <2>3. CASE x # t /\ x \notin Subtree(t)
    <3>1. Parent(x)' = Parent(x) /\ Parent(x) \notin Subtree(t)
      BY <1>3, <1>7, <2>3 DEF DownClosed
    <3> QED
      BY <1>f, <2>0, <2>3, <3>1
  <2> QED
    BY <2>1, <2>2, <2>3
<1> QED
  BY <1>1, <1>3, <1>9, <1>10, NewForest

LEMMA DeleteKeepsForest ==
  ASSUME TasksTypeOK, TaskForest, NEW t \in TaskId, DeleteTask(t)
  PROVE  TasksTypeOK' /\ TaskForest'
<1>1. TasksTypeOK'
  BY DEF TasksTypeOK, DeleteTask, Task
<1>2. depthOf \in Depths /\ IsDepth(depthOf)
  BY DepthOfIsDepth
<1>3. DownClosed(Subtree(t)) /\ Subtree(t) \subseteq Live
  BY SubtreeClosed DEF DeleteTask
<1>4. /\ Live' = Live \ Subtree(t)
      /\ \A x \in Live' : Parent(x)' = Parent(x)
  BY <1>3 DEF TasksTypeOK, DeleteTask, Live, Parent
<1>f. PICK f : f = [x \in Live' |-> depthOf[x]]
  OBVIOUS
<1>5. f \in Depths'
  BY <1>f, <1>2, <1>4 DEF Depths
<1>6. ASSUME NEW x \in Live'
      PROVE  \/ Parent(x)' = NoTask /\ f[x] = 0
             \/ Parent(x)' \in Live' /\ f[x] = f[Parent(x)'] + 1
  <2>1. \/ Parent(x) = NoTask /\ depthOf[x] = 0
        \/ Parent(x) \in Live /\ depthOf[x] = depthOf[Parent(x)] + 1
    BY <1>2, <1>4 DEF IsDepth
  <2>2. Parent(x) \notin Subtree(t)
    BY <1>3, <1>4 DEF DownClosed
  <2> QED
    BY <1>f, <1>4, <2>1, <2>2
<1> QED
  BY <1>1, <1>5, <1>6, NewForest

(* Every operation of the checklist keeps the types and the forest. *)
LEMMA TasksStep ==
  ASSUME TasksTypeOK, TaskForest, TasksNext
  PROVE  TasksTypeOK' /\ TaskForest'
<1>1. PICK t \in TaskId :
        \/ \E p \in TaskId \union {NoTask} :
             InsertTask(t, p, NoCandidate) \/ MoveTask(t, p)
        \/ DeleteTask(t)
  BY DEF TasksNext
<1>2. ASSUME NEW p \in TaskId \union {NoTask}, InsertTask(t, p, NoCandidate)
      PROVE  TasksTypeOK' /\ TaskForest'
  BY <1>2, InsertKeepsForest
<1>3. ASSUME NEW p \in TaskId \union {NoTask}, MoveTask(t, p)
      PROVE  TasksTypeOK' /\ TaskForest'
  BY <1>3, MoveKeepsForest
<1>4. CASE DeleteTask(t)
  BY <1>4, DeleteKeepsForest
<1> QED
  BY <1>1, <1>2, <1>3, <1>4

------------------------------------------------------------------------------
(* Decisions *)

(* Recording a decision, superseding an earlier one or not, keeps the types,
   extends a chain at its head, and rewrites nothing. *)
LEMMA InsertDecisionKeeps ==
  ASSUME DecisionsTypeOK, DecisionChains, NEW p \in {0} \union 1..recorded,
         NEW c \in Candidate \union {NoCandidate}, InsertDecision(p, c)
  PROVE  DecisionsTypeOK' /\ DecisionChains' /\ RecordStands
<1> DEFINE d == recorded + 1
<1>1. /\ recorded \in Nat /\ d \in DecisionId /\ recorded' = d
      /\ 1..recorded \subseteq DecisionId
      /\ \A x \in DecisionId : x \in Nat \ {0}
  <2>1. recorded \in 0..MaxDecisions /\ recorded < MaxDecisions /\ recorded' = d
    BY DEF InsertDecision, DecisionsTypeOK
  <2> QED
    BY <2>1 DEF DecisionId
<1>2. decisions \in [DecisionId -> Decision]
  BY DEF DecisionsTypeOK
<1>3. decisions' =
        [x \in DecisionId |->
           IF x = d THEN [lifecycle |-> "active", deleted |-> FALSE,
                          supersedes |-> p, superseded_by |-> 0, source |-> c]
           ELSE IF x = p THEN [decisions[x] EXCEPT !.lifecycle = "superseded",
                                                   !.superseded_by = d]
           ELSE decisions[x]]
  BY DEF InsertDecision
<1>4. decisions'[d] = [lifecycle |-> "active", deleted |-> FALSE,
                       supersedes |-> p, superseded_by |-> 0, source |-> c]
  BY <1>1, <1>3
<1>5. p # 0 => p \in 1..recorded /\ p # d /\ p \in DecisionId /\ MaySupersede(p)
  <2>1. p # 0 => MaySupersede(p)
    BY DEF InsertDecision
  <2>2. p # 0 => p \in 1..recorded
    OBVIOUS
  <2>3. p \in 1..recorded => p # d /\ p \in DecisionId
    BY <1>1
  <2> QED
    BY <2>1, <2>2, <2>3
<1>6. p # 0 => decisions'[p] = [decisions[p] EXCEPT !.lifecycle = "superseded",
                                                    !.superseded_by = d]
  BY <1>3, <1>5
<1>7. \A x \in DecisionId : x # d /\ x # p => decisions'[x] = decisions[x]
  BY <1>3
<1> HIDE DEF d
<1>8. DecisionsTypeOK'
  <2>1. \A x \in DecisionId : decisions'[x] \in Decision
    <3> TAKE x \in DecisionId
    <3>1. CASE x = d
      <4>1. p \in DecisionId \union {0}
        BY <1>5
      <4>2. [lifecycle |-> "active", deleted |-> FALSE, supersedes |-> p,
             superseded_by |-> 0, source |-> c] \in Decision
        BY <4>1 DEF Decision
      <4> QED
        BY <1>4, <3>1, <4>2
    <3>2. CASE x = p
      <4>1. decisions[p] \in Decision /\ p # 0
        BY <1>1, <1>2, <3>2
      <4> QED
        BY <1>1, <1>6, <3>2, <4>1 DEF Decision
    <3>3. CASE x # d /\ x # p
      BY <1>2, <1>7, <3>3
    <3> QED
      BY <3>1, <3>2, <3>3
  <2>2. decisions' \in [DecisionId -> Decision]
    BY <1>3, <2>1
  <2>3. \A x \in DecisionId : x > d => decisions'[x] = NoDecision
    <3> SUFFICES ASSUME NEW x \in DecisionId, x > d
                 PROVE  decisions'[x] = NoDecision
      OBVIOUS
    <3>1. x > recorded /\ x # d /\ x # p
      BY <1>1, <1>5 DEF d
    <3> QED
      BY <1>7, <3>1 DEF DecisionsTypeOK
  <2> QED
    BY <1>1, <2>2, <2>3 DEF DecisionsTypeOK, DecisionId
<1>9. \A x \in 1..recorded :
        /\ x \in DecisionId /\ x # d /\ decisions[x] \in Decision
        /\ decisions'[x].supersedes = decisions[x].supersedes
        /\ decisions'[x].deleted = decisions[x].deleted
        /\ decisions'[x].lifecycle =
              IF x = p THEN "superseded" ELSE decisions[x].lifecycle
        /\ decisions'[x].superseded_by =
              IF x = p THEN d ELSE decisions[x].superseded_by
  <2> TAKE x \in 1..recorded
  <2>1. x \in DecisionId /\ x # d /\ decisions[x] \in Decision
    BY <1>1, <1>2 DEF d
  <2>2. CASE x = p
    <3>1. p # 0
      BY <1>1, <2>1, <2>2
    <3> QED
      BY <1>6, <2>1, <2>2, <3>1 DEF Decision
  <2>3. CASE x # p
    BY <1>7, <2>1, <2>3
  <2> QED
    BY <2>1, <2>2, <2>3
<1>10. p # 0 => /\ decisions[p].lifecycle = "active" /\ ~decisions[p].deleted
                /\ decisions[p].superseded_by = 0
  BY <1>5 DEF MaySupersede, Active, Kept
<1>11. DecisionChains'
  <2> SUFFICES ASSUME NEW x \in 1..d
      PROVE  LET r == decisions'[x] IN
             /\ r.lifecycle = "superseded" <=> r.superseded_by # 0
             /\ r.superseded_by # 0 =>
                  /\ r.superseded_by \in x + 1..d
                  /\ decisions'[r.superseded_by].supersedes = x
             /\ r.supersedes # 0 =>
                  /\ r.supersedes \in 1..x - 1
                  /\ decisions'[r.supersedes].superseded_by = x
             /\ (r.supersedes # 0 \/ r.superseded_by # 0) => ~r.deleted
    BY <1>1 DEF DecisionChains, Linked, Kept
  <2>1. CASE x = d
    <3>1. p # 0 => p \in 1..d - 1 /\ decisions'[p].superseded_by = d
      BY <1>1, <1>5, <1>9 DEF d
    <3> QED
      BY <1>4, <2>1, <3>1
  <2>2. CASE x # d
    <3>1. x \in 1..recorded
      BY <1>1, <2>2 DEF d
    <3>2. /\ decisions[x].lifecycle = "superseded" <=> decisions[x].superseded_by # 0
          /\ decisions[x].superseded_by # 0 =>
               /\ decisions[x].superseded_by \in x + 1..recorded
               /\ decisions[decisions[x].superseded_by].supersedes = x
          /\ decisions[x].supersedes # 0 =>
               /\ decisions[x].supersedes \in 1..x - 1
               /\ decisions[decisions[x].supersedes].superseded_by = x
          /\ (decisions[x].supersedes # 0 \/ decisions[x].superseded_by # 0)
               => ~decisions[x].deleted
      BY <3>1 DEF DecisionChains, Linked, Kept
    <3>3. CASE x = p
      <4>1. p # 0 /\ d \in x + 1..d
        BY <1>1, <3>1, <3>3 DEF d
      <4>2. decisions[x].supersedes # 0 =>
              /\ decisions[x].supersedes \in 1..recorded
              /\ decisions[x].supersedes # p
        <5> DEFINE q == decisions[x].supersedes
        <5>1. q # 0 => q \in 1..x - 1
          BY <3>2
        <5> HIDE DEF q
        <5>2. q # 0 => q \in 1..recorded /\ q # x
          BY <1>1, <3>1, <5>1
        <5> QED
          BY <3>3, <5>2 DEF q
      <4> QED
        BY <1>4, <1>9, <1>10, <3>1, <3>2, <3>3, <4>1, <4>2
    <3>4. CASE x # p
      <4>1. decisions[x].superseded_by # 0 =>
              /\ decisions[x].superseded_by \in 1..recorded
              /\ decisions[x].superseded_by \in x + 1..d
        BY <1>1, <3>1, <3>2 DEF d
      <4>2. decisions[x].supersedes # 0 =>
              /\ decisions[x].supersedes \in 1..recorded
              /\ decisions[x].supersedes # p
        <5> DEFINE q == decisions[x].supersedes
        <5>1. q # 0 => q \in 1..x - 1 /\ decisions[q].superseded_by = x
          BY <3>2
        <5> HIDE DEF q
        <5>2. q # 0 => q \in 1..recorded
          BY <1>1, <3>1, <5>1
        <5>3. q # 0 => q # p
          BY <1>10, <3>1, <5>1
        <5> QED
          BY <5>2, <5>3 DEF q
      <4> QED
        BY <1>9, <3>1, <3>2, <3>4, <4>1, <4>2
    <3> QED
      BY <3>3, <3>4
  <2> QED
    BY <2>1, <2>2
<1>12. RecordStands
  <2> SUFFICES ASSUME NEW x \in 1..recorded
      PROVE  /\ decisions'[x].supersedes = decisions[x].supersedes
             /\ decisions[x].superseded_by # 0 => decisions'[x] = decisions[x]
             /\ decisions[x].lifecycle # "active"
                  => decisions'[x].lifecycle = decisions[x].lifecycle
    BY DEF RecordStands
  <2>1. x \in DecisionId /\ x # 0 /\ x # d
    BY <1>1, <1>9
  <2> QED
    BY <1>7, <1>9, <1>10, <2>1
<1> QED
  BY <1>8, <1>11, <1>12

(* Revoking touches nothing but the lifecycle of an active decision. *)
LEMMA RevokeDecisionKeeps ==
  ASSUME DecisionsTypeOK, DecisionChains, NEW d \in DecisionId, RevokeDecision(d)
  PROVE  DecisionsTypeOK' /\ DecisionChains' /\ RecordStands
<1>1. /\ recorded' = recorded /\ d \in 1..recorded
      /\ decisions[d].lifecycle = "active"
      /\ decisions \in [DecisionId -> Decision]
      /\ decisions' = [decisions EXCEPT ![d].lifecycle = "revoked"]
  BY DEF RevokeDecision, DecisionsTypeOK, Active
<1>2. \A x \in DecisionId :
        /\ decisions'[x].supersedes = decisions[x].supersedes
        /\ decisions'[x].superseded_by = decisions[x].superseded_by
        /\ decisions'[x].deleted = decisions[x].deleted
        /\ decisions'[x].lifecycle =
              IF x = d THEN "revoked" ELSE decisions[x].lifecycle
        /\ x # d => decisions'[x] = decisions[x]
  BY <1>1 DEF Decision
<1>3. DecisionsTypeOK'
  <2>1. decisions' \in [DecisionId -> Decision]
    BY <1>1 DEF Decision
  <2>2. \A x \in DecisionId : x > recorded => x # d
    BY <1>1 DEF DecisionsTypeOK
  <2> QED
    BY <1>1, <1>2, <2>1, <2>2 DEF DecisionsTypeOK
<1>4. 1..recorded \subseteq DecisionId
  BY DEF DecisionsTypeOK, DecisionId
<1>5. \A x \in 1..recorded :
        /\ decisions[x].superseded_by # 0 => decisions[x].superseded_by \in 1..recorded
        /\ decisions[x].supersedes # 0 => decisions[x].supersedes \in 1..recorded
  BY DEF DecisionChains, DecisionsTypeOK
<1>6. DecisionChains'
  BY <1>1, <1>2, <1>4, <1>5 DEF DecisionChains, Linked, Kept
<1>7. decisions[d].superseded_by = 0
  BY <1>1 DEF DecisionChains
<1>8. RecordStands
  BY <1>1, <1>2, <1>4, <1>7 DEF RecordStands
<1> QED
  BY <1>3, <1>6, <1>8

(* A decision is deleted only outside every chain. *)
LEMMA DeleteDecisionKeeps ==
  ASSUME DecisionsTypeOK, DecisionChains, NEW d \in DecisionId, DeleteDecision(d)
  PROVE  DecisionsTypeOK' /\ DecisionChains' /\ RecordStands
<1>1. /\ recorded' = recorded /\ d \in 1..recorded
      /\ decisions[d].supersedes = 0 /\ decisions[d].superseded_by = 0
      /\ decisions \in [DecisionId -> Decision]
      /\ decisions' = [decisions EXCEPT ![d].deleted = TRUE]
  BY DEF DeleteDecision, DecisionsTypeOK, Linked
<1>2. \A x \in DecisionId :
        /\ decisions'[x].supersedes = decisions[x].supersedes
        /\ decisions'[x].superseded_by = decisions[x].superseded_by
        /\ decisions'[x].lifecycle = decisions[x].lifecycle
        /\ x # d => decisions'[x] = decisions[x]
  BY <1>1 DEF Decision
<1>3. DecisionsTypeOK'
  <2>1. decisions' \in [DecisionId -> Decision]
    BY <1>1 DEF Decision
  <2>2. \A x \in DecisionId : x > recorded => x # d
    BY <1>1 DEF DecisionsTypeOK
  <2> QED
    BY <1>1, <1>2, <2>1, <2>2 DEF DecisionsTypeOK
<1>4. 1..recorded \subseteq DecisionId
  BY DEF DecisionsTypeOK, DecisionId
<1>5. \A x \in 1..recorded :
        /\ decisions[x].superseded_by # 0 => decisions[x].superseded_by \in 1..recorded
        /\ decisions[x].supersedes # 0 => decisions[x].supersedes \in 1..recorded
  BY DEF DecisionChains, DecisionsTypeOK
<1>6. DecisionChains'
  BY <1>1, <1>2, <1>4, <1>5 DEF DecisionChains, Linked, Kept
<1>7. RecordStands
  BY <1>1, <1>2, <1>4 DEF RecordStands
<1> QED
  BY <1>3, <1>6, <1>7

(* Every operation of the log keeps the types and the chains. *)
LEMMA DecisionsStep ==
  ASSUME DecisionsTypeOK, DecisionChains, DecisionsNext
  PROVE  DecisionsTypeOK' /\ DecisionChains' /\ RecordStands
  BY InsertDecisionKeeps, RevokeDecisionKeeps, DeleteDecisionKeeps DEF DecisionsNext

------------------------------------------------------------------------------
(* Candidates and their records *)

RecordsSafe == PromotionTypeOK /\ TaskForest /\ DecisionChains /\ OneRecordPerCandidate

(* If a step leaves the candidates' types alone and makes no live record from
   a candidate, it keeps what is known of the records. *)
LEMMA NoNewRecord ==
  ASSUME OneRecordPerCandidate,
         \A c \in Candidate : TasksFrom(c)' \subseteq TasksFrom(c),
         \A c \in Candidate : DecisionsFrom(c)' \subseteq DecisionsFrom(c),
         \A c \in Candidate : candidates[c] # None =>
                                candidates'[c].type = candidates[c].type
  PROVE  OneRecordPerCandidate'
<1>1. ASSUME NEW c \in Candidate
      PROVE  TasksFrom(c) # {} \/ DecisionsFrom(c) # {} => candidates[c] # None
  BY DEF OneRecordPerCandidate, None
<1> QED
  BY <1>1 DEF OneRecordPerCandidate

LEMMA CandidateTypesStay ==
  ASSUME CandidatesTypeOK, CandidatesNext
  PROVE  /\ CandidatesTypeOK'
         /\ \A c \in Candidate : candidates[c] # None =>
                                  candidates'[c].type = candidates[c].type
<1>1. ASSUME NEW c \in Candidate, NEW ty \in CandidateType, InsertCandidate(c, ty)
      PROVE  /\ CandidatesTypeOK'
             /\ \A x \in Candidate : candidates[x] # None =>
                                      candidates'[x].type = candidates[x].type
  BY <1>1 DEF CandidatesTypeOK, InsertCandidate, Status
<1>2. ASSUME NEW c \in Candidate, NEW s \in Status, SetStatus(c, s)
      PROVE  /\ CandidatesTypeOK'
             /\ \A x \in Candidate : candidates[x] # None =>
                                      candidates'[x].type = candidates[x].type
  <2>1. candidates[c] \in [type : CandidateType, status : Status]
    BY <1>2 DEF CandidatesTypeOK, SetStatus
  <2>2. candidates' = [candidates EXCEPT ![c].status = s]
    BY <1>2 DEF SetStatus
  <2>3. \A x \in Candidate :
          /\ x # c => candidates'[x] = candidates[x]
          /\ candidates'[c] = [type |-> candidates[c].type, status |-> s]
    BY <2>1, <2>2 DEF CandidatesTypeOK
  <2>4. candidates'[c] \in [type : CandidateType, status : Status]
    BY <1>2, <2>1, <2>3
  <2>5. CandidatesTypeOK'
    BY <2>2, <2>3, <2>4 DEF CandidatesTypeOK
  <2> QED
    BY <2>3, <2>5
<1> QED
  BY <1>1, <1>2 DEF CandidatesNext

(* The checklist's own operations make no record of a candidate. *)
LEMMA TasksMakeNoRecord ==
  ASSUME TasksTypeOK, TasksNext, NEW c \in Candidate
  PROVE  TasksFrom(c)' \subseteq TasksFrom(c)
<1>1. PICK t \in TaskId :
        \/ \E p \in TaskId \union {NoTask} :
             InsertTask(t, p, NoCandidate) \/ MoveTask(t, p)
        \/ DeleteTask(t)
  BY DEF TasksNext
<1>2. ASSUME NEW p \in TaskId \union {NoTask}, InsertTask(t, p, NoCandidate)
      PROVE  TasksFrom(c)' \subseteq TasksFrom(c)
  BY <1>2 DEF InsertTask, TasksTypeOK, TasksFrom, Live
<1>3. ASSUME NEW p \in TaskId \union {NoTask}, MoveTask(t, p)
      PROVE  TasksFrom(c)' \subseteq TasksFrom(c)
  BY <1>3 DEF MoveTask, TasksTypeOK, Task, TasksFrom, Live
<1>4. CASE DeleteTask(t)
  <2>1. \A x \in TaskId : \/ tasks'[x] = tasks[x]
                          \/ tasks'[x] = [tasks[x] EXCEPT !.state = "deleted"]
    BY <1>4 DEF DeleteTask
  <2>2. \A x \in TaskId : tasks[x] \in Task
    BY DEF TasksTypeOK
  <2>3. \A x \in TaskId : tasks'[x].state = "live" => tasks'[x] = tasks[x]
    BY <2>1, <2>2 DEF Task
  <2> QED
    BY <2>3 DEF TasksFrom, Live
<1> QED
  BY <1>1, <1>2, <1>3, <1>4

(* Nor do those of the decision log. *)
LEMMA DecisionsMakeNoRecord ==
  ASSUME DecisionsTypeOK, DecisionsNext, NEW c \in Candidate
  PROVE  DecisionsFrom(c)' \subseteq DecisionsFrom(c)
<1>1. recorded \in Nat /\ 1..recorded \subseteq DecisionId
      /\ \A x \in DecisionId : decisions[x] \in Decision
  BY DEF DecisionsTypeOK, DecisionId
<1>2. ASSUME NEW p \in {0} \union 1..recorded, InsertDecision(p, NoCandidate)
      PROVE  DecisionsFrom(c)' \subseteq DecisionsFrom(c)
  <2>1. recorded + 1 \in DecisionId /\ recorded' = recorded + 1
    <3>1. recorded < MaxDecisions /\ recorded' = recorded + 1
      BY <1>2 DEF InsertDecision
    <3> QED
      BY <1>1, <3>1 DEF DecisionId
  <2>2. decisions'[recorded + 1].source = NoCandidate
    BY <1>2, <2>1 DEF InsertDecision
  <2>3. \A x \in 1..recorded : /\ decisions'[x].source = decisions[x].source
                               /\ decisions'[x].deleted = decisions[x].deleted
    <3> TAKE x \in 1..recorded
    <3>1. x # recorded + 1 /\ x \in DecisionId /\ decisions[x] \in Decision
      BY <1>1
    <3>2. \/ decisions'[x] = decisions[x]
          \/ decisions'[x] = [decisions[x] EXCEPT !.lifecycle = "superseded",
                                                  !.superseded_by = recorded + 1]
      BY <1>2, <3>1 DEF InsertDecision
    <3> QED
      BY <3>1, <3>2 DEF Decision
  <2>4. \A x \in 1..recorded + 1 : x = recorded + 1 \/ x \in 1..recorded
    BY <1>1
  <2> QED
    BY <2>1, <2>2, <2>3, <2>4 DEF DecisionsFrom, Kept
<1>3. ASSUME NEW d \in DecisionId, RevokeDecision(d) \/ DeleteDecision(d)
      PROVE  DecisionsFrom(c)' \subseteq DecisionsFrom(c)
  <2>1. \/ decisions' = [decisions EXCEPT ![d].lifecycle = "revoked"]
        \/ decisions' = [decisions EXCEPT ![d].deleted = TRUE]
    BY <1>3 DEF RevokeDecision, DeleteDecision
  <2>2. \A x \in DecisionId :
          /\ decisions'[x].source = decisions[x].source
          /\ ~decisions'[x].deleted => ~decisions[x].deleted
    BY <1>1, <2>1 DEF DecisionsTypeOK, Decision
  <2> QED
    BY <1>1, <1>3, <2>2 DEF DecisionsFrom, Kept, RevokeDecision, DeleteDecision
<1> QED
  BY <1>2, <1>3 DEF DecisionsNext

(* A promotion makes the first live record of its candidate, of its type. *)
LEMMA PromoteToTaskKeeps ==
  ASSUME RecordsSafe, NEW c \in Candidate, NEW t \in TaskId, PromoteToTask(c, t)
  PROVE  RecordsSafe' /\ RecordStands
<1>1. TasksTypeOK' /\ TaskForest'
  BY InsertKeepsForest DEF RecordsSafe, PromotionTypeOK, PromoteToTask
<1>2. UNCHANGED <<recorded, decisions, candidates>>
  BY DEF PromoteToTask, decisionVars
<1>3. DecisionsTypeOK' /\ DecisionChains' /\ CandidatesTypeOK' /\ RecordStands
  BY <1>2 DEF RecordsSafe, PromotionTypeOK, DecisionsTypeOK, DecisionChains, Linked, Kept,
    CandidatesTypeOK, RecordStands
<1>4. /\ TasksFrom(c)' \subseteq {t}
      /\ \A x \in Candidate : x # c => TasksFrom(x)' \subseteq TasksFrom(x)
      /\ \A x \in Candidate : DecisionsFrom(x)' = DecisionsFrom(x)
  <2>1. TasksFrom(c) = {} /\ \A x \in TaskId : x # t => tasks'[x] = tasks[x]
    BY DEF PromoteToTask, Promoted, InsertTask
  <2>2. tasks'[t].source = c
    BY DEF PromoteToTask, InsertTask, RecordsSafe, PromotionTypeOK, TasksTypeOK
  <2> QED
    BY <1>2, <2>1, <2>2 DEF TasksFrom, Live, DecisionsFrom, Kept
<1>5. DecisionsFrom(c) = {} /\ candidates[c].type = "action_item"
  BY DEF PromoteToTask, Promoted
<1>6. OneRecordPerCandidate'
  BY <1>2, <1>4, <1>5 DEF RecordsSafe, OneRecordPerCandidate
<1> QED
  BY <1>1, <1>3, <1>6 DEF RecordsSafe, PromotionTypeOK

LEMMA PromoteToDecisionKeeps ==
  ASSUME RecordsSafe, NEW c \in Candidate, PromoteToDecision(c)
  PROVE  RecordsSafe' /\ RecordStands
<1>1. DecisionsTypeOK' /\ DecisionChains' /\ RecordStands
  BY InsertDecisionKeeps DEF RecordsSafe, PromotionTypeOK, PromoteToDecision
<1>2. UNCHANGED <<tasks, candidates>>
  BY DEF PromoteToDecision
<1>3. TasksTypeOK' /\ TaskForest' /\ CandidatesTypeOK'
  BY <1>2 DEF RecordsSafe, PromotionTypeOK, TasksTypeOK, TaskForest, Depths, IsDepth, Live,
    Parent, CandidatesTypeOK
<1>4. recorded \in Nat /\ recorded' = recorded + 1 /\ 1..recorded \subseteq DecisionId
      /\ recorded + 1 \in DecisionId
  <2>1. recorded < MaxDecisions /\ recorded' = recorded + 1
    BY DEF PromoteToDecision, InsertDecision
  <2>2. recorded \in 0..MaxDecisions
    BY DEF RecordsSafe, PromotionTypeOK, DecisionsTypeOK
  <2> QED
    BY <2>1, <2>2 DEF DecisionId
<1>5. /\ decisions'[recorded + 1].source = c
      /\ \A x \in 1..recorded : decisions'[x] = decisions[x]
  <2>1. \A x \in 1..recorded : x # recorded + 1 /\ x # 0
    BY <1>4
  <2> QED
    BY <1>4, <2>1 DEF PromoteToDecision, InsertDecision
<1>6. \A x \in 1..recorded + 1 : x = recorded + 1 \/ x \in 1..recorded
  BY <1>4
<1>7. DecisionsFrom(c) = {} /\ TasksFrom(c) = {} /\ candidates[c].type = "decision"
  BY DEF PromoteToDecision, Promoted
<1>8. /\ DecisionsFrom(c)' \subseteq {recorded + 1}
      /\ \A x \in Candidate : x # c => DecisionsFrom(x)' \subseteq DecisionsFrom(x)
      /\ \A x \in Candidate : TasksFrom(x)' = TasksFrom(x)
  BY <1>2, <1>4, <1>5, <1>6, <1>7 DEF DecisionsFrom, Kept, TasksFrom, Live
<1>9. OneRecordPerCandidate'
  BY <1>2, <1>7, <1>8 DEF RecordsSafe, OneRecordPerCandidate
<1> QED
  BY <1>1, <1>3, <1>9 DEF RecordsSafe, PromotionTypeOK

------------------------------------------------------------------------------
LEMMA RecordsInit == PromotionInit => RecordsSafe
<1> SUFFICES ASSUME PromotionInit PROVE RecordsSafe
  OBVIOUS
<1>1. /\ tasks = [t \in TaskId |-> FreeTask] /\ recorded = 0
      /\ decisions = [d \in DecisionId |-> NoDecision]
      /\ candidates = [c \in Candidate |-> None]
  BY DEF PromotionInit, TasksInit, DecisionsInit, CandidatesInit
<1>2. Live = {}
  BY <1>1 DEF Live, FreeTask
<1>3. TasksTypeOK /\ CandidatesTypeOK
  BY <1>1 DEF TasksTypeOK, Task, FreeTask, CandidatesTypeOK
<1>4. DecisionsTypeOK /\ DecisionChains
  <2>1. NoDecision \in Decision
    BY DEF NoDecision, Decision
  <2> QED
    BY <1>1, <2>1 DEF DecisionsTypeOK, DecisionChains
<1>5. TaskForest
  <2>1. [x \in {} |-> 0] \in Depths /\ IsDepth([x \in {} |-> 0])
    BY <1>2 DEF Depths, IsDepth
  <2> QED
    BY <2>1 DEF TaskForest
<1>6. \A c \in Candidate : TasksFrom(c) = {} /\ DecisionsFrom(c) = {}
  BY <1>1, <1>2 DEF TasksFrom, DecisionsFrom
<1> QED
  BY <1>3, <1>4, <1>5, <1>6 DEF RecordsSafe, PromotionTypeOK, OneRecordPerCandidate

LEMMA RecordsStep == RecordsSafe /\ [PromotionNext]_promotionVars => RecordsSafe' /\ RecordStands
<1> SUFFICES ASSUME RecordsSafe, [PromotionNext]_promotionVars PROVE RecordsSafe' /\ RecordStands
  OBVIOUS
<1> USE DEF RecordsSafe, PromotionTypeOK
<1>1. UNCHANGED <<recorded, decisions>> =>
        /\ DecisionsTypeOK' /\ DecisionChains' /\ RecordStands
        /\ \A c \in Candidate : DecisionsFrom(c)' = DecisionsFrom(c)
  BY DEF DecisionsTypeOK, DecisionChains, Linked, Kept, RecordStands, DecisionsFrom
<1>2. UNCHANGED tasks =>
        /\ TasksTypeOK' /\ TaskForest'
        /\ \A c \in Candidate : TasksFrom(c)' = TasksFrom(c)
  BY DEF TasksTypeOK, TaskForest, Depths, IsDepth, Live, Parent, TasksFrom
<1>3. UNCHANGED candidates => CandidatesTypeOK'
  BY DEF CandidatesTypeOK
<1>4. CASE TasksNext /\ UNCHANGED <<decisionVars, candidates>>
  <2>1. UNCHANGED <<recorded, decisions, candidates>>
    BY <1>4 DEF decisionVars
  <2> QED
    BY <1>1, <1>3, <1>4, <2>1, TasksStep, TasksMakeNoRecord, NoNewRecord
<1>5. CASE DecisionsNext /\ UNCHANGED <<tasks, candidates>>
  BY <1>2, <1>3, <1>5, DecisionsStep, DecisionsMakeNoRecord, NoNewRecord
<1>6. CASE CandidatesNext /\ UNCHANGED <<tasks, decisionVars>>
  <2>1. UNCHANGED <<recorded, decisions, tasks>>
    BY <1>6 DEF decisionVars
  <2> QED
    BY <1>1, <1>2, <1>6, <2>1, CandidateTypesStay, NoNewRecord
<1>7. ASSUME NEW c \in Candidate, PromoteToDecision(c)
      PROVE  RecordsSafe' /\ RecordStands
  BY <1>7, PromoteToDecisionKeeps
<1>8. ASSUME NEW c \in Candidate, NEW t \in TaskId, PromoteToTask(c, t)
      PROVE  RecordsSafe' /\ RecordStands
  BY <1>8, PromoteToTaskKeeps
<1>9. CASE UNCHANGED promotionVars
  <2>1. UNCHANGED <<recorded, decisions, tasks, candidates>>
    BY <1>9 DEF promotionVars
  <2> QED
    BY <1>1, <1>2, <1>3, <2>1, NoNewRecord
<1> QED
  BY <1>4, <1>5, <1>6, <1>7, <1>8, <1>9 DEF PromotionNext

------------------------------------------------------------------------------
(* In every reachable state the live tasks are a forest no deeper than the
   limit, decisions form linear chains, and a candidate has one record. *)
THEOREM RecordsHold == PromotionSpec => []RecordsSafe
<1>1. RecordsSafe /\ [PromotionNext]_promotionVars => RecordsSafe'
  BY RecordsStep
<1> QED
  BY RecordsInit, <1>1, PTL DEF PromotionSpec

(* Inserting, moving and deleting, in any order, keep the checklist a forest
   of bounded depth: every live task is in the list once. *)
THEOREM ForestHolds == PromotionSpec => []TaskForest
<1>1. RecordsSafe => TaskForest
  BY DEF RecordsSafe
<1> QED
  BY <1>1, RecordsHold, PTL

(* Decisions form linear chains whose links name each other. *)
THEOREM ChainsHold == PromotionSpec => []DecisionChains
<1>1. RecordsSafe => DecisionChains
  BY DEF RecordsSafe
<1> QED
  BY <1>1, RecordsHold, PTL

(* However often it is promoted, a candidate has at most one live record. *)
THEOREM OneRecordHolds == PromotionSpec => []OneRecordPerCandidate
<1>1. RecordsSafe => OneRecordPerCandidate
  BY DEF RecordsSafe
<1> QED
  BY <1>1, RecordsHold, PTL

(* No step rewrites a link, a superseded decision, or a closed lifecycle. *)
THEOREM HistoryStands == PromotionSpec => DecisionHistory
<1>1. RecordsSafe /\ [PromotionNext]_promotionVars => [RecordStands]_promotionVars
  BY RecordsStep
<1> QED
  BY <1>1, RecordsHold, PTL DEF PromotionSpec, DecisionHistory
==============================================================================
