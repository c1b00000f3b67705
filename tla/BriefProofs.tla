----------------------------- MODULE BriefProofs -----------------------------
(* Proofs about the content of a brief: the backfill of saved briefs into     *)
(* graphs, and the review cards that a refresh or the monitor makes.          *)
(*                                                                            *)
(* Both fold a list, item by item.  A fold is a walk over the places of the   *)
(* list, so its value is proved with OneByOne, from the value one place       *)
(* before.                                                                    *)
EXTENDS BriefBackfill, BriefProposals, FiniteSetTheorems, SequenceTheorems,
        WellFoundedInduction, TLAPS

------------------------------------------------------------------------------
(* The backfill *)

(* Natural numbers, one after the other. *)
LEMMA OneByOne ==
  ASSUME NEW S, 0 \in S, \A n \in Nat : n \in S => n + 1 \in S
  PROVE  Nat \subseteq S
<1> DEFINE Lt == {ss \in Nat \X Nat : ss[1] < ss[2]}
<1>1. IsWellFoundedOn(Lt, Nat)
  BY NatLessThanWellFounded DEF OpToRel
<1> SUFFICES ASSUME Nat \ S # {} PROVE FALSE
  OBVIOUS
<1>2. PICK x \in Nat \ S : \A y \in Nat \ S : <<y, x>> \notin Lt
  BY <1>1, WFMin
<1>3. x # 0 /\ x - 1 \in Nat /\ x - 1 < x
  BY <1>2
<1>4. x - 1 \in S
  BY <1>2, <1>3
<1> QED  BY <1>2, <1>3, <1>4

(* Every list has a length and that many places.                              *)
LEMMA ListShape ==
  ASSUME NEW s, IsList(s)
  PROVE  Len(s) \in Nat /\ DOMAIN s = 1 .. Len(s)
BY DEF IsList

(* The items of a brief that become claims, place by place. *)
Keep(kept, item) == IF Repeats(kept, item) THEN kept ELSE Append(kept, item)
LEMMA MergedSteps ==
  ASSUME NEW brief, Len(brief) \in Nat
  PROVE  \E kept : /\ kept[0] = << >> /\ Merged(brief) = kept[Len(brief)]
                   /\ \A k \in 1 .. Len(brief) : kept[k] = Keep(kept[k - 1], brief[k])
<1> DEFINE IsWalk(f, n) ==
             f = [k \in 0 .. n |-> IF k = 0 THEN << >>
                    ELSE IF Repeats(f[k - 1], brief[k]) THEN f[k - 1] ELSE Append(f[k - 1], brief[k])]
           S == {n \in Nat : \E f : IsWalk(f, n)}
           n == Len(brief)
<1>1. 0 \in S
  <2> DEFINE f == [k \in 0 .. 0 |-> << >>]
  <2>1. IsWalk(f, 0)
    OBVIOUS
  <2> HIDE DEF f, IsWalk
  <2> QED  BY <2>1
<1>2. ASSUME NEW m \in Nat, m \in S PROVE m + 1 \in S
  <2>1. PICK f : IsWalk(f, m)
    BY <1>2
  <2> DEFINE g == [k \in 0 .. m + 1 |-> IF k = m + 1 THEN Keep(f[m], brief[k]) ELSE f[k]]
  <2>2. \A k \in 0 .. m : f[k] = IF k = 0 THEN << >> ELSE Keep(f[k - 1], brief[k])
    BY <2>1 DEF Keep
  <2>3. \A k \in 0 .. m + 1 : g[k] = IF k = 0 THEN << >> ELSE Keep(g[k - 1], brief[k])
    <3> TAKE k \in 0 .. m + 1
    <3>1. CASE k = 0
      BY <2>2, <3>1
    <3>2. CASE k \in 1 .. m
      BY <2>2, <3>2
    <3>3. CASE k = m + 1
      BY <3>3
    <3> QED  BY <3>1, <3>2, <3>3
  <2>4. DOMAIN g = 0 .. m + 1 /\ g = [k \in 0 .. m + 1 |-> g[k]]
    OBVIOUS
  <2> HIDE DEF g
  <2>5. IsWalk(g, m + 1)
    BY <2>3, <2>4 DEF Keep
  <2> HIDE DEF IsWalk
  <2> QED  BY <2>5
<1>3. n \in S
  <2> HIDE DEF S, n
  <2>1. Nat \subseteq S
    BY <1>1, <1>2, OneByOne
  <2> QED  BY <2>1 DEF n
<1> DEFINE kept == CHOOSE f : IsWalk(f, n)
<1>4. IsWalk(kept, n)
  <2> HIDE DEF IsWalk
  <2> QED  BY <1>3
<1>5. Merged(brief) = kept[n]
  BY DEF Merged
<1> HIDE DEF kept
<1>6. kept[0] = << >> /\ \A k \in 1 .. n : kept[k] = Keep(kept[k - 1], brief[k])
  <2>1. \A k \in 0 .. n : kept[k] = IF k = 0 THEN << >> ELSE Keep(kept[k - 1], brief[k])
    BY <1>4 DEF Keep
  <2>2. n \in Nat
    OBVIOUS
  <2> HIDE DEF n, IsWalk
  <2>3. 0 \in 0 .. n /\ \A k \in 1 .. n : k \in 0 .. n /\ k # 0
    BY <2>2
  <2> QED  BY <2>1, <2>3
<1> QED  BY <1>5, <1>6

(* What was kept of the first items of a brief: each of them, or another one  *)
(* of its section, and nothing but items of the brief.                        *)
KeptOf(brief, n, kept) ==
  /\ kept \in Seq({brief[j] : j \in 1 .. n})
  /\ \A k \in 1 .. n : \E i \in DOMAIN kept : kept[i].section = brief[k].section

LEMMA KeepStep ==
  ASSUME NEW brief, NEW n \in Nat, NEW kept, KeptOf(brief, n, kept)
  PROVE  KeptOf(brief, n + 1, Keep(kept, brief[n + 1]))
<1> DEFINE item == brief[n + 1]
           All == {brief[j] : j \in 1 .. n + 1}
<1>1. kept \in Seq(All)
  <2>1. {brief[j] : j \in 1 .. n} \subseteq All
    OBVIOUS
  <2> QED  BY <2>1, SeqMonotonic DEF KeptOf
<1>2. item \in All
  OBVIOUS
<1> HIDE DEF item, All
<1>3. CASE Repeats(kept, item)
  <2>1. \E i \in DOMAIN kept : kept[i].section = item.section
    BY <1>3 DEF Repeats, Items
  <2>2. \A k \in 1 .. n + 1 : k \in 1 .. n \/ k = n + 1
    OBVIOUS
  <2>3. \A k \in 1 .. n + 1 : \E i \in DOMAIN kept : kept[i].section = brief[k].section
    BY <2>1, <2>2 DEF KeptOf, item
  <2> QED  BY <1>1, <1>3, <2>3 DEF KeptOf, Keep, item, All
<1>4. CASE ~Repeats(kept, item)
  <2> DEFINE new == Append(kept, item)
  <2>1. /\ new \in Seq(All) /\ Len(kept) \in Nat /\ DOMAIN kept = 1 .. Len(kept)
        /\ DOMAIN new = 1 .. Len(kept) + 1 /\ new[Len(kept) + 1] = item
        /\ \A i \in 1 .. Len(kept) : new[i] = kept[i]
    BY <1>1, <1>2, AppendProperties, LenProperties
  <2> HIDE DEF new
  <2>2. ASSUME NEW k \in 1 .. n + 1
        PROVE  \E i \in DOMAIN new : new[i].section = brief[k].section
    <3>1. CASE k = n + 1
      <4>1. Len(kept) + 1 \in DOMAIN new /\ new[Len(kept) + 1] = brief[k]
        BY <2>1, <3>1 DEF item
      <4> QED  BY <4>1
    <3>2. CASE k \in 1 .. n
      <4>1. PICK i \in DOMAIN kept : kept[i].section = brief[k].section
        BY <3>2 DEF KeptOf
      <4>2. i \in DOMAIN new /\ new[i] = kept[i]
        BY <2>1
      <4> QED  BY <4>1, <4>2
    <3> QED  BY <3>1, <3>2
  <2>3. Keep(kept, item) = new
    BY <1>4 DEF Keep, new
  <2> QED  BY <2>1, <2>2, <2>3 DEF KeptOf, item, All
<1> QED  BY <1>3, <1>4

LEMMA MergedKeeps ==
  ASSUME NEW brief, IsList(brief)
  PROVE  KeptOf(brief, Len(brief), Merged(brief))
<1> DEFINE n == Len(brief)
<1>1. n \in Nat
  BY ListShape
<1>2. PICK kept : /\ kept[0] = << >> /\ Merged(brief) = kept[n]
                  /\ \A k \in 1 .. n : kept[k] = Keep(kept[k - 1], brief[k])
  BY <1>1, MergedSteps
<1> HIDE DEF n
<1> DEFINE S == {k \in Nat : k <= n => KeptOf(brief, k, kept[k])}
<1>3. 0 \in S
  <2>1. << >> \in Seq({brief[j] : j \in 1 .. 0})
    OBVIOUS
  <2>2. 1 .. 0 = {}
    OBVIOUS
  <2> QED  BY <1>2, <2>1, <2>2 DEF KeptOf
<1>4. ASSUME NEW k \in Nat, k \in S PROVE k + 1 \in S
  <2>1. CASE k + 1 <= n
    <3>1. k + 1 \in 1 .. n /\ KeptOf(brief, k, kept[k]) /\ (k + 1) - 1 = k
      BY <1>1, <1>4, <2>1
    <3>2. KeptOf(brief, k + 1, Keep(kept[k], brief[k + 1]))
      BY <3>1, KeepStep
    <3>3. KeptOf(brief, k + 1, kept[k + 1])
      BY <1>2, <3>1, <3>2
    <3> QED  BY <3>3
  <2>2. CASE ~(k + 1 <= n)
    BY <2>2
  <2> QED  BY <2>1, <2>2
<1>5. Nat \subseteq S
  <2> HIDE DEF S
  <2> QED  BY <1>3, <1>4, OneByOne
<1>6. KeptOf(brief, n, kept[n])
  BY <1>1, <1>5
<1> QED  BY <1>2, <1>6 DEF n

(* The places of claims that are left, place by place of the brief. *)
Own(brief, section) == {i \in DOMAIN Claims(brief) : Claims(brief)[i].section = section}
Left(brief, section, free, k) ==
  IF k \in Texts(brief, section) THEN Unmatched(Claims(brief), free, brief[k]) ELSE free
LEMMA MatchedSteps ==
  ASSUME NEW brief, Len(brief) \in Nat, NEW section
  PROVE  \E free : /\ free[0] = Own(brief, section)
                   /\ Matched(brief, section)
                        = Cardinality(Own(brief, section)) - Cardinality(free[Len(brief)])
                   /\ \A k \in 1 .. Len(brief) : free[k] = Left(brief, section, free[k - 1], k)
<1> DEFINE IsWalk(f, n) ==
             f = [k \in 0 .. n |-> IF k = 0 THEN Own(brief, section)
                    ELSE IF k \in Texts(brief, section)
                         THEN Unmatched(Claims(brief), f[k - 1], brief[k]) ELSE f[k - 1]]
           S == {n \in Nat : \E f : IsWalk(f, n)}
           n == Len(brief)
<1>1. 0 \in S
  <2> DEFINE f == [k \in 0 .. 0 |-> Own(brief, section)]
  <2>1. IsWalk(f, 0)
    OBVIOUS
  <2> HIDE DEF f, IsWalk
  <2> QED  BY <2>1
<1>2. ASSUME NEW m \in Nat, m \in S PROVE m + 1 \in S
  <2>1. PICK f : IsWalk(f, m)
    BY <1>2
  <2> DEFINE g == [k \in 0 .. m + 1 |-> IF k = m + 1 THEN Left(brief, section, f[m], k) ELSE f[k]]
  <2>2. \A k \in 0 .. m : f[k] = IF k = 0 THEN Own(brief, section) ELSE Left(brief, section, f[k - 1], k)
    BY <2>1 DEF Left
  <2>3. \A k \in 0 .. m + 1 : g[k] = IF k = 0 THEN Own(brief, section)
                                     ELSE Left(brief, section, g[k - 1], k)
    <3> TAKE k \in 0 .. m + 1
    <3>1. CASE k = 0
      BY <2>2, <3>1
    <3>2. CASE k \in 1 .. m
      BY <2>2, <3>2
    <3>3. CASE k = m + 1
      BY <3>3
    <3> QED  BY <3>1, <3>2, <3>3
  <2>4. DOMAIN g = 0 .. m + 1 /\ g = [k \in 0 .. m + 1 |-> g[k]]
    OBVIOUS
  <2> HIDE DEF g
  <2>5. IsWalk(g, m + 1)
    BY <2>3, <2>4 DEF Left
  <2> HIDE DEF IsWalk
  <2> QED  BY <2>5
<1>3. n \in S
  <2> HIDE DEF S, n
  <2>1. Nat \subseteq S
    BY <1>1, <1>2, OneByOne
  <2> QED  BY <2>1 DEF n
<1> DEFINE free == CHOOSE f : IsWalk(f, n)
<1>4. IsWalk(free, n)
  <2> HIDE DEF IsWalk
  <2> QED  BY <1>3
<1>5. Matched(brief, section) = Cardinality(Own(brief, section)) - Cardinality(free[n])
  BY DEF Matched, Own
<1> HIDE DEF free
<1>6. /\ free[0] = Own(brief, section)
      /\ \A k \in 1 .. n : free[k] = Left(brief, section, free[k - 1], k)
  <2>1. \A k \in 0 .. n : free[k] = IF k = 0 THEN Own(brief, section)
                                    ELSE Left(brief, section, free[k - 1], k)
    BY <1>4 DEF Left
  <2>2. n \in Nat
    OBVIOUS
  <2> HIDE DEF n, IsWalk
  <2>3. 0 \in 0 .. n /\ \A k \in 1 .. n : k \in 0 .. n /\ k # 0
    BY <2>2
  <2> QED  BY <2>1, <2>3
<1> QED  BY <1>5, <1>6

LEMMA Likeness ==
  ASSUME NEW words, IsFiniteSet(words)
  PROVE  Near(words, words)
<1>1. Cardinality(words) \in Nat
  BY FS_CardinalityType
<1>2. words \cup words = words /\ words \cap words = words
  OBVIOUS
<1>3. 10 * Cardinality(words) >= 7 * Cardinality(words)
  BY <1>1
<1> QED  BY <1>2, <1>3 DEF Near

(* The least of some positive numbers. *)
LEMMA Least ==
  ASSUME NEW S, S \subseteq Nat, S # {}
  PROVE  \E m \in S : \A k \in S : m <= k
<1> DEFINE Lt == {ss \in Nat \X Nat : ss[1] < ss[2]}
<1>1. IsWellFoundedOn(Lt, Nat)
  BY NatLessThanWellFounded DEF OpToRel
<1>2. PICK m \in S : \A k \in S : <<k, m>> \notin Lt
  BY <1>1, WFMin
<1>3. ASSUME NEW k \in S PROVE m <= k
  <2>1. k \in Nat /\ m \in Nat /\ ~(k < m)
    BY <1>2
  <2> QED  BY <2>1
<1> QED  BY <1>3

(* A section whose items keep their words in their claims has a match, when   *)
(* it has a text to match.                                                    *)
LEMMA SectionMatches ==
  ASSUME NEW brief, IsList(brief), ~Throws(brief), NEW section, section \notin Footprint,
         \A k \in DOMAIN brief : IsFiniteSet(brief[k].text.words),
         Texts(brief, section) # {}
  PROVE  Matched(brief, section) # 0
<1> DEFINE n == Len(brief)
           kept == Merged(brief)
           claims == Claims(brief)
           own == Own(brief, section)
<1>1. n \in Nat /\ DOMAIN brief = 1 .. n
  BY ListShape
<1>2. kept \in Seq({brief[j] : j \in 1 .. n}) /\ \A k \in 1 .. n : \E i \in DOMAIN kept : kept[i].section = brief[k].section
  BY MergedKeeps DEF KeptOf
<1>3. PICK i \in DOMAIN kept : kept[i].section = section
  BY <1>1, <1>2 DEF Texts
<1>4. Len(kept) \in Nat /\ DOMAIN kept = 1 .. Len(kept) /\ kept[i] \in {brief[j] : j \in 1 .. n}
  BY <1>2, <1>3, LenProperties, ElementOfSeq
<1>5. PICK j \in 1 .. n : kept[i] = brief[j]
  BY <1>4
<1>6. ~IsEmpty(kept[i].text)
  BY <1>3 DEF Throws, Items
<1>7. j \in Texts(brief, section)
  BY <1>1, <1>3, <1>5, <1>6 DEF Texts
<1>8. DOMAIN claims = DOMAIN kept /\ claims[i] = Claim(kept, i)
      /\ \A h \in DOMAIN kept : claims[h] = Claim(kept, h)
  BY <1>3 DEF Claims
<1>9. claims[i].section = section /\ claims[i].words = brief[j].text.words
  BY <1>3, <1>5, <1>8 DEF Claim, Words
<1>10. i \in own /\ own \subseteq 1 .. Len(kept)
  BY <1>3, <1>4, <1>8, <1>9 DEF Own
<1>11. Near(claims[i].words, brief[j].text.words)
  BY <1>1, <1>9, Likeness
<1> HIDE DEF kept, claims, own, n
<1>12. PICK free : /\ free[0] = own
                   /\ Matched(brief, section) = Cardinality(own) - Cardinality(free[n])
                   /\ \A k \in 1 .. n : free[k] = Left(brief, section, free[k - 1], k)
  <2>1. Len(brief) \in Nat
    BY <1>1 DEF n
  <2>2. \E free : /\ free[0] = Own(brief, section)
                  /\ Matched(brief, section)
                        = Cardinality(Own(brief, section)) - Cardinality(free[Len(brief)])
                  /\ \A k \in 1 .. Len(brief) : free[k] = Left(brief, section, free[k - 1], k)
    BY <2>1, MatchedSteps
  <2> QED  BY <2>2 DEF own, n
<1>13. \A left, k : Left(brief, section, left, k) \subseteq left
  BY DEF Left, Unmatched
<1>14. ASSUME NEW left, left \subseteq own, i \in left
       PROVE  Left(brief, section, left, j) # left
  <2> DEFINE hits == {h \in left : Near(claims[h].words, brief[j].text.words)}
  <2>1. i \in hits
    BY <1>11, <1>14
  <2>2. hits \subseteq Nat
    BY <1>10, <1>14
  <2>3. PICK m \in hits : \A h \in hits : m <= h
    BY <2>1, <2>2, Least
  <2>4. m \in left /\ m \notin Unmatched(claims, left, brief[j])
    BY <2>3 DEF Unmatched
  <2>5. Left(brief, section, left, j) = Unmatched(claims, left, brief[j])
    BY <1>7 DEF Left, claims
  <2> QED  BY <2>4, <2>5
<1> DEFINE Lost(k) == free[k] \subseteq own /\ (k >= j => free[k] # own)
           S == {k \in Nat : k <= n => Lost(k)}
<1>15. 0 \in S
  BY <1>12
<1>16. ASSUME NEW k \in Nat, k \in S PROVE k + 1 \in S
  <2>1. CASE k + 1 <= n
    <3>0. k + 1 \in 1 .. n /\ k <= n /\ (k + 1) - 1 = k
      BY <1>1, <2>1
    <3>1. k + 1 \in 1 .. n /\ free[k] \subseteq own /\ (k >= j => free[k] # own) /\ (k + 1) - 1 = k
      <4>1. Lost(k)
        <5> HIDE DEF Lost
        <5> QED  BY <1>16, <3>0
      <4> QED  BY <3>0, <4>1
    <3>2. free[k + 1] = Left(brief, section, free[k], k + 1)
      BY <1>12, <3>1
    <3>3. free[k + 1] \subseteq free[k]
      BY <1>13, <3>2
    <3>4. k >= j => free[k + 1] # own
      BY <3>1, <3>3
    <3>5. k + 1 = j => free[k + 1] # own
      <4>1. CASE free[k] = own
        BY <1>10, <1>14, <3>2, <4>1
      <4>2. CASE free[k] # own
        BY <3>1, <3>3, <4>2
      <4> QED  BY <4>1, <4>2
    <3>6. k + 1 >= j => k >= j \/ k + 1 = j
      OBVIOUS
    <3> QED  BY <3>1, <3>3, <3>4, <3>5, <3>6
  <2>2. CASE ~(k + 1 <= n)
    BY <1>1, <2>2
  <2> QED  BY <2>1, <2>2
<1>17. Nat \subseteq S
  <2> HIDE DEF S
  <2> QED  BY <1>15, <1>16, OneByOne
<1>18. free[n] \subseteq own /\ free[n] # own
  <2>1. n \in S /\ n <= n /\ j <= n
    BY <1>1, <1>17
  <2>2. Lost(n)
    <3> HIDE DEF Lost
    <3> QED  BY <2>1
  <2> QED  BY <2>1, <2>2
<1>19. IsFiniteSet(own)
  <2>1. IsFiniteSet(1 .. Len(kept))
    BY <1>4, FS_Interval
  <2> QED  BY <1>10, <2>1, FS_Subset
<1>20. Cardinality(free[n]) < Cardinality(own) /\ Cardinality(own) \in Nat /\ Cardinality(free[n]) \in Nat
  BY <1>18, <1>19, FS_Subset, FS_CardinalityType
<1> QED  BY <1>12, <1>20

(* What is dropped without making the brief throw is of the footprint.        *)
LEMMA OnlyFootprintDrops ==
  ASSUME NEW brief, IsList(brief), ~Throws(brief),
         \A k \in DOMAIN brief : IsFiniteSet(brief[k].text.words)
  PROVE  Dropped(brief) \subseteq Footprint
BY SectionMatches DEF Dropped

LEMMA FewAreDropped ==
  ASSUME NEW brief, ~IsFatal(Classified(brief)), Classified(brief) # "failed_render_parity"
  PROVE  Cardinality(Dropped(brief)) < 3
<1>1. Dropped(brief) \subseteq Compared
  BY DEF Dropped, Sections
<1>2. ASSUME NEW a, NEW b, NEW c, NEW d PROVE IsFiniteSet({a, b, c, d})
  <2> DEFINE X == {a} \cup {b}
             Y == {c} \cup {d}
  <2>1. IsFiniteSet(X) /\ IsFiniteSet(Y)
    BY FS_Singleton, FS_Union
  <2>2. {a, b, c, d} = X \cup Y
    OBVIOUS
  <2> HIDE DEF X, Y
  <2>3. IsFiniteSet(X \cup Y)
    BY <2>1, FS_Union
  <2> QED  BY <2>2, <2>3
<1>3. IsFiniteSet(Compared)
  <2>1. /\ Programs = {"modernization_grants", "consortium_purchasing", "public_ai_use_cases",
                       "public_ai_use_cases"}
        /\ {"top_initiatives", "personas"}
             = {"top_initiatives", "personas", "personas", "personas"}
    BY DEF Programs
  <2>2. /\ IsFiniteSet(Footprint) /\ IsFiniteSet(Programs) /\ IsFiniteSet(HeadTitled)
        /\ IsFiniteSet({"top_initiatives", "personas"})
    BY <1>2, <2>1 DEF Footprint, HeadTitled
  <2>3. IsFiniteSet(Footprint \cup Programs)
    BY <2>2, FS_Union
  <2>4. IsFiniteSet((Footprint \cup Programs) \cup HeadTitled)
    BY <2>2, <2>3, FS_Union
  <2> QED  BY <2>2, <2>4, FS_Union DEF Compared
<1>4. Cardinality(Dropped(brief)) \in Nat
  BY <1>1, <1>3, FS_Subset, FS_CardinalityType
<1>5. ~(Cardinality(Dropped(brief)) >= 3)
  BY DEF Classified, IsFatal
<1> QED  BY <1>4, <1>5

(* One record of a class that fails counts. *)
LEMMA FatalFails ==
  ASSUME NEW rs, Len(rs) \in Nat, DOMAIN rs = 1 .. Len(rs), Aggregate(rs) = "pass"
  PROVE  \A i \in DOMAIN rs : ~IsFatal(rs[i]) /\ rs[i] # "failed_render_parity"
<1>1. ASSUME NEW i \in DOMAIN rs, NEW class, rs[i] = class PROVE Count(rs, class) > 0
  <2> DEFINE S == {k \in DOMAIN rs : rs[k] = class}
  <2>1. IsFiniteSet(DOMAIN rs) /\ S \subseteq DOMAIN rs
    BY FS_Interval
  <2>2. IsFiniteSet(S) /\ S # {}
    BY <1>1, <2>1, FS_Subset
  <2> HIDE DEF S
  <2>3. Cardinality(S) \in Nat /\ Cardinality(S) # 0
    BY <2>2, FS_CardinalityType, FS_EmptySet
  <2> QED  BY <2>3 DEF S, Count
<1>2. \A class \in {"failed_false_verified_provenance", "failed_invented_evidence",
                    "failed_validation", "failed_render_parity"} : ~(Count(rs, class) > 0)
  BY DEF Aggregate
<1>3. ASSUME NEW i \in DOMAIN rs PROVE ~IsFatal(rs[i]) /\ rs[i] # "failed_render_parity"
  BY <1>1, <1>2 DEF IsFatal
<1> QED  BY <1>3

(* The walk through the rows: what was mapped is recorded as it was judged,   *)
(* the walk stops before the end only at a fatal record, and the verdict is   *)
(* that of the records.                                                       *)
BackfillSafe ==
  /\ corpus \in Corpora
  /\ (\E S : records \in Seq(S)) /\ Len(records) <= Len(corpus)
  /\ artifacts \subseteq DOMAIN records
  /\ \A i \in artifacts : /\ corpus[i].schema = "brief" /\ ~Throws(corpus[i].items)
                          /\ records[i] = Classified(corpus[i].items)
  /\ verdict = "closing" => \E i \in DOMAIN records : IsFatal(records[i])
  /\ verdict = "pass" => Len(records) = Len(corpus) /\ Aggregate(records) = "pass"

LEMMA BackfillBegins == ASSUME BackfillInit PROVE BackfillSafe
<1>1. corpus \in Corpora /\ Len(corpus) \in Nat
  BY BackfillAssumption, ListShape DEF BackfillInit
<1>2. records = << >> /\ records \in Seq({}) /\ Len(records) = 0 /\ DOMAIN records = {}
  BY DEF BackfillInit
<1> QED  BY <1>1, <1>2 DEF BackfillSafe, BackfillInit

(* A sequence and its last record. *)
Extends(new, rs, r) ==
  /\ \E S : new \in Seq(S)
  /\ Len(new) = Len(rs) + 1 /\ DOMAIN new = 1 .. Len(rs) + 1
  /\ new[Len(rs) + 1] = r /\ \A i \in DOMAIN rs : new[i] = rs[i]
LEMMA RecordIsAdded ==
  ASSUME NEW rs, \E S : rs \in Seq(S), NEW r
  PROVE  Extends(Append(rs, r), rs, r)
<1>1. PICK S : rs \in Seq(S)
  OBVIOUS
<1>2. rs \in Seq(S \cup {r}) /\ r \in S \cup {r}
  BY <1>1, SeqMonotonic
<1> DEFINE new == Append(rs, r)
<1>3. /\ new \in Seq(S \cup {r}) /\ Len(rs) \in Nat /\ DOMAIN rs = 1 .. Len(rs)
      /\ Len(new) = Len(rs) + 1 /\ DOMAIN new = 1 .. Len(rs) + 1
      /\ \A i \in 1 .. Len(rs) : new[i] = rs[i]
      /\ new[Len(rs) + 1] = r
  BY <1>2, AppendProperties, LenProperties
<1> HIDE DEF new
<1>4. Extends(new, rs, r)
  BY <1>3 DEF Extends
<1> QED  BY <1>4 DEF new

LEMMA BackfillStep ==
  ASSUME BackfillSafe, [BackfillNext]_backfillVars
  PROVE  BackfillSafe'
<1>0. Len(corpus) \in Nat /\ Len(records) \in Nat /\ DOMAIN records = 1 .. Len(records)
  BY BackfillAssumption, ListShape, LenProperties DEF BackfillSafe
<1>1. CASE SkipRow
  <2>1. PICK r : records' = Append(records, r)
    BY <1>1 DEF SkipRow
  <2>2. /\ \E S : records' \in Seq(S)
        /\ Len(records') = Len(records) + 1 /\ DOMAIN records' = 1 .. Len(records) + 1
        /\ \A i \in DOMAIN records : records'[i] = records[i]
    <3>1. \E S : records \in Seq(S)
      BY DEF BackfillSafe
    <3>2. Extends(records', records, r)
      BY <2>1, <3>1, RecordIsAdded
    <3> QED  BY <3>2 DEF Extends
  <2>3. /\ Len(records) < Len(corpus) /\ verdict = "running"
        /\ UNCHANGED <<corpus, artifacts, verdict>>
    BY <1>1 DEF SkipRow, More
  <2>4. artifacts \subseteq DOMAIN records /\ DOMAIN records \subseteq DOMAIN records'
    BY <1>0, <2>2 DEF BackfillSafe
  <2>5. Len(records') <= Len(corpus')
    BY <1>0, <2>2, <2>3
  <2>6. \A i \in artifacts : records'[i] = Classified(corpus[i].items)
    BY <2>2, <2>4 DEF BackfillSafe
  <2> QED  BY <2>2, <2>3, <2>4, <2>5, <2>6 DEF BackfillSafe
<1>2. CASE MapRow
  <2> DEFINE n == Len(records) + 1
             class == Classified(corpus[n].items)
  <2>1. /\ Len(records) < Len(corpus) /\ verdict = "running" /\ UNCHANGED corpus
        /\ corpus[n].schema = "brief" /\ ~Throws(corpus[n].items)
        /\ records' = Append(records, class)
        /\ artifacts' = artifacts \cup {Len(records')}
        /\ verdict' = IF failFast /\ IsFatal(class) THEN "closing" ELSE verdict
    BY <1>2 DEF MapRow, More, NextRow
  <2> HIDE DEF class
  <2>2. /\ \E S : records' \in Seq(S)
        /\ Len(records') = n /\ DOMAIN records' = 1 .. n /\ records'[n] = class
        /\ \A i \in DOMAIN records : records'[i] = records[i]
    <3>1. \E S : records \in Seq(S)
      BY DEF BackfillSafe
    <3>2. Extends(records', records, class)
      BY <2>1, <3>1, RecordIsAdded
    <3> QED  BY <3>2 DEF Extends
  <2>3. n \in DOMAIN records' /\ DOMAIN records \subseteq DOMAIN records' /\ n <= Len(corpus)
    BY <1>0, <2>1, <2>2
  <2> HIDE DEF n
  <2>4. artifacts' = artifacts \cup {n} /\ artifacts \subseteq DOMAIN records
    BY <2>1, <2>2 DEF BackfillSafe
  <2>5. ASSUME NEW i \in artifacts'
        PROVE  /\ corpus[i].schema = "brief" /\ ~Throws(corpus[i].items)
               /\ records'[i] = Classified(corpus[i].items)
    <3>1. CASE i = n
      BY <2>1, <2>2, <3>1 DEF class
    <3>2. CASE i \in artifacts
      BY <2>2, <2>4, <3>2 DEF BackfillSafe
    <3> QED  BY <2>4, <3>1, <3>2
  <2>6. verdict' = "closing" => IsFatal(records'[n])
    BY <2>1, <2>2
  <2>7. verdict' # "pass"
    BY <2>1
  <2>8. artifacts' \subseteq DOMAIN records'
    BY <2>3, <2>4
  <2>9. corpus' = corpus /\ corpus \in Corpora /\ Len(records') <= Len(corpus)
    BY <2>1, <2>2, <2>3 DEF BackfillSafe
  <2> QED  BY <2>2, <2>3, <2>5, <2>6, <2>7, <2>8, <2>9 DEF BackfillSafe
<1>3. CASE RowThrows
  BY <1>3 DEF RowThrows, BackfillSafe
<1>4. CASE WriteVerdict
  <2>1. /\ verdict' = Aggregate(records) /\ UNCHANGED <<corpus, records, artifacts>>
        /\ verdict = "closing" \/ Len(records) = Len(corpus)
    BY <1>4 DEF WriteVerdict
  <2>2. verdict' \in {"fail", "borderline", "pass"}
    BY <2>1 DEF Aggregate
  <2>3. verdict = "closing" => Aggregate(records) # "pass"
    BY FatalFails, <1>0 DEF BackfillSafe
  <2> QED  BY <2>1, <2>2, <2>3 DEF BackfillSafe
<1>5. CASE UNCHANGED backfillVars
  BY <1>5 DEF backfillVars, BackfillSafe
<1> QED  BY <1>1, <1>2, <1>3, <1>4, <1>5 DEF BackfillNext

LEMMA BackfillInvariant == BackfillSpec => []BackfillSafe
<1>1. BackfillInit => BackfillSafe
  BY BackfillBegins
<1>2. BackfillSafe /\ [BackfillNext]_backfillVars => BackfillSafe'
  BY BackfillStep
<1> QED  BY <1>1, <1>2, PTL DEF BackfillSpec

(* A corpus is reported "pass" only when it was read to its end and each of   *)
(* its briefs is in the graphs (aggregateClassification, main).               *)
THEOREM CorpusCovered == BackfillSpec => []PassCoversCorpus
<1>1. ASSUME BackfillSafe PROVE PassCoversCorpus
  <2> SUFFICES ASSUME verdict = "pass"
               PROVE  /\ Len(records) = Len(corpus)
                      /\ \A i \in artifacts :
                           /\ ~IsFatal(records[i])
                           /\ Cardinality(Dropped(corpus[i].items)) < 3
                           /\ Dropped(corpus[i].items) \subseteq Footprint
    BY DEF PassCoversCorpus
  <2>1. Len(records) = Len(corpus) /\ Aggregate(records) = "pass"
    BY <1>1 DEF BackfillSafe
  <2>2. Len(records) \in Nat /\ DOMAIN records = 1 .. Len(records) /\ DOMAIN corpus = 1 .. Len(corpus)
    BY <1>1, BackfillAssumption, ListShape, LenProperties DEF BackfillSafe
  <2>3. \A i \in DOMAIN records : ~IsFatal(records[i]) /\ records[i] # "failed_render_parity"
    BY <2>1, <2>2, FatalFails
  <2>4. ASSUME NEW i \in artifacts
        PROVE  /\ ~IsFatal(records[i])
               /\ Cardinality(Dropped(corpus[i].items)) < 3
               /\ Dropped(corpus[i].items) \subseteq Footprint
    <3> DEFINE brief == corpus[i].items
    <3>1. /\ i \in DOMAIN records /\ corpus[i].schema = "brief" /\ ~Throws(brief)
          /\ records[i] = Classified(brief) /\ corpus \in Corpora
      BY <1>1 DEF BackfillSafe
    <3>2. i \in DOMAIN corpus
      BY <2>1, <2>2, <3>1
    <3>3. IsList(brief) /\ \A k \in DOMAIN brief : IsFiniteSet(brief[k].text.words)
      BY <3>1, <3>2, BackfillAssumption
    <3> HIDE DEF brief
    <3>4. Dropped(brief) \subseteq Footprint
      BY <3>1, <3>3, OnlyFootprintDrops
    <3>5. ~IsFatal(records[i]) /\ Cardinality(Dropped(brief)) < 3
      BY <2>3, <3>1, FewAreDropped
    <3> QED  BY <3>4, <3>5 DEF brief
  <2> QED  BY <2>1, <2>4
<1> QED  BY <1>1, BackfillInvariant, PTL

------------------------------------------------------------------------------
(* Review cards *)

(* Sequences are the lists; appending and joining make lists.                 *)
LEMMA SeqIsList ==
  ASSUME NEW S, NEW s \in Seq(S)
  PROVE  IsList(s)
BY DEF IsList

LEMMA ListIsSeq ==
  ASSUME NEW s, IsList(s)
  PROVE  s \in Seq(Range(s))
<1>1. Len(s) \in Nat /\ DOMAIN s = 1 .. Len(s) /\ s = [i \in 1 .. Len(s) |-> s[i]]
  BY DEF IsList
<1>2. \A i \in 1 .. Len(s) : s[i] \in Range(s)
  BY <1>1 DEF Range
<1>3. s \in [1 .. Len(s) -> Range(s)]
  BY <1>1, <1>2
<1> QED  BY <1>1, <1>3, SeqDef

LEMMA AppendList ==
  ASSUME NEW s, IsList(s), NEW x
  PROVE  /\ IsList(Append(s, x)) /\ Len(Append(s, x)) = Len(s) + 1
         /\ \A i \in DOMAIN s : Append(s, x)[i] = s[i]
         /\ Append(s, x)[Len(s) + 1] = x
<1> DEFINE S == Range(s) \cup {x}
           t == Append(s, x)
<1>1. s \in Seq(S)
  <2>1. s \in Seq(Range(s))
    BY ListIsSeq
  <2> QED  BY <2>1
<1>2. x \in S
  OBVIOUS
<1> HIDE DEF S
<1>3. t \in Seq(S) /\ Len(t) = Len(s) + 1 /\ t[Len(s) + 1] = x /\ \A i \in 1 .. Len(s) : t[i] = s[i]
  BY <1>1, <1>2, AppendProperties
<1>4. IsList(t)
  BY <1>3, SeqIsList
<1> QED  BY <1>3, <1>4, ListShape

LEMMA ConcatList ==
  ASSUME NEW s, IsList(s), NEW t, IsList(t)
  PROVE  /\ IsList(s \o t) /\ Len(s \o t) = Len(s) + Len(t)
         /\ \A i \in 1 .. Len(s) : (s \o t)[i] = s[i]
         /\ \A i \in 1 .. Len(t) : (s \o t)[Len(s) + i] = t[i]
<1> DEFINE S == Range(s) \cup Range(t)
<1>1. s \in Seq(S) /\ t \in Seq(S)
  <2>1. s \in Seq(Range(s)) /\ t \in Seq(Range(t))
    BY ListIsSeq
  <2> QED  BY <2>1
<1> HIDE DEF S
<1>2. /\ s \o t \in Seq(S) /\ Len(s \o t) = Len(s) + Len(t)
      /\ \A i \in 1 .. Len(s) + Len(t) : (s \o t)[i] = IF i <= Len(s) THEN s[i] ELSE t[i - Len(s)]
  BY <1>1, ConcatProperties
<1>3. Len(s) \in Nat /\ Len(t) \in Nat
  BY ListShape
<1>4. IsList(s \o t)
  BY <1>2, SeqIsList
<1>5. \A i \in 1 .. Len(t) : Len(s) + i \in 1 .. Len(s) + Len(t) /\ ~(Len(s) + i <= Len(s)) /\ (Len(s) + i) - Len(s) = i
  BY <1>3
<1> QED  BY <1>2, <1>3, <1>4, <1>5

(* A brief after each of some patches. *)
PatchStep(b, p, fields) == IF p.field \in fields THEN Patched(b, p) ELSE b
LEMMA AppliedSteps ==
  ASSUME NEW b, NEW ps, Len(ps) \in Nat, NEW fields
  PROVE  /\ Applied(b, ps, fields)[0] = b
         /\ \A n \in 1 .. Len(ps) :
              Applied(b, ps, fields)[n] = PatchStep(Applied(b, ps, fields)[n - 1], ps[n], fields)
<1> DEFINE IsWalk(f, n) ==
             f = [k \in 0 .. n |-> IF k = 0 THEN b
                    ELSE IF ps[k].field \in fields THEN Patched(f[k - 1], ps[k]) ELSE f[k - 1]]
           S == {n \in Nat : \E f : IsWalk(f, n)}
           n == Len(ps)
<1>1. 0 \in S
  <2> DEFINE f == [k \in 0 .. 0 |-> b]
  <2>1. IsWalk(f, 0)
    OBVIOUS
  <2> HIDE DEF f, IsWalk
  <2> QED  BY <2>1
<1>2. ASSUME NEW m \in Nat, m \in S PROVE m + 1 \in S
  <2>1. PICK f : IsWalk(f, m)
    BY <1>2
  <2> DEFINE g == [k \in 0 .. m + 1 |-> IF k = m + 1 THEN PatchStep(f[m], ps[k], fields) ELSE f[k]]
  <2>2. \A k \in 0 .. m : g[k] = f[k]
    OBVIOUS
  <2>3. g[m + 1] = PatchStep(f[m], ps[m + 1], fields) /\ (m + 1) - 1 = m /\ m \in 0 .. m
    OBVIOUS
  <2>4. \A k \in 0 .. m + 1 : g[k] = IF k = 0 THEN b
            ELSE IF ps[k].field \in fields THEN Patched(g[k - 1], ps[k]) ELSE g[k - 1]
    <3> TAKE k \in 0 .. m + 1
    <3>1. CASE k = m + 1
      BY <2>2, <2>3, <3>1 DEF PatchStep
    <3>2. CASE k \in 0 .. m
      <4>1. f[k] = IF k = 0 THEN b
              ELSE IF ps[k].field \in fields THEN Patched(f[k - 1], ps[k]) ELSE f[k - 1]
        BY <2>1, <3>2
      <4>2. k # 0 => k - 1 \in 0 .. m
        BY <3>2
      <4> HIDE DEF g
      <4> QED  BY <2>2, <3>2, <4>1, <4>2
    <3> QED  BY <3>1, <3>2
  <2>5. IsWalk(g, m + 1)
    BY <2>4
  <2> HIDE DEF g, IsWalk
  <2> QED  BY <2>5
<1>3. \E f : IsWalk(f, n)
  <2> HIDE DEF IsWalk
  <2>1. n \in S
    <3> HIDE DEF S, n
    <3>1. n \in Nat
      BY DEF n
    <3> QED  BY <1>1, <1>2, <3>1, OneByOne
  <2> QED  BY <2>1
<1> DEFINE after == CHOOSE f : IsWalk(f, n)
<1>4. IsWalk(after, n)
  <2> HIDE DEF IsWalk
  <2> QED  BY <1>3
<1>5. Applied(b, ps, fields) = after
  BY DEF Applied
<1> HIDE DEF after
<1>6. \A k \in 0 .. n : after[k] = IF k = 0 THEN b
          ELSE IF ps[k].field \in fields THEN Patched(after[k - 1], ps[k]) ELSE after[k - 1]
  BY <1>4
<1>7. after[0] = b /\ \A k \in 1 .. n : after[k] = PatchStep(after[k - 1], ps[k], fields)
  BY <1>6 DEF PatchStep
<1> QED  BY <1>5, <1>7

(* Both walks over two lists that begin alike do. *)
LEMMA AppliedAlike ==
  ASSUME NEW b, NEW ps, NEW qs, NEW m \in Nat, Len(ps) \in Nat, Len(qs) \in Nat,
         m <= Len(ps), m <= Len(qs), \A i \in 1 .. m : ps[i] = qs[i], NEW fields
  PROVE  \A n \in 0 .. m : Applied(b, ps, fields)[n] = Applied(b, qs, fields)[n]
<1> DEFINE A == Applied(b, ps, fields)
           B == Applied(b, qs, fields)
           S == {n \in Nat : n <= m => A[n] = B[n]}
<1>1. /\ A[0] = b /\ \A n \in 1 .. Len(ps) : A[n] = PatchStep(A[n - 1], ps[n], fields)
      /\ B[0] = b /\ \A n \in 1 .. Len(qs) : B[n] = PatchStep(B[n - 1], qs[n], fields)
  BY AppliedSteps
<1> HIDE DEF A, B
<1>2. 0 \in S
  BY <1>1
<1>3. ASSUME NEW n \in Nat, n \in S PROVE n + 1 \in S
  <2>1. CASE n + 1 <= m
    <3>1. /\ n + 1 \in 1 .. Len(ps) /\ n + 1 \in 1 .. Len(qs) /\ (n + 1) - 1 = n
          /\ n + 1 \in 1 .. m /\ A[n] = B[n]
      BY <1>3, <2>1
    <3>2. /\ A[n + 1] = PatchStep(A[n], ps[n + 1], fields)
          /\ B[n + 1] = PatchStep(B[n], qs[n + 1], fields) /\ ps[n + 1] = qs[n + 1]
      BY <1>1, <3>1
    <3> QED  BY <3>1, <3>2
  <2>2. CASE ~(n + 1 <= m)
    BY <2>2
  <2> QED  BY <2>1, <2>2
<1>4. Nat \subseteq S
  <2> HIDE DEF S
  <2> QED  BY <1>2, <1>3, OneByOne
<1> QED  BY <1>4 DEF A, B

(* One patch more. *)
LEMMA AppliedAppend ==
  ASSUME NEW b, NEW ps, IsList(ps), NEW p, NEW fields
  PROVE  /\ \A n \in 0 .. Len(ps) : Applied(b, Append(ps, p), fields)[n] = Applied(b, ps, fields)[n]
         /\ p.field \in PatchField => PatchedWith(b, Append(ps, p)) = Patched(PatchedWith(b, ps), p)
<1> DEFINE qs == Append(ps, p)
<1>1. /\ Len(ps) \in Nat /\ Len(qs) = Len(ps) + 1 /\ qs[Len(ps) + 1] = p
      /\ \A i \in 1 .. Len(ps) : ps[i] = qs[i]
  BY AppendList, ListShape
<1> HIDE DEF qs
<1>2. Len(qs) \in Nat /\ Len(ps) <= Len(qs) /\ Len(qs) \in 1 .. Len(qs) /\ Len(qs) - 1 = Len(ps)
  BY <1>1
<1>3. \A f : \A n \in 0 .. Len(ps) : Applied(b, qs, f)[n] = Applied(b, ps, f)[n]
  BY <1>1, <1>2, AppliedAlike
<1>4. Applied(b, qs, PatchField)[Len(qs)] = PatchStep(Applied(b, qs, PatchField)[Len(ps)], p, PatchField)
  <2>1. \A n \in 1 .. Len(qs) :
          Applied(b, qs, PatchField)[n] = PatchStep(Applied(b, qs, PatchField)[n - 1], qs[n], PatchField)
    BY <1>2, AppliedSteps
  <2>2. qs[Len(qs)] = p
    BY <1>1
  <2> QED  BY <1>2, <2>1, <2>2
<1>5. Applied(b, qs, PatchField)[Len(ps)] = Applied(b, ps, PatchField)[Len(ps)]
  BY <1>1, <1>3
<1>6. p.field \in PatchField => PatchedWith(b, qs) = Patched(PatchedWith(b, ps), p)
  BY <1>4, <1>5 DEF PatchedWith, PatchStep
<1> QED  BY <1>3, <1>6 DEF qs

(* No patch changes nothing.                                                  *)
LEMMA NoPatches ==
  ASSUME NEW b
  PROVE  PatchedWith(b, << >>) = b
<1>1. Len(<< >>) = 0
  OBVIOUS
<1> QED  BY <1>1, AppliedSteps DEF PatchedWith

(* The patches of two lists. *)
LEMMA PatchedWithBoth ==
  ASSUME NEW b, NEW ps, IsList(ps), NEW qs, IsList(qs)
  PROVE  PatchedWith(b, ps \o qs) = PatchedWith(PatchedWith(b, ps), qs)
<1> DEFINE both == ps \o qs
           m == Len(ps)
           A == Applied(b, both, PatchField)
           B == Applied(b, ps, PatchField)
           C == Applied(B[m], qs, PatchField)
           S == {n \in Nat : n <= Len(qs) => A[m + n] = C[n]}
<1>1. /\ m \in Nat /\ Len(qs) \in Nat /\ Len(both) = m + Len(qs)
      /\ \A i \in 1 .. m : ps[i] = both[i]
      /\ \A i \in 1 .. Len(qs) : both[m + i] = qs[i]
  BY ConcatList, ListShape
<1> HIDE DEF both, m
<1>2. /\ \A n \in 1 .. Len(both) : A[n] = PatchStep(A[n - 1], both[n], PatchField)
      /\ C[0] = B[m] /\ \A n \in 1 .. Len(qs) : C[n] = PatchStep(C[n - 1], qs[n], PatchField)
  BY <1>1, AppliedSteps
<1>3. A[m] = B[m]
  <2>1. \A n \in 0 .. m : A[n] = B[n]
    <3>1. /\ Len(ps) \in Nat /\ Len(both) \in Nat /\ Len(ps) <= Len(both)
          /\ \A i \in 1 .. Len(ps) : ps[i] = both[i]
      BY <1>1 DEF m
    <3> HIDE DEF A, B, C, S
    <3>2. \A f : \A n \in 0 .. Len(ps) : Applied(b, ps, f)[n] = Applied(b, both, f)[n]
      BY <3>1, AppliedAlike
    <3>3. \A n \in 0 .. m : Applied(b, ps, PatchField)[n] = Applied(b, both, PatchField)[n]
      BY <3>2 DEF m
    <3> QED  BY <3>3 DEF A, B
  <2> QED  BY <1>1, <2>1
<1> HIDE DEF A, B, C
<1>4. 0 \in S
  BY <1>1, <1>2, <1>3
<1>5. ASSUME NEW n \in Nat, n \in S PROVE n + 1 \in S
  <2>1. CASE n + 1 <= Len(qs)
    <3>1. /\ n + 1 \in 1 .. Len(qs) /\ (n + 1) - 1 = n /\ A[m + n] = C[n]
          /\ m + (n + 1) \in 1 .. Len(both) /\ (m + (n + 1)) - 1 = m + n
      BY <1>1, <1>5, <2>1
    <3>2. /\ C[n + 1] = PatchStep(C[n], qs[n + 1], PatchField)
          /\ A[m + (n + 1)] = PatchStep(A[m + n], qs[n + 1], PatchField)
      BY <1>1, <1>2, <3>1
    <3> QED  BY <3>1, <3>2
  <2>2. CASE ~(n + 1 <= Len(qs))
    BY <2>2
  <2> QED  BY <2>1, <2>2
<1>6. Nat \subseteq S
  <2> HIDE DEF S
  <2> QED  BY <1>4, <1>5, OneByOne
<1>7. A[m + Len(qs)] = C[Len(qs)]
  BY <1>1, <1>6
<1> QED  BY <1>1, <1>7 DEF PatchedWith, A, B, C, m, both

(* A brief is its six lists, an identity and a summary, and these make one.   *)
LEMMA BriefLists ==
  ASSUME NEW b, IsBrief(b)
  PROVE  /\ b = [identity |-> b.identity, summary |-> b.summary, lists |-> b.lists]
         /\ b.lists = [f \in ListField |-> b.lists[f]]
         /\ \A f \in ListField : IsList(b.lists[f])
<1>1. \A f \in ListField : IsList(b.lists[f])
  BY SeqIsList DEF IsBrief
<1> QED  BY <1>1 DEF IsBrief

LEMMA ListsMakeBrief ==
  ASSUME NEW identity, NEW summary, NEW lists, \A f \in ListField : IsList(lists[f])
  PROVE  IsBrief([identity |-> identity, summary |-> summary, lists |-> [f \in ListField |-> lists[f]]])
<1>1. \A f \in ListField : lists[f] \in Seq(Range(lists[f]))
  BY ListIsSeq
<1> QED  BY <1>1 DEF IsBrief

(* What a patch makes of a brief: one list is new, the rest is as it was.     *)
NewList(b, p) == IF p.op = "append" THEN b.lists[p.field] \o <<ByChat(p)>> ELSE <<p.value>>
LEMMA PatchedShape ==
  ASSUME NEW b, IsBrief(b), NEW p, p.field \in PatchField
  PROVE  /\ IsBrief(Patched(b, p)) /\ Patched(b, p).identity = b.identity
         /\ Patched(b, p).summary = IF p.field = "summary" THEN p.value.text ELSE b.summary
         /\ \A f \in ListField :
              Patched(b, p).lists[f] = IF p.field = f THEN NewList(b, p) ELSE b.lists[f]
<1>1. /\ b = [identity |-> b.identity, summary |-> b.summary, lists |-> b.lists]
      /\ b.lists = [f \in ListField |-> b.lists[f]]
      /\ \A f \in ListField : IsList(b.lists[f])
  BY BriefLists
<1>2. CASE p.field = "summary"
  <2>1. "summary" \notin ListField
    BY DEF ListField
  <2>2. Patched(b, p) = [identity |-> b.identity, summary |-> p.value.text,
                         lists |-> [f \in ListField |-> b.lists[f]]]
    BY <1>1, <1>2 DEF Patched
  <2>3. IsBrief(Patched(b, p))
    BY <1>1, <2>2, ListsMakeBrief
  <2> QED  BY <1>2, <2>1, <2>2, <2>3
<1>3. CASE p.field # "summary"
  <2> DEFINE lists == [f \in ListField |-> IF p.field = f THEN NewList(b, p) ELSE b.lists[f]]
  <2>1. p.field \in ListField
    BY <1>3 DEF PatchField
  <2>2. Patched(b, p) = [identity |-> b.identity, summary |-> b.summary, lists |-> lists]
    BY <1>1, <1>3, <2>1 DEF Patched, NewList
  <2>3. IsList(NewList(b, p))
    <3>1. \A x : IsList(<<x>>)
      BY DEF IsList
    <3>2. IsList(b.lists[p.field])
      BY <1>1, <2>1
    <3> QED  BY <3>1, <3>2, ConcatList DEF NewList
  <2>4. \A f \in ListField : IsList(lists[f])
    BY <1>1, <2>3
  <2> HIDE DEF lists
  <2>5. IsBrief([identity |-> b.identity, summary |-> b.summary, lists |-> [f \in ListField |-> lists[f]]])
    BY <2>4, ListsMakeBrief
  <2> USE DEF lists
  <2>6. IsBrief(Patched(b, p))
    BY <2>2, <2>5
  <2> QED  BY <1>3, <2>2, <2>6
<1> QED  BY <1>2, <1>3

(* So every patch of a list leaves a brief.                                   *)
LEMMA AppliedIsBrief ==
  ASSUME NEW b, IsBrief(b), NEW ps, Len(ps) \in Nat, NEW fields, fields \subseteq PatchField
  PROVE  \A n \in 0 .. Len(ps) : IsBrief(Applied(b, ps, fields)[n])
<1> DEFINE A == Applied(b, ps, fields)
           S == {n \in Nat : n <= Len(ps) => IsBrief(A[n])}
<1>1. A[0] = b /\ \A n \in 1 .. Len(ps) : A[n] = PatchStep(A[n - 1], ps[n], fields)
  BY AppliedSteps
<1> HIDE DEF A
<1>2. 0 \in S
  BY <1>1
<1>3. ASSUME NEW n \in Nat, n \in S PROVE n + 1 \in S
  <2>1. CASE n + 1 <= Len(ps)
    <3>1. n + 1 \in 1 .. Len(ps) /\ (n + 1) - 1 = n /\ IsBrief(A[n])
      BY <1>3, <2>1
    <3>2. IsBrief(PatchStep(A[n], ps[n + 1], fields))
      BY <3>1, PatchedShape DEF PatchStep
    <3> QED  BY <1>1, <3>1, <3>2
  <2>2. CASE ~(n + 1 <= Len(ps))
    BY <2>2
  <2> QED  BY <2>1, <2>2
<1>4. Nat \subseteq S
  <2> HIDE DEF S
  <2> QED  BY <1>2, <1>3, OneByOne
<1> QED  BY <1>4 DEF A

LEMMA PatchedWithIsBrief ==
  ASSUME NEW b, IsBrief(b), NEW ps, Len(ps) \in Nat
  PROVE  IsBrief(PatchedWith(b, ps))
<1>1. Len(ps) \in 0 .. Len(ps)
  OBVIOUS
<1> QED  BY <1>1, AppliedIsBrief DEF PatchedWith

(* The patches that append the items of a list, and what the first n make of  *)
(* a brief.                                                                   *)
Appends(f, s) == [i \in 1 .. Len(s) |-> Patch("append", f, s[i])]
Grown(b, r, f, s, n) ==
  /\ IsBrief(r) /\ r.identity = b.identity /\ r.summary = b.summary
  /\ \A g \in ListField \ {f} : r.lists[g] = b.lists[g]
  /\ Len(r.lists[f]) = Len(b.lists[f]) + n
  /\ \A i \in 1 .. Len(b.lists[f]) : r.lists[f][i] = b.lists[f][i]
  /\ \A i \in 1 .. n : r.lists[f][Len(b.lists[f]) + i] = ByChat(Patch("append", f, s[i]))

(* One item more of a list that grows.                                        *)
LEMMA GrownStep ==
  ASSUME NEW b, IsBrief(b), NEW f \in ListField, NEW s, NEW n \in Nat, NEW r, Grown(b, r, f, s, n)
  PROVE  Grown(b, Patched(r, Patch("append", f, s[n + 1])), f, s, n + 1)
<1> DEFINE p == Patch("append", f, s[n + 1])
           q == Patched(r, p)
           one == <<ByChat(p)>>
           k == Len(b.lists[f])
           old == r.lists[f]
           new == q.lists[f]
<1>1. p.field = f /\ p.op = "append" /\ f \in PatchField /\ f # "summary"
  BY DEF Patch, PatchField, ListField
<1> HIDE DEF p
<1>2. /\ IsBrief(q) /\ q.identity = r.identity /\ q.summary = r.summary
      /\ new = old \o one
      /\ \A g \in ListField \ {f} : q.lists[g] = r.lists[g]
  <2>1. IsBrief(r)
    BY DEF Grown
  <2>2. /\ IsBrief(q) /\ q.identity = r.identity /\ q.summary = r.summary
        /\ \A g \in ListField : q.lists[g] = IF f = g THEN NewList(r, p) ELSE r.lists[g]
    BY <1>1, <2>1, PatchedShape
  <2>3. NewList(r, p) = old \o one
    BY <1>1 DEF NewList
  <2> QED  BY <2>2, <2>3
<1>3. IsList(old) /\ IsList(one) /\ Len(one) = 1 /\ one[1] = ByChat(p) /\ k \in Nat
  <2>1. IsList(old)
    BY BriefLists DEF Grown
  <2>2. IsList(b.lists[f])
    BY BriefLists
  <2> QED  BY <2>1, <2>2 DEF IsList
<1>4. Len(old) = k + n
  BY DEF Grown
<1> HIDE DEF q, one, k, new
<1>5. /\ Len(new) = (k + n) + 1 /\ new[(k + n) + 1] = ByChat(p)
      /\ \A i \in 1 .. k + n : new[i] = old[i]
  <2>1. 1 \in 1 .. Len(one)
    BY <1>3
  <2>2. /\ Len(old \o one) = Len(old) + Len(one)
        /\ \A i \in 1 .. Len(old) : (old \o one)[i] = old[i]
        /\ \A i \in 1 .. Len(one) : (old \o one)[Len(old) + i] = one[i]
    <3> HIDE DEF old
    <3>1. IsList(old) /\ IsList(one)
      BY <1>3
    <3> QED  BY <3>1, ConcatList
  <2> QED  BY <1>2, <1>3, <1>4, <2>1, <2>2
<1>6. \A i \in 1 .. k : new[i] = b.lists[f][i]
  <2>1. \A i \in 1 .. k : i \in 1 .. k + n /\ old[i] = b.lists[f][i]
    BY <1>3 DEF Grown, k
  <2> QED  BY <1>5, <2>1
<1>7. \A i \in 1 .. n + 1 : new[k + i] = ByChat(Patch("append", f, s[i]))
  <2> TAKE i \in 1 .. n + 1
  <2>1. CASE i = n + 1
    <3>1. k + i = (k + n) + 1
      BY <1>3, <2>1
    <3> QED  BY <1>5, <2>1, <3>1 DEF p
  <2>2. CASE i # n + 1
    <3>1. i \in 1 .. n /\ k + i \in 1 .. k + n
      BY <1>3, <2>2
    <3>2. old[k + i] = ByChat(Patch("append", f, s[i]))
      BY <3>1 DEF Grown, k
    <3> QED  BY <1>5, <3>1, <3>2
  <2> QED  BY <2>1, <2>2
<1>8. Len(new) = k + (n + 1)
  BY <1>3, <1>5
<1>9. /\ IsBrief(q) /\ q.identity = b.identity /\ q.summary = b.summary
      /\ \A g \in ListField \ {f} : q.lists[g] = b.lists[g]
  BY <1>2 DEF Grown
<1> QED  BY <1>6, <1>7, <1>8, <1>9 DEF Grown, new, q, k, p

(* The patches of one list add its items, and touch nothing else.             *)
LEMMA AppendsGrow ==
  ASSUME NEW b, IsBrief(b), NEW f \in ListField, NEW s, Len(s) \in Nat
  PROVE  Grown(b, PatchedWith(b, Appends(f, s)), f, s, Len(s))
<1> DEFINE ps == Appends(f, s)
           A == Applied(b, ps, PatchField)
           S == {n \in Nat : n <= Len(s) => Grown(b, A[n], f, s, n)}
<1>1. /\ IsList(ps) /\ Len(ps) = Len(s) /\ \A i \in 1 .. Len(s) : ps[i] = Patch("append", f, s[i])
  BY DEF Appends, IsList
<1> HIDE DEF ps
<1>2. A[0] = b /\ \A n \in 1 .. Len(s) : A[n] = PatchStep(A[n - 1], ps[n], PatchField)
  BY <1>1, AppliedSteps
<1> HIDE DEF A
<1>3. 0 \in S
  <2>1. Len(b.lists[f]) \in Nat
    BY BriefLists, ListShape
  <2>2. Grown(b, b, f, s, 0)
    BY <2>1 DEF Grown
  <2> QED  BY <1>2, <2>2
<1>4. ASSUME NEW n \in Nat, n \in S PROVE n + 1 \in S
  <2>1. CASE n + 1 <= Len(s)
    <3>1. n + 1 \in 1 .. Len(s) /\ (n + 1) - 1 = n /\ Grown(b, A[n], f, s, n)
      BY <1>4, <2>1
    <3>2. Grown(b, Patched(A[n], ps[n + 1]), f, s, n + 1)
      BY <1>1, <3>1, GrownStep
    <3>3. A[n + 1] = Patched(A[n], ps[n + 1])
      <4>1. ps[n + 1].field = f
        <5>1. ps[n + 1] = Patch("append", f, s[n + 1])
          BY <1>1, <3>1
        <5> QED  BY <5>1 DEF Patch
      <4>2. A[n + 1] = PatchStep(A[n], ps[n + 1], PatchField)
        BY <1>2, <3>1
      <4> QED  BY <4>1, <4>2 DEF PatchStep, PatchField
    <3> QED  BY <3>2, <3>3
  <2>2. CASE ~(n + 1 <= Len(s))
    BY <2>2
  <2> QED  BY <2>1, <2>2
<1>5. Nat \subseteq S
  <2> HIDE DEF S
  <2> QED  BY <1>3, <1>4, OneByOne
<1>6. Grown(b, A[Len(s)], f, s, Len(s))
  BY <1>5
<1> QED  BY <1>1, <1>6 DEF PatchedWith, A, ps

(* What is built of a brief when the lists of F have been extended.           *)
Beyond(base, to, f) ==
  [i \in 1 .. (Len(to.lists[f]) - Len(base.lists[f])) |-> to.lists[f][Len(base.lists[f]) + i]]
Signed(base, to, f, i) ==
  IF f = "extensions" /\ i > Len(base.lists[f]) THEN [to.lists[f][i] EXCEPT !.from = "chat"]
  ELSE to.lists[f][i]
Built(base, to, r, F) ==
  /\ IsBrief(r) /\ r.identity = base.identity /\ r.summary = to.summary
  /\ \A g \in ListField \ F : r.lists[g] = base.lists[g]
  /\ \A g \in F : /\ Len(r.lists[g]) = Len(to.lists[g])
                  /\ \A i \in 1 .. Len(to.lists[g]) : r.lists[g][i] = Signed(base, to, g, i)

(* What a list that is kept starts with.                                      *)
LEMMA PrefixKept ==
  ASSUME NEW base, IsBrief(base), NEW to, IsBrief(to), KeepsPrefixes(base, to), NEW f \in ListField
  PROVE  /\ Len(base.lists[f]) \in Nat /\ Len(to.lists[f]) \in Nat
         /\ Len(base.lists[f]) <= Len(to.lists[f])
         /\ \A i \in 1 .. Len(base.lists[f]) : base.lists[f][i] = to.lists[f][i]
<1> DEFINE s == base.lists[f]
           t == to.lists[f]
<1>1. IsList(s) /\ IsList(t)
  BY BriefLists
<1>2. IsPrefix(s, t)
  BY DEF KeepsPrefixes
<1> HIDE DEF s, t
<1>3. s \in Seq(Range(s)) /\ t \in Seq(Range(t)) /\ Len(s) \in Nat /\ Len(t) \in Nat
  BY <1>1, ListIsSeq, ListShape
<1>4. Len(s) <= Len(t) /\ SubSeq(s, 1, Len(s)) = SubSeq(t, 1, Len(s))
  BY <1>2, <1>3 DEF IsPrefix
<1>5. \A i \in 1 .. Len(s) : SubSeq(s, 1, Len(s))[i] = s[i] /\ SubSeq(t, 1, Len(s))[i] = t[i]
  BY <1>3, <1>4
<1> QED  BY <1>3, <1>4, <1>5 DEF s, t

(* One list more that is built.                                               *)
LEMMA BuiltStep ==
  ASSUME NEW base, IsBrief(base), NEW to, IsBrief(to), KeepsPrefixes(base, to),
         NEW F, F \subseteq ListField, NEW f \in ListField \ F, NEW r, Built(base, to, r, F)
  PROVE  Built(base, to, PatchedWith(r, Appends(f, Beyond(base, to, f))), F \cup {f})
<1> DEFINE s == Beyond(base, to, f)
           q == PatchedWith(r, Appends(f, s))
           k == Len(base.lists[f])
           n == Len(to.lists[f])
<1>1. /\ k \in Nat /\ n \in Nat /\ k <= n
      /\ \A i \in 1 .. k : base.lists[f][i] = to.lists[f][i]
  BY PrefixKept
<1>2. Len(s) = n - k /\ \A i \in 1 .. (n - k) : s[i] = to.lists[f][k + i]
  BY <1>1 DEF Beyond
<1>3. r.lists[f] = base.lists[f]
  BY DEF Built
<1> HIDE DEF s
<1>4. Grown(r, q, f, s, n - k)
  <2>1. Len(s) \in Nat /\ IsBrief(r) /\ f \in ListField
    BY <1>1, <1>2 DEF Built
  <2> QED  BY <1>2, <2>1, AppendsGrow
<1> HIDE DEF q, k, n
<1>5. /\ IsBrief(q) /\ q.identity = base.identity /\ q.summary = to.summary
      /\ \A g \in ListField \ {f} : q.lists[g] = r.lists[g]
  BY <1>4 DEF Grown, Built
<1>6. Len(q.lists[f]) = n
  BY <1>1, <1>3, <1>4 DEF Grown, k
<1>7. \A i \in 1 .. n : q.lists[f][i] = Signed(base, to, f, i)
  <2> TAKE i \in 1 .. n
  <2>1. CASE i <= k
    <3>1. i \in 1 .. k
      BY <1>1, <2>1
    <3>2. q.lists[f][i] = base.lists[f][i]
      BY <1>3, <1>4, <3>1 DEF Grown, k
    <3> QED  BY <1>1, <3>1, <3>2 DEF Signed, k
  <2>2. CASE ~(i <= k)
    <3>1. i - k \in 1 .. (n - k) /\ k + (i - k) = i
      BY <1>1, <2>2
    <3>2. q.lists[f][i] = ByChat(Patch("append", f, s[i - k]))
      BY <1>3, <1>4, <3>1 DEF Grown, k
    <3>3. s[i - k] = to.lists[f][i]
      BY <1>2, <3>1
    <3>4. i > k
      BY <1>1, <2>2
    <3>5. ByChat(Patch("append", f, to.lists[f][i])) = Signed(base, to, f, i)
      BY <3>4 DEF ByChat, Patch, Signed, k
    <3> QED  BY <3>2, <3>3, <3>5
  <2> QED  BY <2>1, <2>2
<1>8. \A g \in F : g \in ListField \ {f} /\ q.lists[g] = r.lists[g]
  BY <1>5
<1> QED  BY <1>5, <1>6, <1>7, <1>8 DEF Built, q, s, n

(* With every list built, the brief is the one intended but for signatures.   *)
LEMMA BuiltIsUnsigned ==
  ASSUME NEW base, IsBrief(base), NEW to, IsBrief(to), KeepsPrefixes(base, to),
         to.identity = base.identity, NEW r, Built(base, to, r, ListField)
  PROVE  Unsigned(r) = Unsigned(to)
<1> DEFINE Blank(s) == [i \in DOMAIN s |-> [s[i] EXCEPT !.from = "any"]]
           Lists(b) == [f \in ListField |-> IF f = "extensions" THEN Blank(b.lists[f]) ELSE b.lists[f]]
<1>1. \A b : IsBrief(b) => Unsigned(b) = [identity |-> b.identity, summary |-> b.summary, lists |-> Lists(b)]
  <2> TAKE b
  <2> HAVE IsBrief(b)
  <2>1. "extensions" \in ListField
    BY DEF ListField
  <2>2. /\ b = [identity |-> b.identity, summary |-> b.summary, lists |-> b.lists]
        /\ b.lists = [f \in ListField |-> b.lists[f]]
    BY BriefLists
  <2>3. Unsigned(b) = [b EXCEPT !.lists["extensions"] = Blank(@)]
    BY DEF Unsigned, Each
  <2> HIDE DEF Blank
  <2>4. [b EXCEPT !.lists["extensions"] = Blank(@)]
          = [identity |-> b.identity, summary |-> b.summary,
             lists |-> [b.lists EXCEPT !["extensions"] = Blank(b.lists["extensions"])]]
    BY <2>2
  <2>5. [b.lists EXCEPT !["extensions"] = Blank(b.lists["extensions"])] = Lists(b)
    BY <2>1, <2>2
  <2> QED  BY <2>3, <2>4, <2>5
<1>2. \A f \in ListField : /\ IsList(r.lists[f]) /\ IsList(to.lists[f])
                           /\ Len(r.lists[f]) = Len(to.lists[f])
  BY BriefLists DEF Built
<1>3. \A f \in ListField : f # "extensions" => r.lists[f] = to.lists[f]
  <2> TAKE f \in ListField
  <2> HAVE f # "extensions"
  <2>1. \A i \in 1 .. Len(to.lists[f]) : r.lists[f][i] = to.lists[f][i]
    BY DEF Built, Signed
  <2> QED  BY <1>2, <2>1 DEF IsList
<1>4. Blank(r.lists["extensions"]) = Blank(to.lists["extensions"])
  <2> DEFINE s == r.lists["extensions"]
             t == to.lists["extensions"]
  <2>0. "extensions" \in ListField
    BY DEF ListField
  <2>1. DOMAIN s = 1 .. Len(t) /\ DOMAIN t = 1 .. Len(t)
    BY <1>2, <2>0, ListShape
  <2>2. \A i \in 1 .. Len(t) : s[i] = t[i] \/ s[i] = [t[i] EXCEPT !.from = "chat"]
    BY <2>0 DEF Built, Signed
  <2>3. \A x : [[x EXCEPT !.from = "chat"] EXCEPT !.from = "any"] = [x EXCEPT !.from = "any"]
    OBVIOUS
  <2> HIDE DEF s, t
  <2>4. \A i \in 1 .. Len(t) : [s[i] EXCEPT !.from = "any"] = [t[i] EXCEPT !.from = "any"]
    BY <2>2, <2>3
  <2>5. Blank(s) = Blank(t)
    BY <2>1, <2>4
  <2> QED  BY <2>5 DEF s, t
<1> HIDE DEF Blank
<1>5. Lists(r) = Lists(to)
  BY <1>3, <1>4
<1>6. r.identity = to.identity /\ r.summary = to.summary /\ IsBrief(r)
  BY DEF Built
<1> HIDE DEF Lists
<1> QED  BY <1>1, <1>5, <1>6

(* The patches between two briefs make the second of the first, whenever the  *)
(* first was only added to.                                                   *)
LEMMA PatchesRebuild ==
  ASSUME NEW base, IsBrief(base), NEW to, IsBrief(to), KeepsPrefixes(base, to),
         to.identity = base.identity
  PROVE  /\ Unsigned(PatchedWith(base, PatchesFromWholeBrief(base, to))) = Unsigned(to)
         /\ IsList(PatchesFromWholeBrief(base, to))
<1> DEFINE p0 == IF to.summary = base.summary THEN << >> ELSE <<Patch("set", "summary", Text(to.summary))>>
           a(f) == Appends(f, Beyond(base, to, f))
           p1 == p0 \o a("signals")
           p2 == p1 \o a("initiatives")
           p3 == p2 \o a("personas")
           p4 == p3 \o a("risks")
           p5 == p4 \o a("sources")
           p6 == p5 \o a("extensions")
           r(ps) == PatchedWith(base, ps)
<1>1. \A f \in ListField : /\ Len(Beyond(base, to, f)) = Len(to.lists[f]) - Len(base.lists[f])
                           /\ IsList(a(f))
  <2> TAKE f \in ListField
  <2>1. Len(to.lists[f]) - Len(base.lists[f]) \in Nat
    BY PrefixKept
  <2>2. Len(Beyond(base, to, f)) = Len(to.lists[f]) - Len(base.lists[f])
    BY <2>1 DEF Beyond
  <2>3. Len(Beyond(base, to, f)) \in Nat
    BY <2>1, <2>2
  <2>4. \A s : Len(s) \in Nat => IsList(Appends(f, s))
    BY DEF Appends, IsList
  <2> QED  BY <2>2, <2>3, <2>4
<1>2. PatchesFromWholeBrief(base, to) = p6
  <2> DEFINE d(f) == Len(to.lists[f]) - Len(base.lists[f])
             added(f) == [i \in 1 .. d(f) |-> Patch("append", f, to.lists[f][Len(base.lists[f]) + i])]
  <2>1. \A f \in ListField : added(f) = a(f)
    <3> TAKE f \in ListField
    <3>1. \A i \in 1 .. d(f) : Beyond(base, to, f)[i] = to.lists[f][Len(base.lists[f]) + i]
      BY DEF Beyond
    <3> QED  BY <1>1, <3>1 DEF Appends
  <2>2. PatchesFromWholeBrief(base, to)
          = p0 \o added("signals") \o added("initiatives") \o added("personas")
               \o added("risks") \o added("sources") \o added("extensions")
    BY DEF PatchesFromWholeBrief
  <2> HIDE DEF added, a, p0
  <2>3. /\ added("signals") = a("signals") /\ added("initiatives") = a("initiatives")
        /\ added("personas") = a("personas") /\ added("risks") = a("risks")
        /\ added("sources") = a("sources") /\ added("extensions") = a("extensions")
    BY <2>1 DEF ListField
  <2> QED  BY <2>2, <2>3
<1>3. IsList(p0) /\ Built(base, to, r(p0), {})
  <2>1. CASE to.summary = base.summary
    <3>1. p0 = << >> /\ IsList(p0)
      BY <2>1 DEF IsList
    <3>2. r(p0) = base
      BY <3>1, NoPatches
    <3> HIDE DEF p0, r
    <3> QED  BY <2>1, <3>1, <3>2 DEF Built
  <2>2. CASE to.summary # base.summary
    <3> DEFINE p == Patch("set", "summary", Text(to.summary))
    <3>1. p.field = "summary" /\ p.value.text = to.summary
      BY DEF Patch, Text
    <3> HIDE DEF p
    <3>2. p0 = <<p>> /\ <<p>> = Append(<< >>, p) /\ IsList(<< >>) /\ IsList(<<p>>)
      BY <2>2 DEF p, IsList
    <3>3. p.field \in PatchField
      BY <3>1 DEF PatchField
    <3>4. PatchedWith(base, Append(<< >>, p)) = Patched(base, p)
      <4>1. PatchedWith(base, Append(<< >>, p)) = Patched(PatchedWith(base, << >>), p)
        <5> DEFINE none == << >>
        <5>1. IsList(none)
          BY DEF IsList
        <5> HIDE DEF none
        <5>2. PatchedWith(base, Append(none, p)) = Patched(PatchedWith(base, none), p)
          BY <3>3, <5>1, AppliedAppend
        <5> QED  BY <5>2 DEF none
      <4> QED  BY <4>1, NoPatches
    <3>5. r(p0) = Patched(base, p)
      BY <3>2, <3>4
    <3>6. "summary" \notin ListField
      BY DEF ListField
    <3> HIDE DEF p0, r
    <3>7. /\ IsBrief(r(p0)) /\ r(p0).identity = base.identity /\ r(p0).summary = to.summary
          /\ \A f \in ListField : r(p0).lists[f] = base.lists[f]
      BY <3>1, <3>3, <3>5, <3>6, PatchedShape
    <3> QED  BY <3>2, <3>7 DEF Built
  <2> QED  BY <2>1, <2>2
<1> HIDE DEF p0, a
<1>4. ASSUME NEW ps, IsList(ps), NEW F, F \subseteq ListField, Built(base, to, r(ps), F),
             NEW f \in ListField \ F
      PROVE  IsList(ps \o a(f)) /\ Built(base, to, r(ps \o a(f)), F \cup {f})
  <2>1. IsList(a(f))
    BY <1>1
  <2>2. r(ps \o a(f)) = PatchedWith(r(ps), a(f))
    BY <1>4, <2>1, PatchedWithBoth
  <2>3. Built(base, to, PatchedWith(r(ps), a(f)), F \cup {f})
    <3> HIDE DEF r
    <3> QED  BY <1>4, BuiltStep DEF a
  <2> QED  BY <1>4, <2>1, <2>2, <2>3, ConcatList
<1> HIDE DEF r
<1>5. IsList(p1) /\ Built(base, to, r(p1), {"signals"})
  <2>1. "signals" \in ListField \ {} /\ {} \cup {"signals"} = {"signals"} /\ {} \subseteq ListField
    BY DEF ListField
  <2> QED  BY <1>3, <1>4, <2>1
<1> HIDE DEF p1
<1>6. IsList(p2) /\ Built(base, to, r(p2), {"signals", "initiatives"})
  <2> DEFINE F == {"signals"}
  <2>1. "initiatives" \in ListField \ F /\ F \cup {"initiatives"} = {"signals", "initiatives"} /\ F \subseteq ListField
    BY DEF ListField
  <2> QED  BY <1>4, <1>5, <2>1
<1> HIDE DEF p2
<1>7. IsList(p3) /\ Built(base, to, r(p3), {"signals", "initiatives", "personas"})
  <2> DEFINE F == {"signals", "initiatives"}
  <2>1. "personas" \in ListField \ F /\ F \cup {"personas"} = {"signals", "initiatives", "personas"} /\ F \subseteq ListField
    BY DEF ListField
  <2> QED  BY <1>4, <1>6, <2>1
<1> HIDE DEF p3
<1>8. IsList(p4) /\ Built(base, to, r(p4), {"signals", "initiatives", "personas", "risks"})
  <2> DEFINE F == {"signals", "initiatives", "personas"}
  <2>1. "risks" \in ListField \ F /\ F \cup {"risks"} = {"signals", "initiatives", "personas", "risks"} /\ F \subseteq ListField
    BY DEF ListField
  <2> QED  BY <1>4, <1>7, <2>1
<1> HIDE DEF p4
<1>9. IsList(p5) /\ Built(base, to, r(p5), ListField \ {"extensions"})
  <2> DEFINE F == {"signals", "initiatives", "personas", "risks"}
  <2>1. "sources" \in ListField \ F /\ F \cup {"sources"} = ListField \ {"extensions"} /\ F \subseteq ListField
    BY DEF ListField
  <2> QED  BY <1>4, <1>8, <2>1
<1> HIDE DEF p5
<1>10. IsList(p6) /\ Built(base, to, r(p6), ListField)
  <2> DEFINE F == ListField \ {"extensions"}
  <2>1. "extensions" \in ListField \ F /\ F \cup {"extensions"} = ListField /\ F \subseteq ListField
    BY DEF ListField
  <2> QED  BY <1>4, <1>9, <2>1
<1>11. Unsigned(r(p6)) = Unsigned(to)
  <2> HIDE DEF p6
  <2> QED  BY <1>10, BuiltIsUnsigned
<1> QED  BY <1>2, <1>10, <1>11 DEF r

(* Items taken from a list are a list.                                        *)
LEMMA ItemsAtIsList ==
  ASSUME NEW s, IsList(s), NEW places
  PROVE  IsList(ItemsAt(s, places))
<1> DEFINE IsWalk(f, n) ==
             f = [k \in 0 .. n |-> IF k = 0 THEN << >>
                    ELSE IF k \in places THEN Append(f[k - 1], s[k]) ELSE f[k - 1]]
           S == {n \in Nat : \E f : IsWalk(f, n)}
           n == Len(s)
           Kept(l, k) == IF k \in places THEN Append(l, s[k]) ELSE l
<1>0. n \in Nat
  BY ListShape
<1>1. 0 \in S
  <2> DEFINE f == [k \in 0 .. 0 |-> << >>]
  <2>1. IsWalk(f, 0)
    OBVIOUS
  <2> HIDE DEF f, IsWalk
  <2> QED  BY <2>1
<1>2. ASSUME NEW m \in Nat, m \in S PROVE m + 1 \in S
  <2>1. PICK f : IsWalk(f, m)
    BY <1>2
  <2> DEFINE g == [k \in 0 .. m + 1 |-> IF k = m + 1 THEN Kept(f[m], k) ELSE f[k]]
  <2>2. \A k \in 0 .. m : g[k] = f[k]
    OBVIOUS
  <2>3. g[m + 1] = Kept(f[m], m + 1) /\ (m + 1) - 1 = m /\ m \in 0 .. m
    OBVIOUS
  <2>4. \A k \in 0 .. m + 1 : g[k] = IF k = 0 THEN << >>
            ELSE IF k \in places THEN Append(g[k - 1], s[k]) ELSE g[k - 1]
    <3> TAKE k \in 0 .. m + 1
    <3>1. CASE k = m + 1
      BY <2>2, <2>3, <3>1
    <3>2. CASE k \in 0 .. m
      <4>1. f[k] = IF k = 0 THEN << >>
              ELSE IF k \in places THEN Append(f[k - 1], s[k]) ELSE f[k - 1]
        BY <2>1, <3>2
      <4>2. k # 0 => k - 1 \in 0 .. m
        BY <3>2
      <4> HIDE DEF g
      <4> QED  BY <2>2, <3>2, <4>1, <4>2
    <3> QED  BY <3>1, <3>2
  <2>5. IsWalk(g, m + 1)
    BY <2>4
  <2> HIDE DEF g, IsWalk
  <2> QED  BY <2>5
<1>3. \E f : IsWalk(f, n)
  <2> HIDE DEF IsWalk
  <2>1. n \in S
    <3> HIDE DEF S, n
    <3> QED  BY <1>0, <1>1, <1>2, OneByOne
  <2> QED  BY <2>1
<1> DEFINE kept == CHOOSE f : IsWalk(f, n)
<1>4. IsWalk(kept, n)
  <2> HIDE DEF IsWalk
  <2> QED  BY <1>3
<1>5. ItemsAt(s, places) = kept[n]
  BY DEF ItemsAt
<1> HIDE DEF kept
<1>6. kept[0] = << >> /\ \A k \in 1 .. n : kept[k] = Kept(kept[k - 1], k)
  <2>1. \A k \in 0 .. n : kept[k] = IF k = 0 THEN << >>
            ELSE IF k \in places THEN Append(kept[k - 1], s[k]) ELSE kept[k - 1]
    BY <1>4
  <2> QED  BY <1>0, <2>1
<1> DEFINE T == {k \in Nat : k <= n => IsList(kept[k])}
<1>7. 0 \in T
  BY <1>6 DEF IsList
<1>8. ASSUME NEW k \in Nat, k \in T PROVE k + 1 \in T
  <2>1. CASE k + 1 <= n
    <3>1. k + 1 \in 1 .. n /\ (k + 1) - 1 = k /\ IsList(kept[k])
      BY <1>0, <1>8, <2>1
    <3>2. IsList(Kept(kept[k], k + 1))
      BY <3>1, AppendList
    <3>3. IsList(kept[k + 1])
      BY <1>6, <3>1, <3>2
    <3> QED  BY <3>3
  <2>2. CASE ~(k + 1 <= n)
    BY <2>2
  <2> QED  BY <2>1, <2>2
<1>9. n \in T
  <2> HIDE DEF T, n
  <2> QED  BY <1>0, <1>7, <1>8, OneByOne
<1> QED  BY <1>0, <1>5, <1>9

(* The merge of two briefs is one.                                            *)
LEMMA MergeIsBrief ==
  ASSUME NEW prev, IsBrief(prev), NEW next, IsBrief(next)
  PROVE  IsBrief(MergeBriefs(prev, next)) /\ MergeBriefs(prev, next).identity = next.identity
<1> DEFINE m(f) == MergedList(f, prev.lists[f], next.lists[f])
<1>1. ASSUME NEW f \in ListField PROVE IsList(m(f))
  <2> DEFINE old == prev.lists[f]
             new == next.lists[f]
             late == Retained(f, old, new)
  <2>1. IsList(old) /\ IsList(new)
    BY BriefLists
  <2> HIDE DEF old, new
  <2>2. IsList(late)
    BY <2>1, ItemsAtIsList DEF Retained
  <2>3. \A g, s : IsList(s) => IsList(Firsts(g, s))
    BY ItemsAtIsList DEF Firsts
  <2> HIDE DEF late
  <2>4. CASE f \in {"signals", "initiatives"}
    <3>1. MergedList(f, old, new) = new \o [i \in DOMAIN late |-> MarkPreviouslyFound(late[i])]
      BY <2>4 DEF MergedList, Each, late
    <3>2. IsList([i \in DOMAIN late |-> MarkPreviouslyFound(late[i])])
      BY <2>2 DEF IsList
    <3> QED  BY <2>1, <3>1, <3>2, ConcatList DEF old, new
  <2>5. CASE f \in {"personas", "extensions"}
    <3>1. MergedList(f, old, new) = new \o [i \in DOMAIN late |-> UnlessChat(late[i])]
      BY <2>5 DEF MergedList, Each, late
    <3>2. IsList([i \in DOMAIN late |-> UnlessChat(late[i])])
      BY <2>2 DEF IsList
    <3> QED  BY <2>1, <3>1, <3>2, ConcatList DEF old, new
  <2>6. CASE f = "risks"
    <3>1. MergedList(f, old, new) = Firsts(f, new \o old)
      BY <2>6 DEF MergedList
    <3> QED  BY <2>1, <2>3, <3>1, ConcatList DEF old, new
  <2>7. CASE f = "sources"
    <3> DEFINE both == old \o new
               first == Firsts(f, both)
    <3>1. MergedList(f, old, new) = [i \in DOMAIN first |-> both[LastItem(f, both, first[i])]]
      BY <2>7 DEF MergedList, Each
    <3>2. IsList(first)
      BY <2>1, <2>3, ConcatList
    <3> HIDE DEF first, both
    <3>3. IsList([i \in DOMAIN first |-> both[LastItem(f, both, first[i])]])
      BY <3>2 DEF IsList
    <3> QED  BY <3>1, <3>3 DEF old, new
  <2> QED  BY <2>4, <2>5, <2>6, <2>7 DEF ListField
<1> HIDE DEF m
<1>2. IsBrief([identity |-> next.identity, summary |-> next.summary, lists |-> [f \in ListField |-> m(f)]])
  <2> DEFINE lists == [f \in ListField |-> m(f)]
  <2>1. \A f \in ListField : IsList(lists[f])
    BY <1>1
  <2> HIDE DEF lists
  <2>2. IsBrief([identity |-> next.identity, summary |-> next.summary, lists |-> [f \in ListField |-> lists[f]]])
    BY <2>1, ListsMakeBrief
  <2>3. [f \in ListField |-> lists[f]] = lists
    BY DEF lists
  <2> QED  BY <2>2, <2>3 DEF lists
<1>3. next = [identity |-> next.identity, summary |-> next.summary, lists |-> next.lists]
  BY BriefLists
<1>4. MergeBriefs(prev, next)
        = [identity |-> next.identity, summary |-> next.summary, lists |-> [f \in ListField |-> m(f)]]
  BY <1>3 DEF MergeBriefs, m
<1> QED  BY <1>2, <1>4

(* A list is the same whichever other fields were patched.                    *)
LEMMA OneField ==
  ASSUME NEW b, IsBrief(b), NEW ps, Len(ps) \in Nat, NEW f \in ListField
  PROVE  \A n \in 0 .. Len(ps) :
           Applied(b, ps, {f})[n].lists[f] = Applied(b, ps, PatchField)[n].lists[f]
<1> DEFINE A == Applied(b, ps, {f})
           B == Applied(b, ps, PatchField)
           S == {n \in Nat : n <= Len(ps) => A[n].lists[f] = B[n].lists[f]}
<1>1. /\ A[0] = b /\ \A n \in 1 .. Len(ps) : A[n] = PatchStep(A[n - 1], ps[n], {f})
      /\ B[0] = b /\ \A n \in 1 .. Len(ps) : B[n] = PatchStep(B[n - 1], ps[n], PatchField)
  BY AppliedSteps
<1>2. \A n \in 0 .. Len(ps) : IsBrief(A[n]) /\ IsBrief(B[n])
  <2>1. {f} \subseteq PatchField
    BY DEF PatchField
  <2> QED  BY <2>1, AppliedIsBrief
<1> HIDE DEF A, B
<1>3. 0 \in S
  BY <1>1
<1>4. ASSUME NEW n \in Nat, n \in S PROVE n + 1 \in S
  <2>1. CASE n + 1 <= Len(ps)
    <3> DEFINE p == ps[n + 1]
    <3>1. /\ n + 1 \in 1 .. Len(ps) /\ (n + 1) - 1 = n /\ n \in 0 .. Len(ps)
          /\ A[n].lists[f] = B[n].lists[f]
      BY <1>4, <2>1
    <3>2. A[n + 1] = PatchStep(A[n], p, {f}) /\ B[n + 1] = PatchStep(B[n], p, PatchField)
      BY <1>1, <3>1
    <3>3. IsBrief(A[n]) /\ IsBrief(B[n])
      BY <1>2, <3>1
    <3> HIDE DEF p
    <3>4. CASE p.field = f
      <4>1. p.field \in PatchField /\ p.field \in {f}
        BY <3>4 DEF PatchField
      <4>2. A[n + 1] = Patched(A[n], p) /\ B[n + 1] = Patched(B[n], p)
        BY <3>2, <4>1 DEF PatchStep
      <4>3. Patched(A[n], p).lists[f] = NewList(A[n], p) /\ Patched(B[n], p).lists[f] = NewList(B[n], p)
        BY <3>3, <3>4, <4>1, PatchedShape
      <4>4. NewList(A[n], p) = NewList(B[n], p)
        BY <3>1, <3>4 DEF NewList
      <4> QED  BY <4>2, <4>3, <4>4
    <3>5. CASE p.field # f
      <4>1. A[n + 1] = A[n]
        BY <3>2, <3>5 DEF PatchStep
      <4>2. B[n + 1].lists[f] = B[n].lists[f]
        BY <3>2, <3>3, <3>5, PatchedShape DEF PatchStep
      <4> QED  BY <3>1, <4>1, <4>2
    <3> QED  BY <3>4, <3>5
  <2>2. CASE ~(n + 1 <= Len(ps))
    BY <2>2
  <2> QED  BY <2>1, <2>2
<1>5. Nat \subseteq S
  <2> HIDE DEF S
  <2> QED  BY <1>3, <1>4, OneByOne
<1>6. \A n \in 0 .. Len(ps) : A[n].lists[f] = B[n].lists[f]
  BY <1>5
<1> QED  BY <1>6 DEF A, B

(* Patches of the sources bring the addresses they cite, and no others.       *)
CitedUrls(ps) == UNION {CitesUrl(q) : q \in {x \in Range(ps) : x.field = "sources"}}
LEMMA SourceUrls ==
  ASSUME NEW b, IsBrief(b), NEW ps, IsList(ps)
  PROVE  \A n \in 0 .. Len(ps) : Urls(Applied(b, ps, {"sources"})[n]) \subseteq Urls(b) \cup CitedUrls(ps)
<1> DEFINE A == Applied(b, ps, {"sources"})
           U == Urls(b) \cup CitedUrls(ps)
           S == {n \in Nat : n <= Len(ps) => Urls(A[n]) \subseteq U}
<1>0. Len(ps) \in Nat /\ DOMAIN ps = 1 .. Len(ps)
  BY ListShape
<1>1. A[0] = b /\ \A n \in 1 .. Len(ps) : A[n] = PatchStep(A[n - 1], ps[n], {"sources"})
  BY <1>0, AppliedSteps
<1>2. \A n \in 0 .. Len(ps) : IsBrief(A[n])
  <2>1. {"sources"} \subseteq PatchField
    BY DEF PatchField, ListField
  <2> QED  BY <1>0, <2>1, AppliedIsBrief
<1> HIDE DEF A
<1>3. 0 \in S
  BY <1>1
<1>4. ASSUME NEW c, IsBrief(c), Urls(c) \subseteq U, NEW p, p.field = "sources", CitesUrl(p) \subseteq U
      PROVE  Urls(Patched(c, p)) \subseteq U
  <2> DEFINE d == Patched(c, p)
  <2>1. /\ "sources" \in PatchField /\ "sources" \in ListField
    BY DEF PatchField, ListField
  <2>2. \A f \in ListField : d.lists[f] = IF p.field = f THEN NewList(c, p) ELSE c.lists[f]
    BY <1>4, <2>1, PatchedShape
  <2> HIDE DEF d, U
  <2>3. \A x \in Range(NewList(c, p)) : x \in Range(c.lists["sources"]) \/ x = p.value
    <3>1. ByChat(p) = p.value
      BY <1>4 DEF ByChat
    <3>2. CASE p.op = "append"
      <4> DEFINE old == c.lists["sources"]
                 one == <<p.value>>
      <4>1. NewList(c, p) = old \o one
        BY <1>4, <3>1, <3>2 DEF NewList
      <4>2. IsList(old)
        BY <1>4, <2>1, BriefLists
      <4>3. IsList(one) /\ Len(one) = 1 /\ one[1] = p.value
        BY DEF IsList
      <4> HIDE DEF old, one
      <4>4. /\ IsList(old \o one) /\ Len(old \o one) = Len(old) + 1
            /\ \A i \in 1 .. Len(old) : (old \o one)[i] = old[i]
            /\ (old \o one)[Len(old) + 1] = p.value
        <5>1. /\ IsList(old \o one) /\ Len(old \o one) = Len(old) + Len(one)
              /\ \A i \in 1 .. Len(old) : (old \o one)[i] = old[i]
              /\ \A i \in 1 .. Len(one) : (old \o one)[Len(old) + i] = one[i]
          <6>1. IsList(old) /\ IsList(one)
            BY <4>2, <4>3
          <6> QED  BY <6>1, ConcatList
        <5> QED  BY <4>3, <5>1
      <4>5. Len(old) \in Nat /\ DOMAIN old = 1 .. Len(old) /\ DOMAIN (old \o one) = 1 .. Len(old) + 1
        BY <4>2, <4>4, ListShape
      <4>6. \A i \in 1 .. Len(old) + 1 : i \in 1 .. Len(old) \/ i = Len(old) + 1
        BY <4>5
      <4>7. \A x \in Range(old \o one) : x \in Range(old) \/ x = p.value
        BY <4>4, <4>5, <4>6 DEF Range
      <4> QED  BY <4>1, <4>7 DEF old
    <3>3. CASE p.op # "append"
      <4>1. NewList(c, p) = <<p.value>>
        BY <3>3 DEF NewList
      <4> QED  BY <4>1 DEF Range
    <3> QED  BY <3>2, <3>3
  <2>4. ASSUME NEW f \in ListField, NEW x \in Range(d.lists[f]), x.url # "none"
        PROVE  x.url \in U
    <3>1. \A g \in ListField : \A y \in Range(c.lists[g]) : y.url # "none" => y.url \in U
      BY <1>4 DEF Urls
    <3>2. p.value.url # "none" => p.value.url \in U
      BY <1>4 DEF CitesUrl
    <3>3. x \in Range(c.lists[f]) \/ x = p.value
      BY <1>4, <2>2, <2>3, <2>4
    <3> QED  BY <2>4, <3>1, <3>2, <3>3
  <2>5. Urls(d) \subseteq U
    BY <2>4 DEF Urls
  <2> QED  BY <2>5 DEF d
<1>5. ASSUME NEW n \in Nat, n \in S PROVE n + 1 \in S
  <2>1. CASE n + 1 <= Len(ps)
    <3> DEFINE p == ps[n + 1]
    <3>1. n + 1 \in 1 .. Len(ps) /\ (n + 1) - 1 = n /\ n \in 0 .. Len(ps) /\ Urls(A[n]) \subseteq U
      BY <1>0, <1>5, <2>1
    <3>2. A[n + 1] = PatchStep(A[n], p, {"sources"}) /\ IsBrief(A[n]) /\ p \in Range(ps)
      BY <1>0, <1>1, <1>2, <3>1 DEF Range
    <3> HIDE DEF p
    <3>3. CASE p.field = "sources"
      <4>1. CitesUrl(p) \subseteq U
        BY <3>2, <3>3 DEF CitedUrls
      <4>2. A[n + 1] = Patched(A[n], p)
        BY <3>2, <3>3 DEF PatchStep
      <4>3. Urls(Patched(A[n], p)) \subseteq U
        <5> HIDE DEF U
        <5> QED  BY <1>4, <3>1, <3>2, <3>3, <4>1
      <4> QED  BY <4>2, <4>3
    <3>4. CASE p.field # "sources"
      BY <3>1, <3>2, <3>4 DEF PatchStep
    <3> QED  BY <3>3, <3>4
  <2>2. CASE ~(n + 1 <= Len(ps))
    BY <2>2
  <2> QED  BY <2>1, <2>2
<1>6. Nat \subseteq S
  <2> HIDE DEF S
  <2> QED  BY <1>3, <1>5, OneByOne
<1> QED  BY <1>0, <1>6 DEF A

(* The sifting of a scan, patch by patch: first the findings, then the sources. *)
FindStep(acc, p) == IF p.field \in MonitorField \ {"sources"} THEN TakeFinding(acc, p) ELSE acc
SourceStep(base, acc, p) == IF p.field = "sources" THEN TakeSource(base, acc, p) ELSE acc
Unsifted(base, ps) ==
  [brief |-> base, taken |-> << >>,
   known |-> {p \in Range(ps) : p.field # "sources" /\ IsDuplicate(base, p)}]
LEMMA SiftSteps ==
  ASSUME NEW base, NEW ps, Len(ps) \in Nat
  PROVE  \E found, sifted :
           /\ found[0] = Unsifted(base, ps)
           /\ \A k \in 1 .. Len(ps) : found[k] = FindStep(found[k - 1], ps[k])
           /\ sifted[0] = found[Len(ps)]
           /\ \A k \in 1 .. Len(ps) : sifted[k] = SourceStep(base, sifted[k - 1], ps[k])
           /\ ApplyValidMonitorPatches(base, ps) = sifted[Len(ps)]
<1> DEFINE n == Len(ps)
           known == {p \in Range(ps) : p.field # "sources" /\ IsDuplicate(base, p)}
           IsFind(f, m) ==
             f = [k \in 0 .. m |-> IF k = 0 THEN [brief |-> base, taken |-> << >>, known |-> known]
                    ELSE IF ps[k].field \in MonitorField \ {"sources"} THEN TakeFinding(f[k - 1], ps[k])
                    ELSE f[k - 1]]
           found == CHOOSE f : IsFind(f, n)
           IsSift(f, m) ==
             f = [k \in 0 .. m |-> IF k = 0 THEN found[n]
                    ELSE IF ps[k].field = "sources" THEN TakeSource(base, f[k - 1], ps[k])
                    ELSE f[k - 1]]
           sifted == CHOOSE f : IsSift(f, n)
           S == {m \in Nat : \E f : IsFind(f, m)}
           T == {m \in Nat : \E f : IsSift(f, m)}
<1>1. ApplyValidMonitorPatches(base, ps) = sifted[n]
  BY DEF ApplyValidMonitorPatches
<1>2. \E f : IsFind(f, n)
  <2>1. 0 \in S
    <3> DEFINE f == [k \in 0 .. 0 |-> [brief |-> base, taken |-> << >>, known |-> known]]
    <3>1. IsFind(f, 0)
      OBVIOUS
    <3> HIDE DEF f, IsFind
    <3> QED  BY <3>1
  <2>2. ASSUME NEW m \in Nat, m \in S PROVE m + 1 \in S
    <3>1. PICK f : IsFind(f, m)
      BY <2>2
    <3> DEFINE g == [k \in 0 .. m + 1 |-> IF k = m + 1 THEN FindStep(f[m], ps[k]) ELSE f[k]]
    <3>2. \A k \in 0 .. m : g[k] = f[k]
      OBVIOUS
    <3>3. g[m + 1] = FindStep(f[m], ps[m + 1]) /\ (m + 1) - 1 = m /\ m \in 0 .. m
      OBVIOUS
    <3>4. \A k \in 0 .. m + 1 :
            g[k] = IF k = 0 THEN [brief |-> base, taken |-> << >>, known |-> known]
                   ELSE IF ps[k].field \in MonitorField \ {"sources"} THEN TakeFinding(g[k - 1], ps[k])
                   ELSE g[k - 1]
      <4> TAKE k \in 0 .. m + 1
      <4>1. CASE k = m + 1
        BY <3>2, <3>3, <4>1 DEF FindStep
      <4>2. CASE k \in 0 .. m
        <5>1. f[k] = IF k = 0 THEN [brief |-> base, taken |-> << >>, known |-> known]
                ELSE IF ps[k].field \in MonitorField \ {"sources"} THEN TakeFinding(f[k - 1], ps[k])
                ELSE f[k - 1]
          BY <3>1, <4>2
        <5>2. k # 0 => k - 1 \in 0 .. m
          BY <4>2
        <5> HIDE DEF g
        <5> QED  BY <3>2, <4>2, <5>1, <5>2
      <4> QED  BY <4>1, <4>2
    <3>5. IsFind(g, m + 1)
      BY <3>4
    <3> HIDE DEF g, IsFind
    <3> QED  BY <3>5
  <2> HIDE DEF IsFind
  <2>3. n \in S
    <3> HIDE DEF S
    <3> QED  BY <2>1, <2>2, OneByOne
  <2> QED  BY <2>3
<1>3. IsFind(found, n)
  <2> HIDE DEF IsFind
  <2> QED  BY <1>2
<1>4. found[0] = Unsifted(base, ps) /\ \A k \in 1 .. n : found[k] = FindStep(found[k - 1], ps[k])
  <2> HIDE DEF found
  <2>1. \A k \in 0 .. n : found[k] =
           IF k = 0 THEN [brief |-> base, taken |-> << >>, known |-> known]
           ELSE IF ps[k].field \in MonitorField \ {"sources"} THEN TakeFinding(found[k - 1], ps[k])
           ELSE found[k - 1]
    BY <1>3
  <2> QED  BY <2>1 DEF FindStep, Unsifted
<1> HIDE DEF found
<1>5. \E f : IsSift(f, n)
  <2>1. 0 \in T
    <3> DEFINE f == [k \in 0 .. 0 |-> found[n]]
    <3>1. IsSift(f, 0)
      OBVIOUS
    <3> HIDE DEF f, IsSift
    <3> QED  BY <3>1
  <2>2. ASSUME NEW m \in Nat, m \in T PROVE m + 1 \in T
    <3>1. PICK f : IsSift(f, m)
      BY <2>2
    <3> DEFINE g == [k \in 0 .. m + 1 |-> IF k = m + 1 THEN SourceStep(base, f[m], ps[k]) ELSE f[k]]
    <3>2. \A k \in 0 .. m : g[k] = f[k]
      OBVIOUS
    <3>3. g[m + 1] = SourceStep(base, f[m], ps[m + 1]) /\ (m + 1) - 1 = m /\ m \in 0 .. m
      OBVIOUS
    <3>4. \A k \in 0 .. m + 1 :
            g[k] = IF k = 0 THEN found[n]
                   ELSE IF ps[k].field = "sources" THEN TakeSource(base, g[k - 1], ps[k])
                   ELSE g[k - 1]
      <4> TAKE k \in 0 .. m + 1
      <4>1. CASE k = m + 1
        BY <3>2, <3>3, <4>1 DEF SourceStep
      <4>2. CASE k \in 0 .. m
        <5>1. f[k] = IF k = 0 THEN found[n]
                ELSE IF ps[k].field = "sources" THEN TakeSource(base, f[k - 1], ps[k])
                ELSE f[k - 1]
          BY <3>1, <4>2
        <5>2. k # 0 => k - 1 \in 0 .. m
          BY <4>2
        <5> HIDE DEF g
        <5> QED  BY <3>2, <4>2, <5>1, <5>2
      <4> QED  BY <4>1, <4>2
    <3>5. IsSift(g, m + 1)
      BY <3>4
    <3> HIDE DEF g, IsSift
    <3> QED  BY <3>5
  <2> HIDE DEF IsSift
  <2>3. n \in T
    <3> HIDE DEF T
    <3> QED  BY <2>1, <2>2, OneByOne
  <2> QED  BY <2>3
<1>6. IsSift(sifted, n)
  <2> HIDE DEF IsSift
  <2> QED  BY <1>5
<1> HIDE DEF sifted
<1>7. sifted[0] = found[n] /\ \A k \in 1 .. n : sifted[k] = SourceStep(base, sifted[k - 1], ps[k])
  <2>1. \A k \in 0 .. n : sifted[k] =
           IF k = 0 THEN found[n]
           ELSE IF ps[k].field = "sources" THEN TakeSource(base, sifted[k - 1], ps[k])
           ELSE sifted[k - 1]
    BY <1>6
  <2> QED  BY <2>1 DEF SourceStep
<1> QED  BY <1>1, <1>4, <1>7

(* What has been taken so far: it makes the brief, and each patch was news to *)
(* those of its field before it.                                              *)
Taken(base, acc) ==
  /\ acc = [brief |-> acc.brief, taken |-> acc.taken, known |-> acc.known]
  /\ IsList(acc.taken) /\ acc.brief = PatchedWith(base, acc.taken)
  /\ \A i \in DOMAIN acc.taken :
       /\ acc.taken[i].field \in MonitorField
       /\ ~IsDuplicate(Applied(base, acc.taken, {acc.taken[i].field})[i - 1], acc.taken[i])

TakenToo(acc, p) ==
  [brief |-> Patched(acc.brief, p), taken |-> Append(acc.taken, p), known |-> acc.known]
(* A patch that is taken, as a record.                                        *)
LEMMA TakeRecord ==
  ASSUME NEW base, NEW acc, Taken(base, acc), NEW p
  PROVE  [acc EXCEPT !.brief = Patched(@, p), !.taken = Append(@, p)] = TakenToo(acc, p)
<1>1. PICK b0, t0, k0 : acc = [brief |-> b0, taken |-> t0, known |-> k0]
  BY DEF Taken
<1>2. PICK u : u = [acc EXCEPT !.brief = Patched(@, p)]
  OBVIOUS
<1>3. [acc EXCEPT !.brief = Patched(@, p), !.taken = Append(@, p)] = [u EXCEPT !.taken = Append(@, p)]
  BY <1>2
<1>4. u = [brief |-> Patched(b0, p), taken |-> t0, known |-> k0]
  BY <1>1, <1>2
<1>5. [u EXCEPT !.taken = Append(@, p)] = [brief |-> Patched(b0, p), taken |-> Append(t0, p), known |-> k0]
  BY <1>4
<1> QED  BY <1>1, <1>3, <1>5 DEF TakenToo

(* It keeps the list of taken patches sound when it repeats nothing.          *)
LEMMA TakeSound ==
  ASSUME NEW base, NEW acc, Taken(base, acc), NEW p, p.field \in MonitorField,
         ~IsDuplicate(Applied(base, acc.taken, {p.field})[Len(acc.taken)], p)
  PROVE  /\ Taken(base, TakenToo(acc, p)) /\ TakenToo(acc, p).known = acc.known
         /\ Range(TakenToo(acc, p).taken) = Range(acc.taken) \cup {p}
<1> DEFINE t == acc.taken
           q == Append(t, p)
           new == TakenToo(acc, p)
<1>1. new = [brief |-> Patched(acc.brief, p), taken |-> q, known |-> acc.known]
  BY DEF TakenToo
<1> HIDE DEF new
<1>2. /\ IsList(t) /\ Len(t) \in Nat /\ DOMAIN t = 1 .. Len(t)
  BY ListShape DEF Taken
<1> HIDE DEF t
<1>3. /\ IsList(q) /\ Len(q) = Len(t) + 1 /\ (\A i \in DOMAIN t : q[i] = t[i]) /\ q[Len(t) + 1] = p
      /\ DOMAIN q = 1 .. Len(t) + 1
  BY <1>2, AppendList, ListShape
<1>4. p.field \in PatchField
  BY DEF PatchField, MonitorField, ListField
<1>5. Patched(acc.brief, p) = PatchedWith(base, q)
  <2>1. acc.brief = PatchedWith(base, t)
    BY DEF Taken, t
  <2>2. PatchedWith(base, q) = Patched(PatchedWith(base, t), p)
    BY <1>2, <1>4, AppliedAppend
  <2> QED  BY <2>1, <2>2
<1>6. \A f : \A n \in 0 .. Len(t) : Applied(base, q, f)[n] = Applied(base, t, f)[n]
  <2> TAKE f
  <2>1. IsList(t)
    BY <1>2
  <2>2. \A n \in 0 .. Len(t) : Applied(base, Append(t, p), f)[n] = Applied(base, t, f)[n]
    BY <2>1, AppliedAppend, ZenonT(40)
  <2> QED  BY <2>2
<1> HIDE DEF q
<1>7. ASSUME NEW i \in DOMAIN q
      PROVE  q[i].field \in MonitorField /\ ~IsDuplicate(Applied(base, q, {q[i].field})[i - 1], q[i])
  <2>1. CASE i = Len(t) + 1
    <3>1. i - 1 = Len(t) /\ Len(t) \in 0 .. Len(t) /\ q[i] = p
      BY <1>2, <1>3, <2>1
    <3>2. ~IsDuplicate(Applied(base, t, {p.field})[Len(t)], p)
      BY DEF t
    <3>3. Applied(base, q, {p.field})[Len(t)] = Applied(base, t, {p.field})[Len(t)]
      BY <1>6, <3>1
    <3> QED  BY <3>1, <3>2, <3>3
  <2>2. CASE i # Len(t) + 1
    <3>1. i \in DOMAIN t /\ i - 1 \in 0 .. Len(t) /\ q[i] = t[i]
      BY <1>2, <1>3, <2>2
    <3>2. t[i].field \in MonitorField /\ ~IsDuplicate(Applied(base, t, {t[i].field})[i - 1], t[i])
      BY <3>1 DEF Taken, t
    <3>3. Applied(base, q, {t[i].field})[i - 1] = Applied(base, t, {t[i].field})[i - 1]
      BY <1>6, <3>1
    <3> QED  BY <3>1, <3>2, <3>3
  <2> QED  BY <2>1, <2>2
<1>8. /\ new.brief = PatchedWith(base, q) /\ new.taken = q /\ new.known = acc.known
      /\ new = [brief |-> new.brief, taken |-> new.taken, known |-> new.known]
  BY <1>1, <1>5
<1>9. Taken(base, new)
  BY <1>3, <1>7, <1>8 DEF Taken
<1>10. Range(q) = Range(t) \cup {p}
  <2>1. \A i \in DOMAIN q : i \in DOMAIN t \/ i = Len(t) + 1
    BY <1>2, <1>3
  <2>2. \A i \in DOMAIN t : i \in DOMAIN q
    BY <1>2, <1>3
  <2>3. Len(t) + 1 \in DOMAIN q
    BY <1>2, <1>3
  <2> QED  BY <1>3, <2>1, <2>2, <2>3 DEF Range
<1> QED  BY <1>8, <1>9, <1>10 DEF t, new

(* After the findings of the first n patches, and after their sources.        *)
TakenUpTo(base, ps, acc, n) ==
  /\ Taken(base, acc)
  /\ \A i \in DOMAIN acc.taken : acc.taken[i].field # "sources"
  /\ \A k \in 1 .. n : ps[k].field \in MonitorField \ {"sources"} /\ Parses(ps[k])
                         => ps[k] \in acc.known \cup Range(acc.taken)
FindingsOf(acc) == {q \in Range(acc.taken) : q.field # "sources"}
Sifted(base, first, acc) ==
  /\ Taken(base, acc) /\ acc.known = first.known /\ FindingsOf(acc) = FindingsOf(first)
  /\ \A p \in Range(acc.taken) : p.field = "sources" =>
       SourceSupports(p, FindingsOf(first)) \/ ~SourceSupports(p, first.known)

(* A finding keeps what is known of the first pass.                           *)
LEMMA FindKeeps ==
  ASSUME NEW base, IsBrief(base), NEW ps, NEW n \in Nat, NEW acc, TakenUpTo(base, ps, acc, n)
  PROVE  TakenUpTo(base, ps, FindStep(acc, ps[n + 1]), n + 1)
<1> DEFINE p == ps[n + 1]
           new == FindStep(acc, p)
<1>0. /\ Taken(base, acc)
      /\ \A i \in DOMAIN acc.taken : acc.taken[i].field # "sources"
      /\ \A k \in 1 .. n : ps[k].field \in MonitorField \ {"sources"} /\ Parses(ps[k])
                             => ps[k] \in acc.known \cup Range(acc.taken)
  BY DEF TakenUpTo
<1>1. \A k \in 1 .. n + 1 : k \in 1 .. n \/ k = n + 1
  OBVIOUS
<1> HIDE DEF p
<1>2. CASE p.field \notin MonitorField \ {"sources"}
  <2>1. new = acc
    BY <1>2 DEF FindStep
  <2> HIDE DEF new
  <2> QED  BY <1>0, <1>1, <1>2, <2>1 DEF TakenUpTo, new, p
<1>3. CASE p.field \in MonitorField \ {"sources"} /\ IsDuplicate(acc.brief, p)
  <2>1. new = [acc EXCEPT !.known = @ \cup {p}]
    BY <1>3 DEF FindStep, TakeFinding
  <2> HIDE DEF new
  <2>2. new = [brief |-> acc.brief, taken |-> acc.taken, known |-> acc.known \cup {p}]
    <3>1. PICK b0, t0, k0 : acc = [brief |-> b0, taken |-> t0, known |-> k0]
      BY <1>0 DEF Taken
    <3> QED  BY <2>1, <3>1
  <2>3. Taken(base, new)
    BY <1>0, <2>2 DEF Taken
  <2>4. \A k \in 1 .. n + 1 : ps[k].field \in MonitorField \ {"sources"} /\ Parses(ps[k])
                                => ps[k] \in new.known \cup Range(new.taken)
    BY <1>0, <1>1, <2>2 DEF p
  <2> QED  BY <1>0, <2>2, <2>3, <2>4 DEF TakenUpTo, new, p
<1>4. CASE p.field \in MonitorField \ {"sources"} /\ ~IsDuplicate(acc.brief, p) /\ ~Parses(p)
  <2>1. new = acc
    BY <1>4 DEF FindStep, TakeFinding
  <2> HIDE DEF new
  <2> QED  BY <1>0, <1>1, <1>4, <2>1 DEF TakenUpTo, new, p
<1>5. CASE p.field \in MonitorField \ {"sources"} /\ ~IsDuplicate(acc.brief, p) /\ Parses(p)
  <2>0. new = [acc EXCEPT !.brief = Patched(@, p), !.taken = Append(@, p)]
    BY <1>5 DEF FindStep, TakeFinding
  <2> HIDE DEF new
  <2>1. new = TakenToo(acc, p)
    BY <1>0, <2>0, TakeRecord
  <2>2. ~IsDuplicate(Applied(base, acc.taken, {p.field})[Len(acc.taken)], p)
    <3> DEFINE t == acc.taken
               c == Applied(base, t, {p.field})[Len(t)]
    <3>1. Len(t) \in Nat /\ Len(t) \in 0 .. Len(t)
      BY <1>0, ListShape DEF Taken
    <3>2. acc.brief = Applied(base, t, PatchField)[Len(t)]
      BY <1>0 DEF Taken, PatchedWith
    <3> HIDE DEF t
    <3>3. CASE p.field = "signals"
      <4>1. "signals" \in ListField
        BY DEF ListField
      <4>2. c.lists["signals"] = acc.brief.lists["signals"]
        BY <3>1, <3>2, <3>3, <4>1, OneField
      <4> HIDE DEF c
      <4>3. ~IsDuplicate(c, p)
        BY <1>5, <3>3, <4>2 DEF IsDuplicate
      <4> QED  BY <4>3 DEF c, t
    <3>4. CASE p.field # "signals"
      BY <1>5, <3>4 DEF IsDuplicate
    <3> QED  BY <3>3, <3>4
  <2>3. /\ Taken(base, new) /\ new.known = acc.known
        /\ Range(new.taken) = Range(acc.taken) \cup {p}
    <3>1. p.field \in MonitorField /\ Taken(base, acc)
      BY <1>0, <1>5
    <3>2. /\ Taken(base, TakenToo(acc, p)) /\ TakenToo(acc, p).known = acc.known
          /\ Range(TakenToo(acc, p).taken) = Range(acc.taken) \cup {p}
      BY <2>2, <3>1, TakeSound, SMTT(30)
    <3> QED  BY <2>1, <3>2
  <2>4. \A x \in Range(new.taken) : x.field # "sources"
    BY <1>0, <1>5, <2>3 DEF Range
  <2>5. \A i \in DOMAIN new.taken : new.taken[i].field # "sources"
    BY <2>4 DEF Range
  <2>6. \A k \in 1 .. n + 1 : ps[k].field \in MonitorField \ {"sources"} /\ Parses(ps[k])
                                => ps[k] \in new.known \cup Range(new.taken)
    BY <1>0, <1>1, <2>3 DEF p
  <2> QED  BY <2>3, <2>5, <2>6 DEF TakenUpTo, new, p
<1> QED  BY <1>2, <1>3, <1>4, <1>5

(* A source keeps what is known of the second.                                *)
LEMMA SourceKeeps ==
  ASSUME NEW base, IsBrief(base), NEW first, NEW acc, Sifted(base, first, acc), NEW p
  PROVE  Sifted(base, first, SourceStep(base, acc, p))
<1> DEFINE new == SourceStep(base, acc, p)
           cited == UNION {CitesUrl(q) : q \in Range(acc.taken) \ FindingsOf(acc)}
           skipped == \/ ~SourceSupports(p, FindingsOf(acc)) /\ SourceSupports(p, acc.known)
                      \/ IsDuplicate(base, p) \/ CitesUrl(p) \cap cited # {}
                      \/ ~Parses(p)
<1>1. CASE p.field # "sources" \/ skipped
  <2>1. new = acc
    BY <1>1 DEF SourceStep, TakeSource, FindingsOf
  <2> QED  BY <2>1
<1>2. CASE p.field = "sources" /\ ~skipped
  <2>0. new = [acc EXCEPT !.brief = Patched(@, p), !.taken = Append(@, p)]
    BY <1>2 DEF SourceStep, TakeSource, FindingsOf
  <2> HIDE DEF new
  <2>1. new = TakenToo(acc, p)
    BY <2>0, TakeRecord DEF Sifted
  <2>2. /\ SourceSupports(p, FindingsOf(acc)) \/ ~SourceSupports(p, acc.known)
        /\ ~IsDuplicate(base, p) /\ CitesUrl(p) \cap cited = {}
    BY <1>2
  <2>3. Taken(base, acc) /\ IsList(acc.taken)
    BY DEF Sifted, Taken
  <2>4. ~IsDuplicate(Applied(base, acc.taken, {p.field})[Len(acc.taken)], p)
    <3> DEFINE c == Applied(base, acc.taken, {"sources"})[Len(acc.taken)]
    <3>1. Len(acc.taken) \in 0 .. Len(acc.taken)
      BY <2>3, ListShape
    <3>2. Urls(c) \subseteq Urls(base) \cup CitedUrls(acc.taken)
      BY <2>3, <3>1, SourceUrls
    <3>3. CitedUrls(acc.taken) = cited
      BY DEF CitedUrls, FindingsOf
    <3> HIDE DEF c, cited
    <3>4. p.op = "append" => CitesUrl(p) \cap Urls(base) = {}
      BY <1>2, <2>2 DEF IsDuplicate
    <3>5. ~IsDuplicate(c, p)
      BY <1>2, <2>2, <3>2, <3>3, <3>4 DEF IsDuplicate
    <3> QED  BY <1>2, <3>5 DEF c
  <2>5. p.field \in MonitorField
    BY <1>2 DEF MonitorField
  <2>6. /\ Taken(base, new) /\ new.known = acc.known /\ Range(new.taken) = Range(acc.taken) \cup {p}
    BY <2>1, <2>3, <2>4, <2>5, TakeSound
  <2>7. FindingsOf(new) = FindingsOf(acc)
    BY <1>2, <2>6 DEF FindingsOf
  <2>8. /\ acc.known = first.known /\ FindingsOf(acc) = FindingsOf(first)
        /\ \A x \in Range(acc.taken) : x.field = "sources" =>
             SourceSupports(x, FindingsOf(first)) \/ ~SourceSupports(x, first.known)
    BY DEF Sifted
  <2>9. Sifted(base, first, new)
    BY <2>2, <2>6, <2>7, <2>8 DEF Sifted
  <2> QED  BY <2>9 DEF new
<1> QED  BY <1>1, <1>2

(* The cards of a scan: they make the brief the job proposes, and are news.   *)
IsNews(base, ps, taken) ==
  LET findings == {p \in Range(taken) : p.field # "sources"}
      left == {p \in Range(ps) : p.field \in MonitorField \ {"sources"} /\ Parses(p)} \ findings IN
  \A i \in DOMAIN taken :
    /\ ~IsDuplicate(Applied(base, taken, {taken[i].field})[i - 1], taken[i])
    /\ taken[i].field = "sources" =>
         SourceSupports(taken[i], findings) \/ ~SourceSupports(taken[i], left)
LEMMA SiftedIsNews ==
  ASSUME NEW base, IsBrief(base), NEW ps, IsList(ps)
  PROVE  LET new == ApplyValidMonitorPatches(base, ps) IN
           /\ IsList(new.taken) /\ new.brief = PatchedWith(base, new.taken)
           /\ IsNews(base, ps, new.taken)
<1> DEFINE n == Len(ps)
           new == ApplyValidMonitorPatches(base, ps)
<1>0. n \in Nat /\ DOMAIN ps = 1 .. n
  BY ListShape
<1>1. PICK found, sifted :
        /\ found[0] = Unsifted(base, ps)
        /\ \A k \in 1 .. n : found[k] = FindStep(found[k - 1], ps[k])
        /\ sifted[0] = found[n]
        /\ \A k \in 1 .. n : sifted[k] = SourceStep(base, sifted[k - 1], ps[k])
        /\ new = sifted[n]
  BY <1>0, SiftSteps
<1> DEFINE first == found[n]
           S == {k \in Nat : k <= n => TakenUpTo(base, ps, found[k], k)}
           T == {k \in Nat : k <= n => Sifted(base, first, sifted[k])}
<1> HIDE DEF n, new
<1>2. 0 \in S
  <2> DEFINE acc == Unsifted(base, ps)
  <2>1. acc.taken = << >> /\ acc.brief = base /\ acc = [brief |-> acc.brief, taken |-> acc.taken, known |-> acc.known]
    BY DEF Unsifted
  <2>2. IsList(<< >>) /\ DOMAIN << >> = {} /\ PatchedWith(base, << >>) = base
    BY NoPatches DEF IsList
  <2> HIDE DEF acc
  <2>3. Taken(base, acc)
    BY <2>1, <2>2 DEF Taken
  <2>4. TakenUpTo(base, ps, acc, 0)
    BY <2>1, <2>3 DEF TakenUpTo
  <2> QED  BY <1>1, <2>4 DEF acc
<1>3. ASSUME NEW k \in Nat, k \in S PROVE k + 1 \in S
  <2>1. CASE k + 1 <= n
    <3>1. k + 1 \in 1 .. n /\ (k + 1) - 1 = k /\ TakenUpTo(base, ps, found[k], k)
      BY <1>0, <1>3, <2>1
    <3>2. TakenUpTo(base, ps, FindStep(found[k], ps[k + 1]), k + 1)
      BY <3>1, FindKeeps
    <3> QED  BY <1>1, <3>1, <3>2
  <2>2. CASE ~(k + 1 <= n)
    BY <2>2
  <2> QED  BY <2>1, <2>2
<1>4. TakenUpTo(base, ps, first, n)
  <2>1. n \in S
    <3> HIDE DEF S
    <3> QED  BY <1>0, <1>2, <1>3, OneByOne
  <2> QED  BY <1>0, <2>1
<1> HIDE DEF first
<1>5. 0 \in T
  <2>1. FindingsOf(first) = Range(first.taken) /\ \A p \in Range(first.taken) : p.field # "sources"
    BY <1>4 DEF TakenUpTo, FindingsOf, Range
  <2>2. Sifted(base, first, first)
    BY <1>4, <2>1 DEF TakenUpTo, Sifted
  <2> QED  BY <1>1, <2>2 DEF first
<1>6. ASSUME NEW k \in Nat, k \in T PROVE k + 1 \in T
  <2>1. CASE k + 1 <= n
    <3>1. k + 1 \in 1 .. n /\ (k + 1) - 1 = k /\ Sifted(base, first, sifted[k])
      BY <1>0, <1>6, <2>1
    <3>2. Sifted(base, first, SourceStep(base, sifted[k], ps[k + 1]))
      BY <3>1, SourceKeeps
    <3> QED  BY <1>1, <3>1, <3>2
  <2>2. CASE ~(k + 1 <= n)
    BY <2>2
  <2> QED  BY <2>1, <2>2
<1>7. Sifted(base, first, new)
  <2>1. n \in T
    <3> HIDE DEF T
    <3> QED  BY <1>0, <1>5, <1>6, OneByOne
  <2> QED  BY <1>0, <1>1, <2>1
<1>8. Taken(base, new) /\ IsList(new.taken) /\ new.brief = PatchedWith(base, new.taken)
  BY <1>7 DEF Sifted, Taken
<1> DEFINE findings == {p \in Range(new.taken) : p.field # "sources"}
           left == {p \in Range(ps) : p.field \in MonitorField \ {"sources"} /\ Parses(p)} \ findings
<1>9. findings = FindingsOf(first) /\ findings = Range(first.taken)
  <2>1. FindingsOf(first) = Range(first.taken)
    BY <1>4 DEF TakenUpTo, FindingsOf, Range
  <2> QED  BY <1>7, <2>1 DEF Sifted, FindingsOf
<1>10. left \subseteq first.known
  <2> SUFFICES ASSUME NEW p \in left PROVE p \in first.known
    OBVIOUS
  <2>1. PICK k \in 1 .. n : p = ps[k]
    BY <1>0 DEF Range
  <2>2. ps[k] \in first.known \cup Range(first.taken)
    BY <1>4, <2>1 DEF TakenUpTo
  <2> QED  BY <1>9, <2>1, <2>2
<1>11. \A p \in Range(new.taken) : p.field = "sources" =>
         SourceSupports(p, findings) \/ ~SourceSupports(p, left)
  <2> TAKE p \in Range(new.taken)
  <2> HAVE p.field = "sources"
  <2>1. SourceSupports(p, findings) \/ ~SourceSupports(p, first.known)
    BY <1>7, <1>9 DEF Sifted
  <2> HIDE DEF findings, left
  <2>2. SourceSupports(p, left) => SourceSupports(p, first.known)
    BY <1>10 DEF SourceSupports
  <2> QED  BY <2>1, <2>2
<1>12. \A i \in DOMAIN new.taken :
         ~IsDuplicate(Applied(base, new.taken, {new.taken[i].field})[i - 1], new.taken[i])
  BY <1>8 DEF Taken
<1>13. \A i \in DOMAIN new.taken : new.taken[i] \in Range(new.taken)
  BY DEF Range
<1>14. IsNews(base, ps, new.taken)
  BY <1>11, <1>12, <1>13 DEF IsNews
<1> QED  BY <1>8, <1>14 DEF new

(* Nothing is queued before the job ends; the cards of a job that ended are   *)
(* those of some list of patches against the brief it read, which is the      *)
(* brief still stored when there are any.                                     *)
QueuedFrom(ps) ==
  /\ IsList(ps) /\ cards = Cards(work.base, ps)
  /\ ps # << >> =>
       content = work.base /\ Unsigned(PatchedWith(work.base, ps)) = Unsigned(proposed)
  /\ work.kind = "monitor" => IsNews(work.base, scan, ps)
CardsSafe ==
  /\ work = [kind |-> work.kind, stage |-> work.stage, base |-> work.base]
  /\ IsBrief(content) /\ IsBrief(work.base)
  /\ work.stage \in {"waiting", "research"} => cards = << >>
  /\ \E ps : QueuedFrom(ps)

(* What a card says it changes.                                               *)
LEMMA CardPatches ==
  ASSUME NEW base, NEW ps, IsList(ps)
  PROVE  LET queued == Cards(base, ps) IN
           /\ DOMAIN queued = DOMAIN ps
           /\ \A i \in DOMAIN ps : queued[i].patch = ps[i] /\ queued[i].baseline = base
           /\ Each(LAMBDA c : c.patch, queued) = ps
           /\ queued = << >> <=> ps = << >>
<1> DEFINE queued == Cards(base, ps)
<1>1. queued = [i \in DOMAIN ps |-> [patch |-> ps[i], baseline |-> base]]
  BY DEF Cards, Each
<1>2. Each(LAMBDA c : c.patch, queued) = [i \in DOMAIN queued |-> queued[i].patch]
  BY DEF Each
<1>3. Len(ps) \in Nat /\ DOMAIN ps = 1 .. Len(ps) /\ ps = [i \in 1 .. Len(ps) |-> ps[i]]
  BY DEF IsList
<1> HIDE DEF queued
<1>4. DOMAIN queued = DOMAIN ps /\ \A i \in DOMAIN ps : queued[i].patch = ps[i] /\ queued[i].baseline = base
  BY <1>1
<1>5. [i \in DOMAIN queued |-> queued[i].patch] = ps
  BY <1>3, <1>4
<1>6. queued = << >> <=> ps = << >>
  <2>1. DOMAIN << >> = {} /\ IsList(<< >>)
    BY DEF IsList
  <2>2. ps = << >> => queued = << >>
    BY <1>1, <2>1
  <2>3. queued = << >> => ps = << >>
    <3> HAVE queued = << >>
    <3>1. DOMAIN ps = {}
      BY <1>4, <2>1
    <3>2. Len(ps) = 0
      BY <1>3, <3>1
    <3> QED  BY <1>3, <3>2
  <2> QED  BY <2>2, <2>3
<1> QED  BY <1>2, <1>4, <1>5, <1>6 DEF queued

(* Nothing queued.                                                            *)
LEMMA NothingQueued ==
  ASSUME NEW base, NEW found
  PROVE  IsList(<< >>) /\ Cards(base, << >>) = << >> /\ IsNews(base, found, << >>)
<1>1. DOMAIN << >> = {} /\ IsList(<< >>)
  BY DEF IsList
<1>2. Cards(base, << >>) = << >>
  BY <1>1, CardPatches
<1> QED  BY <1>1, <1>2 DEF IsNews

(* What the assumption on the constants says of them.                         *)
LEMMA StoredAreBriefs ==
  /\ \A b \in StoredBrief \cup Research : IsBrief(b)
  /\ \A ps \in Finding : IsList(ps)
<1>1. \A b \in StoredBrief \cup Research : IsBrief(b)
  BY ProposalAssumption
<1>2. \A ps \in Finding : ps \in Seq(Range(ps))
  BY ProposalAssumption
<1> QED  BY <1>1, <1>2, SeqIsList

(* CardsSafe holds at first.                                                  *)
LEMMA CardsStart == ProposalBriefInit => CardsSafe
<1> SUFFICES ASSUME ProposalBriefInit PROVE CardsSafe
  OBVIOUS
<1>1. /\ content \in StoredBrief /\ cards = << >>
      /\ work = [kind |-> "none", stage |-> "waiting", base |-> content]
  BY DEF ProposalBriefInit, Waiting
<1>2. work.kind = "none" /\ work.base = content /\ work = [kind |-> work.kind, stage |-> work.stage, base |-> work.base]
  BY <1>1
<1>3. IsBrief(content)
  BY <1>1, StoredAreBriefs
<1>4. QueuedFrom(<< >>)
  BY <1>1, <1>2, NothingQueued DEF QueuedFrom
<1> QED  BY <1>1, <1>2, <1>3, <1>4 DEF CardsSafe

(* A job that goes on, or ends without a card.                                *)
LEMMA WithoutCards ==
  ASSUME IsBrief(content)', IsBrief(work.base)', cards' = << >>,
         (work = [kind |-> work.kind, stage |-> work.stage, base |-> work.base])'
  PROVE  CardsSafe'
<1>1. QueuedFrom(<< >>)'
  BY NothingQueued DEF QueuedFrom
<1>2. (\E ps : QueuedFrom(ps))'
  BY <1>1
<1> QED  BY <1>2 DEF CardsSafe

(* Reading, editing and taking a right come before any card.                  *)
LEMMA ReadKeepsCards ==
  ASSUME CardsSafe, NEW kind, ReadBrief(kind)
  PROVE  CardsSafe'
<1>1. work' = [kind |-> kind, stage |-> "research", base |-> content] /\ content' = content /\ cards' = << >>
  BY DEF ReadBrief, CardsSafe
<1>2. IsBrief(content)' /\ IsBrief(work.base)'
  BY <1>1 DEF CardsSafe
<1>3. (work = [kind |-> work.kind, stage |-> work.stage, base |-> work.base])'
  BY <1>1
<1> QED  BY <1>1, <1>2, <1>3, WithoutCards

LEMMA EditKeepsCards ==
  ASSUME CardsSafe, NEW b \in StoredBrief, EditBrief(b)
  PROVE  CardsSafe'
<1>1. content' = b /\ work' = work /\ cards' = << >>
  BY DEF EditBrief, CardsSafe
<1>2. IsBrief(content)' /\ IsBrief(work.base)'
  BY <1>1, StoredAreBriefs DEF CardsSafe
<1>3. (work = [kind |-> work.kind, stage |-> work.stage, base |-> work.base])'
  BY <1>1 DEF CardsSafe
<1> QED  BY <1>1, <1>2, <1>3, WithoutCards

LEMMA RightKeepsCards ==
  ASSUME CardsSafe, TakeRight
  PROVE  CardsSafe'
<1>1. content' = content /\ work' = work /\ cards' = << >>
  BY DEF TakeRight, CardsSafe
<1>2. IsBrief(content)' /\ IsBrief(work.base)'
  BY <1>1 DEF CardsSafe
<1>3. (work = [kind |-> work.kind, stage |-> work.stage, base |-> work.base])'
  BY <1>1 DEF CardsSafe
<1> QED  BY <1>1, <1>2, <1>3, WithoutCards

(* The end of a job leaves its kind and its brief as they are.                *)
LEMMA EndFacts ==
  ASSUME CardsSafe, NEW stage, End(stage)
  PROVE  /\ work'.kind = work.kind /\ work'.stage = stage /\ work'.base = work.base
         /\ content' = content
         /\ (work = [kind |-> work.kind, stage |-> work.stage, base |-> work.base])'
         /\ IsBrief(content)' /\ IsBrief(work.base)'
<1>1. PICK k, s, b : work = [kind |-> k, stage |-> s, base |-> b]
  BY DEF CardsSafe
<1>2. work' = [work EXCEPT !.stage = stage] /\ content' = content
  BY DEF End
<1>3. work' = [kind |-> k, stage |-> stage, base |-> b]
  BY <1>1, <1>2
<1>4. IsBrief(content) /\ IsBrief(work.base)
  BY DEF CardsSafe
<1> QED  BY <1>1, <1>2, <1>3, <1>4

(* The transaction that queues the cards of a job.                            *)
LEMMA QueueKeeps ==
  ASSUME CardsSafe, End("done"), NEW ps, IsList(ps), Queue(ps),
         content = work.base \/ ps = << >>,
         ps # << >> => Unsigned(PatchedWith(work.base, ps)) = Unsigned(proposed'),
         work.kind = "monitor" => IsNews(work.base, scan', ps)
  PROVE  CardsSafe'
<1>1. /\ work'.kind = work.kind /\ work'.stage = "done" /\ work'.base = work.base
      /\ content' = content
      /\ (work = [kind |-> work.kind, stage |-> work.stage, base |-> work.base])'
      /\ IsBrief(content)' /\ IsBrief(work.base)'
  BY EndFacts
<1>2. cards' = Cards(work'.base, ps)
  BY <1>1 DEF Queue
<1>3. QueuedFrom(ps)'
  BY <1>1, <1>2 DEF QueuedFrom
<1>4. (\E qs : QueuedFrom(qs))'
  BY <1>3
<1> QED  BY <1>1, <1>4 DEF CardsSafe

(* A job that fails queues nothing.                                           *)
LEMMA FailKeeps ==
  ASSUME CardsSafe, End("failed"), work.stage = "research", cards' = cards
  PROVE  CardsSafe'
<1>1. cards' = << >>
  BY DEF CardsSafe
<1> QED  BY <1>1, EndFacts, WithoutCards

(* A refresh queues the patches between the brief and its merge.              *)
LEMMA RefreshKeeps ==
  ASSUME CardsSafe, FinishRefresh
  PROVE  CardsSafe'
<1>1. PICK r \in Research :
        LET to == MergeBriefs(work.base, r) IN
        /\ proposed' = to /\ UNCHANGED scan
        /\ IF RefreshAllowed(to)
           THEN End("done") /\ Queue(PatchesFromWholeBrief(work.base, to))
           ELSE End("failed") /\ UNCHANGED cards
  BY DEF FinishRefresh
<1> DEFINE to == MergeBriefs(work.base, r)
           ps == PatchesFromWholeBrief(work.base, to)
<1>2. work.stage = "research" /\ work.kind = "refresh" /\ IsBrief(work.base)
  BY DEF FinishRefresh, CardsSafe
<1>3. IsBrief(to)
  BY <1>2, StoredAreBriefs, MergeIsBrief
<1>4. proposed' = to /\ IF RefreshAllowed(to) THEN End("done") /\ Queue(ps) ELSE End("failed") /\ cards' = cards
  BY <1>1
<1> HIDE DEF to
<1>5. CASE RefreshAllowed(to)
  <2>1. content = work.base /\ to.identity = work.base.identity /\ KeepsPrefixes(work.base, to)
    BY <1>5 DEF RefreshAllowed, Unchanged
  <2>2. Unsigned(PatchedWith(work.base, ps)) = Unsigned(to) /\ IsList(ps)
    BY <1>2, <1>3, <2>1, PatchesRebuild
  <2> HIDE DEF ps
  <2>3. /\ End("done") /\ Queue(ps) /\ content = work.base
        /\ Unsigned(PatchedWith(work.base, ps)) = Unsigned(proposed') /\ work.kind # "monitor"
    BY <1>2, <1>4, <1>5, <2>1, <2>2
  <2> QED  BY <2>2, <2>3, QueueKeeps
<1>6. CASE ~RefreshAllowed(to)
  <2>1. End("failed") /\ cards' = cards
    BY <1>4, <1>6
  <2> QED  BY <1>2, <2>1, FailKeeps
<1> QED  BY <1>5, <1>6

(* The monitor queues what was taken.                                         *)
LEMMA MonitorKeeps ==
  ASSUME CardsSafe, FinishMonitor
  PROVE  CardsSafe'
<1>1. PICK ps \in Finding :
        LET new == ApplyValidMonitorPatches(work.base, ps) IN
        /\ scan' = ps /\ proposed' = new.brief
        /\ IF ~Unchanged \/ (new.taken # << >> /\ ~WithinLimits(new.taken))
           THEN End("failed") /\ UNCHANGED cards
           ELSE End("done") /\ Queue(new.taken)
  BY DEF FinishMonitor
<1> DEFINE new == ApplyValidMonitorPatches(work.base, ps)
           taken == new.taken
<1>2. work.stage = "research" /\ IsBrief(work.base) /\ IsList(ps)
  BY StoredAreBriefs DEF FinishMonitor, CardsSafe
<1>3. IsList(taken) /\ new.brief = PatchedWith(work.base, taken) /\ IsNews(work.base, ps, taken)
  BY <1>2, SiftedIsNews
<1>4. /\ scan' = ps /\ proposed' = new.brief
      /\ \/ End("failed") /\ cards' = cards
         \/ Unchanged /\ End("done") /\ Queue(taken)
  BY <1>1
<1> HIDE DEF taken, new
<1>5. CASE End("failed") /\ cards' = cards
  BY <1>2, <1>5, FailKeeps
<1>6. CASE Unchanged /\ End("done") /\ Queue(taken)
  <2>1. /\ End("done") /\ Queue(taken) /\ IsList(taken) /\ content = work.base
        /\ Unsigned(PatchedWith(work.base, taken)) = Unsigned(proposed')
        /\ IsNews(work.base, scan', taken)
    BY <1>3, <1>4, <1>6 DEF Unchanged
  <2> QED  BY <2>1, QueueKeeps
<1> QED  BY <1>4, <1>5, <1>6

(* Every step keeps CardsSafe.                                                *)
LEMMA CardsStep == CardsSafe /\ [ProposalBriefNext]_proposalBriefVars => CardsSafe'
<1> SUFFICES ASSUME CardsSafe, [ProposalBriefNext]_proposalBriefVars PROVE CardsSafe'
  OBVIOUS
<1>1. CASE \E kind \in {"refresh", "monitor"} : ReadBrief(kind)
  BY <1>1, ReadKeepsCards
<1>2. CASE \E b \in StoredBrief : EditBrief(b)
  BY <1>2, EditKeepsCards
<1>3. CASE TakeRight
  BY <1>3, RightKeepsCards
<1>4. CASE FinishRefresh
  BY <1>4, RefreshKeeps
<1>5. CASE FinishMonitor
  BY <1>5, MonitorKeeps
<1>6. CASE UNCHANGED proposalBriefVars
  <2>1. /\ content' = content /\ work' = work /\ scan' = scan /\ proposed' = proposed
        /\ cards' = cards
    BY <1>6 DEF proposalBriefVars
  <2> QED  BY <2>1 DEF CardsSafe, QueuedFrom
<1> QED  BY <1>1, <1>2, <1>3, <1>4, <1>5, <1>6 DEF ProposalBriefNext

(* CardsSafe says more than either property.                                  *)
LEMMA CardsRebuild == CardsSafe => CardsRebuildTheResult
<1> SUFFICES ASSUME CardsSafe, cards # << >> PROVE
      /\ \A i \in DOMAIN cards : cards[i].baseline = content
      /\ Unsigned(PatchedWith(cards[1].baseline, Each(LAMBDA c : c.patch, cards))) = Unsigned(proposed)
  BY DEF CardsRebuildTheResult
<1>1. PICK ps : QueuedFrom(ps)
  BY DEF CardsSafe
<1>2. IsList(ps) /\ cards = Cards(work.base, ps)
  BY <1>1 DEF QueuedFrom
<1>3. /\ DOMAIN cards = DOMAIN ps
      /\ \A i \in DOMAIN ps : cards[i].patch = ps[i] /\ cards[i].baseline = work.base
      /\ Each(LAMBDA c : c.patch, cards) = ps
      /\ ps # << >>
  BY <1>2, CardPatches
<1>4. content = work.base /\ Unsigned(PatchedWith(work.base, ps)) = Unsigned(proposed)
  BY <1>1, <1>3 DEF QueuedFrom
<1>5. 1 \in DOMAIN ps
  BY <1>2, <1>3 DEF IsList
<1> QED  BY <1>3, <1>4, <1>5

LEMMA CardsAreNews == CardsSafe => MonitorBringsNews
<1> SUFFICES ASSUME CardsSafe, work.kind = "monitor" PROVE MonitorBringsNews
  BY DEF MonitorBringsNews
<1>1. PICK ps : QueuedFrom(ps)
  BY DEF CardsSafe
<1>2. IsList(ps) /\ cards = Cards(work.base, ps) /\ IsNews(work.base, scan, ps)
  BY <1>1 DEF QueuedFrom
<1>3. Each(LAMBDA c : c.patch, cards) = ps
  BY <1>2, CardPatches
<1> QED  BY <1>2, <1>3 DEF MonitorBringsNews, IsNews

(* CardsRebuildTheResult for every brief, research and limit: what a reviewer *)
(* of all the cards of a job gets is what the job proposed.                   *)
THEOREM CardsHold == ProposalBriefSpec => []CardsRebuildTheResult
<1>1. ProposalBriefSpec => []CardsSafe
  BY CardsStart, CardsStep, PTL DEF ProposalBriefSpec
<1> QED  BY <1>1, CardsRebuild, PTL

(* MonitorBringsNews for every brief and scan.                                *)
THEOREM NewsHolds == ProposalBriefSpec => []MonitorBringsNews
<1>1. ProposalBriefSpec => []CardsSafe
  BY CardsStart, CardsStep, PTL DEF ProposalBriefSpec
<1> QED  BY <1>1, CardsAreNews, PTL
==============================================================================
