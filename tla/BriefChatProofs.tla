-------------------------- MODULE BriefChatProofs --------------------------
(***************************************************************************)
(* Proofs about the chat of a brief.                                       *)
(*                                                                         *)
(* A permit is returned by subtracting one, so the types rest on the       *)
(* permits being the calls: ChatShape is the two together.  That history   *)
(* stays whole needs both that its bound is even and that no row is newer  *)
(* than the last turn (Dated).                                             *)
(***************************************************************************)
EXTENDS BriefChat, FiniteSetTheorems, SequenceTheorems, TLAPS

USE ChatAssumption

Holders == {u \in User : req[u].phase \in {"call", "helper"}}

ChatShape == ChatTypeOK /\ PermitsAreCalls

------------------------------------------------------------------------------
(* Requests and permits *)

Phases == {"idle", "body", "call", "round", "outcome", "helper"}

LEMMA RequestColumns ==
  ASSUME NEW r \in Request, NEW p \in Phases
  PROVE  /\ Idle \in Request
         /\ [r EXCEPT !.phase = p] \in Request
         /\ [Idle EXCEPT !.phase = p] \in Request
<1>1. Idle \in Request
  BY DEF Request, Idle
<1> QED BY <1>1 DEF Request, Phases

LEMMA PatchedColumns ==
  ASSUME NEW r \in Request, NEW p \in Phases, NEW b \in BOOLEAN
  PROVE  /\ [r EXCEPT !.phase = p, !.patched = @ \/ b] \in Request
         /\ [r EXCEPT !.phase = p, !.round = 0, !.patched = @ \/ b] \in Request
<1>1. (r.patched \/ b) \in BOOLEAN
  OBVIOUS
<1>2. 0 \in 0..MaxRounds
  OBVIOUS
<1>3. PICK c \in BOOLEAN : c = (r.patched \/ b)
  BY <1>1
<1>4. /\ [r EXCEPT !.phase = p, !.patched = c] \in Request
      /\ [r EXCEPT !.phase = p, !.round = 0, !.patched = c] \in Request
  BY <1>2 DEF Request, Phases
<1> QED BY <1>3, <1>4

LEMMA RoundColumn ==
  ASSUME NEW r \in Request, r.round < MaxRounds
  PROVE  [r EXCEPT !.phase = "call", !.round = @ + 1] \in Request
<1>1. r.round + 1 \in 0..MaxRounds
  BY DEF Request
<1> QED BY <1>1 DEF Request

LEMMA HoldersAreFinite == IsFiniteSet(Holders)
BY FS_Subset DEF Holders

\* A request takes a permit ...
LEMMA Taken ==
  ASSUME ChatShape, NEW u \in User, NEW new \in Request,
         Free, req[u].phase \notin {"call", "helper"},
         new.phase \in {"call", "helper"},
         Settle(u, new), active' = active + 1, elsewhere' = elsewhere
  PROVE  PermitsAreCalls' /\ active' \in 0..1 /\ req' \in [User -> Request]
<1>1. req' \in [User -> Request]
  BY DEF ChatShape, ChatTypeOK, Settle
<1>2. Holders' = Holders \union {u} /\ u \notin Holders
  BY DEF ChatShape, ChatTypeOK, Settle, Holders
<1>3. Cardinality(Holders') = Cardinality(Holders) + 1
  BY <1>2, HoldersAreFinite, FS_AddElement
<1>4. active = 0 /\ elsewhere \in 0..GlobalLimit /\ active + elsewhere < GlobalLimit
  BY DEF ChatShape, ChatTypeOK, Free
<1>5. active = Cardinality(Holders)
  BY DEF ChatShape, PermitsAreCalls, Holders
<1>6. active' = Cardinality(Holders') /\ active' + elsewhere' <= GlobalLimit
  BY <1>3, <1>4, <1>5
<1> QED BY <1>1, <1>4, <1>6 DEF PermitsAreCalls, Holders

\* ... returns it ...
LEMMA Returned ==
  ASSUME ChatShape, NEW u \in User, NEW new \in Request,
         req[u].phase \in {"call", "helper"},
         new.phase \notin {"call", "helper"},
         Settle(u, new), active' = active - 1, elsewhere' = elsewhere
  PROVE  PermitsAreCalls' /\ active' \in 0..1 /\ req' \in [User -> Request]
<1>1. req' \in [User -> Request]
  BY DEF ChatShape, ChatTypeOK, Settle
<1>2. Holders' = Holders \ {u} /\ u \in Holders
  BY DEF ChatShape, ChatTypeOK, Settle, Holders
<1>3. Cardinality(Holders') = Cardinality(Holders) - 1
  BY <1>2, HoldersAreFinite, FS_RemoveElement
<1>4. Cardinality(Holders') \in Nat
  BY <1>2, HoldersAreFinite, FS_RemoveElement, FS_CardinalityType
<1> QED
  BY <1>1, <1>3, <1>4 DEF ChatShape, PermitsAreCalls, Holders, ChatTypeOK

\* ... or goes on without one.
LEMMA Unheld ==
  ASSUME ChatShape, NEW u \in User, NEW new \in Request,
         req[u].phase \notin {"call", "helper"},
         new.phase \notin {"call", "helper"},
         Settle(u, new), active' = active, elsewhere' = elsewhere
  PROVE  PermitsAreCalls' /\ active' \in 0..1 /\ req' \in [User -> Request]
<1>1. req' \in [User -> Request]
  BY DEF ChatShape, ChatTypeOK, Settle
<1>2. Holders' = Holders
  BY DEF ChatShape, ChatTypeOK, Settle, Holders
<1> QED BY <1>1, <1>2 DEF ChatShape, PermitsAreCalls, Holders, ChatTypeOK

------------------------------------------------------------------------------
(* The history *)

Turn(t) == <<[turn |-> t, role |-> "user"], [turn |-> t, role |-> "assistant"]>>

Whole(s) ==
  /\ Len(s) <= Retained /\ Len(s) % 2 = 0
  /\ \A i \in 1..Len(s) :
       /\ s[i].role = IF i % 2 = 1 THEN "user" ELSE "assistant"
       /\ i % 2 = 0 => s[i].turn = s[i - 1].turn
       /\ i > 1 => s[i].turn >= s[i - 1].turn

UpTo(s, n) == \A i \in 1..Len(s) : s[i].turn <= n

\* What a turn appends ...
LEMMA Appended ==
  ASSUME NEW s \in Seq(Row), NEW t \in 1..MaxTurns
  PROVE  /\ s \o Turn(t) \in Seq(Row)
         /\ Len(s \o Turn(t)) = Len(s) + 2
         /\ \A i \in 1..Len(s) : (s \o Turn(t))[i] = s[i]
         /\ (s \o Turn(t))[Len(s) + 1] = [turn |-> t, role |-> "user"]
         /\ (s \o Turn(t))[Len(s) + 2] = [turn |-> t, role |-> "assistant"]
<1>1. Turn(t) \in Seq(Row) /\ Len(Turn(t)) = 2
  BY DEF Turn, Row
<1> QED BY <1>1, ConcatProperties DEF Turn

\* ... and what pruning leaves: everything, or all but the oldest turn.
LEMMA Pruned ==
  ASSUME NEW s \in Seq(Row), Len(s) >= 2
  PROVE  /\ Newest(s) \in Seq(Row)
         /\ Len(s) <= Retained => Newest(s) = s
         /\ Len(s) = Retained + 2 =>
              /\ Len(Newest(s)) = Retained
              /\ \A i \in 1..Retained : Newest(s)[i] = s[i + 2]
<1>1. CASE Len(s) <= Retained
  BY <1>1 DEF Newest
<1>2. CASE ~(Len(s) <= Retained)
  <2>1. Newest(s) = SubSeq(s, Len(s) - Retained + 1, Len(s))
    BY <1>2 DEF Newest
  <2>2. Len(s) \in Nat /\ Len(s) - Retained + 1 \in 1..Len(s) + 1
    BY <1>2
  <2>3. Newest(s) \in Seq(Row)
    BY <2>1, <2>2, SubSeqProperties
  <2>4. ASSUME Len(s) = Retained + 2
        PROVE  /\ Len(Newest(s)) = Retained
               /\ \A i \in 1..Retained : Newest(s)[i] = s[i + 2]
    <3>1. Newest(s) = SubSeq(s, 3, Retained + 2)
      BY <2>1, <2>4
    <3>2. 3 \in 1..Len(s) + 1 /\ Retained + 2 \in 3 - 1..Len(s)
      BY <2>2, <2>4
    <3>3. /\ Len(Newest(s)) = (Retained + 2) - 3 + 1
          /\ \A i \in 1..(Retained + 2) - 3 + 1 : Newest(s)[i] = s[3 + i - 1]
      BY <3>1, <3>2, SubSeqProperties
    <3> QED BY <3>3
  <2> QED BY <1>2, <2>3, <2>4
<1> QED BY <1>1, <1>2

LEMMA EvenGap ==
  ASSUME NEW a \in Nat, NEW b \in Nat, a % 2 = 0, b % 2 = 0, a <= b, a + 2 > b
  PROVE  a = b
<1>1. a = b \/ a + 1 = b
  OBVIOUS
<1>2. a + 1 # b
  OBVIOUS
<1> QED BY <1>1, <1>2

LEMMA StillWhole ==
  ASSUME NEW s \in Seq(Row), NEW n \in Nat, n + 1 \in 1..MaxTurns,
         Whole(s), UpTo(s, n)
  PROVE  LET new == Newest(s \o Turn(n + 1)) IN
         /\ new \in Seq(Row) /\ Whole(new) /\ UpTo(new, n + 1)
         /\ new # <<>> => new[Len(new)].turn = n + 1
<1> DEFINE t == n + 1
           all == s \o Turn(t)
           new == Newest(all)
<1>1. /\ all \in Seq(Row) /\ Len(all) = Len(s) + 2
      /\ \A i \in 1..Len(s) : all[i] = s[i]
      /\ all[Len(s) + 1] = [turn |-> t, role |-> "user"]
      /\ all[Len(s) + 2] = [turn |-> t, role |-> "assistant"]
  BY Appended
<1>2. \A i \in 1..Len(all) :
        /\ all[i].role = IF i % 2 = 1 THEN "user" ELSE "assistant"
        /\ i % 2 = 0 => all[i].turn = all[i - 1].turn
        /\ i > 1 => all[i].turn >= all[i - 1].turn
        /\ all[i].turn <= t
  <2> SUFFICES ASSUME NEW i \in 1..Len(all)
               PROVE  /\ all[i].role = IF i % 2 = 1 THEN "user" ELSE "assistant"
                      /\ i % 2 = 0 => all[i].turn = all[i - 1].turn
                      /\ i > 1 => all[i].turn >= all[i - 1].turn
                      /\ all[i].turn <= t
    OBVIOUS
  <2> HIDE DEF all
  <2>0. Len(s) \in Nat /\ Len(s) % 2 = 0 /\ \A k \in 1..Len(s) : s[k].turn \in Nat
    <3>1. \A k \in 1..Len(s) : s[k] \in Row
      OBVIOUS
    <3>2. \A r \in Row : r.turn \in Nat
      BY DEF Row
    <3> QED BY <3>1, <3>2 DEF Whole
  <2>1. CASE i \in 1..Len(s)
    <3>1. /\ s[i].role = IF i % 2 = 1 THEN "user" ELSE "assistant"
          /\ i % 2 = 0 => s[i].turn = s[i - 1].turn
          /\ i > 1 => s[i].turn >= s[i - 1].turn
      BY <2>1 DEF Whole
    <3>2. s[i].turn <= t
      BY <2>0, <2>1 DEF UpTo
    <3>3. i > 1 => i - 1 \in 1..Len(s)
      BY <2>0, <2>1
    <3>4. i % 2 = 0 => i > 1
      BY <2>1
    <3>5. all[i] = s[i] /\ (i > 1 => all[i - 1] = s[i - 1])
      BY <1>1, <2>1, <3>3
    <3> QED BY <3>1, <3>2, <3>4, <3>5
  <2>2. CASE i = Len(s) + 1
    <3>1. i % 2 = 1
      BY <2>0, <2>2
    <3>2. i > 1 => all[i - 1] = s[Len(s)] /\ s[Len(s)].turn <= n
      BY <1>1, <2>0, <2>2 DEF UpTo
    <3>3. i > 1 => s[Len(s)].turn \in Nat
      BY <2>0, <2>2
    <3> QED BY <1>1, <2>2, <3>1, <3>2, <3>3
  <2>3. CASE i = Len(s) + 2
    <3>1. i % 2 = 0 /\ i - 1 = Len(s) + 1
      BY <2>0, <2>3
    <3> QED BY <1>1, <2>3, <3>1
  <2>4. Len(all) = Len(s) + 2
    BY <1>1
  <2>5. i \in 1..Len(s) \/ i = Len(s) + 1 \/ i = Len(s) + 2
    BY <2>0, <2>4
  <2> QED BY <2>1, <2>2, <2>3, <2>5
<1>3. Len(s) \in Nat /\ Len(s) % 2 = 0 /\ Len(s) <= Retained
  BY DEF Whole
<1>4. /\ new \in Seq(Row)
      /\ Len(all) <= Retained => new = all
      /\ Len(all) = Retained + 2 =>
           /\ Len(new) = Retained
           /\ \A i \in 1..Retained : new[i] = all[i + 2]
  <2>1. Len(all) >= 2
    BY <1>1, <1>3
  <2> QED BY <1>1, <2>1, Pruned
<1> HIDE DEF new, all
<1>5. CASE Len(all) <= Retained
  <2>1. new = all /\ Len(all) % 2 = 0 /\ Len(all) > 0
    BY <1>1, <1>3, <1>4, <1>5
  <2>2. Whole(all) /\ UpTo(all, t)
    BY <1>2, <1>5, <2>1 DEF Whole, UpTo
  <2>3. all[Len(all)].turn = t
    BY <1>1
  <2> QED BY <1>1, <2>1, <2>2, <2>3 DEF new, all
<1>6. CASE ~(Len(all) <= Retained)
  <2>1. Len(all) = Retained + 2 /\ Len(s) = Retained
    <3>1. Len(all) = Len(s) + 2
      BY <1>1
    <3>2. Len(s) + 2 > Retained
      BY <1>3, <1>6, <3>1
    <3>3. Len(s) = Retained
      BY <1>3, <3>2, EvenGap
    <3> QED BY <3>1, <3>3
  <2>2. Len(new) = Retained /\ \A i \in 1..Retained : new[i] = all[i + 2]
    BY <1>4, <2>1
  <2>3. \A i \in 1..Retained :
          /\ new[i].role = IF i % 2 = 1 THEN "user" ELSE "assistant"
          /\ i % 2 = 0 => new[i].turn = new[i - 1].turn
          /\ i > 1 => new[i].turn >= new[i - 1].turn
          /\ new[i].turn <= t
    <3> SUFFICES ASSUME NEW i \in 1..Retained
                 PROVE  /\ new[i].role = IF i % 2 = 1 THEN "user" ELSE "assistant"
                        /\ i % 2 = 0 => new[i].turn = new[i - 1].turn
                        /\ i > 1 => new[i].turn >= new[i - 1].turn
                        /\ new[i].turn <= t
      OBVIOUS
    <3>1. i + 2 \in 1..Len(all) /\ (i + 2) % 2 = i % 2 /\ (i + 2) - 1 = i + 1
      BY <2>1
    <3>2. /\ all[i + 2].role = IF i % 2 = 1 THEN "user" ELSE "assistant"
          /\ i % 2 = 0 => all[i + 2].turn = all[i + 1].turn
          /\ all[i + 2].turn >= all[i + 1].turn
          /\ all[i + 2].turn <= t
      <4>1. i + 2 > 1
        OBVIOUS
      <4> QED BY <1>2, <3>1, <4>1
    <3>3. i > 1 => i - 1 \in 1..Retained
      OBVIOUS
    <3>4. i % 2 = 0 => i > 1
      OBVIOUS
    <3>5. new[i] = all[i + 2] /\ (i > 1 => new[i - 1] = all[i + 1])
      BY <2>2, <3>3
    <3> QED BY <3>2, <3>4, <3>5
  <2>4. new # <<>> => new[Len(new)].turn = t
    <3>1. SUFFICES ASSUME new # <<>> PROVE new[Len(new)].turn = t
      OBVIOUS
    <3>2. Retained \in 1..Retained
      BY <1>4, <2>2, <3>1
    <3> QED BY <1>1, <2>1, <2>2, <3>2
  <2>5. Whole(new) /\ UpTo(new, t)
    BY <1>3, <2>1, <2>2, <2>3 DEF Whole, UpTo
  <2> QED BY <1>4, <2>4, <2>5 DEF new, all
<1> QED BY <1>5, <1>6

------------------------------------------------------------------------------
(* The invariant *)

Dated == UpTo(chats, turns)

\* A turn that goes on has a call left, and only a writer's turn has patches.
TurnRules ==
  \A u \in User : /\ Under(u, "round") => req[u].round < MaxRounds
                  /\ req[u].patched => req[u].write

Inv == ChatShape /\ TurnRules /\ HistoryIsTurns /\ Dated

LEMMA HistoryIsWhole == HistoryIsTurns <=> Whole(chats)
BY DEF HistoryIsTurns, Whole

LEMMA InitInv == ChatInit => Inv
<1> SUFFICES ASSUME ChatInit PROVE Inv
  OBVIOUS
<1>1. Idle \in Request
  BY DEF Idle, Request
<1>2. ChatTypeOK
  BY <1>1 DEF ChatInit, ChatTypeOK
<1>3. Holders = {}
  BY DEF ChatInit, Holders, Idle
<1>4. PermitsAreCalls
  <2>1. Cardinality(Holders) = 0
    BY <1>3, FS_EmptySet
  <2> QED BY <2>1 DEF ChatInit, PermitsAreCalls, Holders
<1>5. HistoryIsTurns /\ Dated
  BY DEF ChatInit, HistoryIsTurns, Dated, UpTo
<1>6. TurnRules
  BY DEF ChatInit, TurnRules, Under, Idle
<1> QED BY <1>2, <1>4, <1>5, <1>6 DEF Inv, ChatShape

\* A step that leaves the tables alone keeps their types.
LEMMA TablesStay ==
  ASSUME ChatShape, UNCHANGED <<Chat, elsewhere>>,
         PermitsAreCalls', active' \in 0..1, req' \in [User -> Request]
  PROVE  ChatShape'
BY DEF ChatShape, ChatTypeOK, Chat

\* The permits' side of every step.
LEMMA ShapeStep ==
  ASSUME Inv, [ChatNext]_chatVars
  PROVE  ChatShape'
<1> USE DEF Inv
<1>0. \A u \in User : req[u] \in Request
  BY DEF ChatShape, ChatTypeOK
<1>1. ASSUME NEW u \in User, Ask(u)
      PROVE  ChatShape'
  <2> DEFINE new == [Idle EXCEPT !.phase = "body"]
  <2>1. new \in Request /\ new.phase = "body"
    BY <1>0, RequestColumns DEF Phases, Idle
  <2> HIDE DEF new
  <2> QED BY <1>1, <2>1, Unheld, TablesStay DEF Ask, Under, new
<1>2. ASSUME NEW u \in User, NEW w \in BOOLEAN, FirstCall(u, w)
      PROVE  ChatShape'
  <2> DEFINE new == [phase |-> "call", write |-> w, base |-> brief,
                     round |-> 1, patched |-> FALSE]
  <2>1. new \in Request /\ new.phase = "call"
    BY DEF Request, ChatShape, ChatTypeOK
  <2> HIDE DEF new
  <2> QED BY <1>2, <2>1, Taken, TablesStay DEF FirstCall, Under, new
<1>3. ASSUME NEW u \in User,
             FirstCallRefused(u) \/ NextCallRefused(u) \/ Refuse(u)
      PROVE  ChatShape'
  <2>1. Idle \in Request /\ Idle.phase = "idle"
    BY DEF Idle, Request
  <2> QED BY <1>3, <2>1, Unheld, TablesStay
          DEF FirstCallRefused, NextCallRefused, Refuse, Under
<1>4. ASSUME NEW u \in User, CallFails(u) \/ EndHelper(u)
      PROVE  ChatShape'
  <2>1. Idle \in Request /\ Idle.phase = "idle"
    BY DEF Idle, Request
  <2> QED BY <1>4, <2>1, Returned, TablesStay DEF CallFails, EndHelper, Under
<1>5. ASSUME NEW u \in User, NEW p \in BOOLEAN, NextRound(u, p)
      PROVE  ChatShape'
  <2> DEFINE new == [req[u] EXCEPT !.phase = "round", !.patched = @ \/ p]
  <2>1. new \in Request
    BY <1>0, PatchedColumns DEF Phases
  <2>2. new.phase = "round"
    BY <1>0 DEF Request
  <2> HIDE DEF new
  <2> QED BY <1>5, <2>1, <2>2, Returned, TablesStay DEF NextRound, Under, new
<1>6. ASSUME NEW u \in User, NEW p \in BOOLEAN, LastAnswer(u, p)
      PROVE  ChatShape'
  <2> DEFINE new == [req[u] EXCEPT !.phase = "outcome", !.round = 0,
                                   !.patched = @ \/ p]
  <2>1. new \in Request
    BY <1>0, PatchedColumns DEF Phases
  <2>2. new.phase = "outcome"
    BY <1>0 DEF Request
  <2> HIDE DEF new
  <2> QED BY <1>6, <2>1, <2>2, Returned, TablesStay DEF LastAnswer, Under, new
<1>7. ASSUME NEW u \in User, NextCall(u)
      PROVE  ChatShape'
  <2> DEFINE new == [req[u] EXCEPT !.phase = "call", !.round = @ + 1]
  <2>1. new \in Request
    BY <1>0, <1>7, RoundColumn DEF NextCall, TurnRules
  <2>2. new.phase = "call"
    BY <1>0 DEF Request
  <2> HIDE DEF new
  <2> QED BY <1>7, <2>1, <2>2, Taken, TablesStay DEF NextCall, Under, new
<1>8. ASSUME NEW u \in User, StartHelper(u)
      PROVE  ChatShape'
  <2> DEFINE new == [Idle EXCEPT !.phase = "helper"]
  <2>1. new \in Request /\ new.phase = "helper"
    BY <1>0, RequestColumns DEF Phases, Idle
  <2> HIDE DEF new
  <2> QED BY <1>8, <2>1, Taken, TablesStay DEF StartHelper, Under, new
<1>9. ASSUME NEW u \in User, Commit(u)
      PROVE  ChatShape'
  <2>1. Idle \in Request /\ Idle.phase = "idle"
    BY DEF Idle, Request
  <2>2. PermitsAreCalls' /\ active' \in 0..1 /\ req' \in [User -> Request]
    BY <1>9, <2>1, Unheld DEF Commit, Under
  <2>3. turns \in Nat /\ turns + 1 \in 1..MaxTurns /\ turns' = turns + 1
    BY <1>9 DEF Commit, ChatShape, ChatTypeOK
  <2>4. chats' \in Seq(Row)
    <3>1. chats' = Newest(chats \o Turn(turns + 1))
      BY <1>9 DEF Commit, Turn
    <3> QED BY <2>3, <3>1, HistoryIsWhole, StillWhole DEF ChatShape, ChatTypeOK, Dated
  <2>5. candidates' \subseteq Candidate
    <3>1. req[u].base \in Content
      BY <1>9, <1>0 DEF Commit, Fits, MayGoOn, CanWrite, CanCollaborate, ChatShape,
         ChatTypeOK, Request
    <3>2. [turn |-> turns + 1, base |-> req[u].base] \in Candidate
      BY <2>3, <3>1 DEF Candidate
    <3> QED BY <1>9, <3>2 DEF Commit, ChatShape, ChatTypeOK
  <2>6. UNCHANGED <<brief, right, hermes, elsewhere>>
    BY <1>9 DEF Commit
  <2> QED BY <2>2, <2>3, <2>4, <2>5, <2>6 DEF ChatShape, ChatTypeOK
<1>10. ASSUME StartElsewhere \/ EndElsewhere
       PROVE  ChatShape'
  <2>1. elsewhere' \in 0..GlobalLimit /\ active + elsewhere' <= GlobalLimit
    BY <1>10 DEF StartElsewhere, EndElsewhere, ChatShape, ChatTypeOK, PermitsAreCalls
  <2>2. UNCHANGED <<Chat, active, req>>
    BY <1>10 DEF StartElsewhere, EndElsewhere
  <2> QED BY <2>1, <2>2 DEF ChatShape, ChatTypeOK, PermitsAreCalls, Chat
<1>11. ASSUME (\E c \in Content : Edit(c)) \/ DeleteBrief
       PROVE  ChatShape'
  BY <1>11 DEF Edit, DeleteBrief, ChatShape, ChatTypeOK, PermitsAreCalls
<1>12. ASSUME \E u \in User : ClearHistory(u) \/ \E r \in Right : SetRight(u, r)
       PROVE  ChatShape'
  <2>1. <<>> \in Seq(Row)
    OBVIOUS
  <2> QED BY <1>12, <2>1 DEF ClearHistory, SetRight, ChatShape, ChatTypeOK, PermitsAreCalls
<1>13. ASSUME Restart
       PROVE  ChatShape'
  <2>1. Idle \in Request
    BY DEF Idle, Request
  <2>2. req' \in [User -> Request]
    BY <1>13, <2>1 DEF Restart
  <2>3. Holders' = {}
    BY <1>13 DEF Restart, Holders, Idle
  <2>4. Cardinality(Holders') = 0
    BY <2>3, FS_EmptySet
  <2>5. active' = 0 /\ elsewhere' = 0 /\ UNCHANGED Chat
    BY <1>13 DEF Restart
  <2>6. PermitsAreCalls'
    BY <2>4, <2>5 DEF PermitsAreCalls, Holders
  <2>7. ChatTypeOK'
    BY <2>2, <2>5 DEF ChatShape, ChatTypeOK, Chat
  <2> QED BY <2>6, <2>7 DEF ChatShape
<1>14. ASSUME UNCHANGED chatVars
       PROVE  ChatShape'
  BY <1>14 DEF chatVars, ChatShape, ChatTypeOK, PermitsAreCalls
<1> QED
  BY <1>1, <1>2, <1>3, <1>4, <1>5, <1>6, <1>7, <1>8, <1>9, <1>10, <1>11, <1>12,
     <1>13, <1>14 DEF ChatNext, Answered, Continued

\* No other step lets a turn go on: NextRound asks for a call left.
LEMMA TurnRulesStep ==
  ASSUME Inv, [ChatNext]_chatVars
  PROVE  TurnRules'
<1> USE DEF Inv
<1>0. req \in [User -> Request]
  BY DEF ChatShape, ChatTypeOK
<1>1. ASSUME NEW u \in User, NEW new \in Request, Settle(u, new),
             new.phase = "round" => new.round < MaxRounds,
             new.patched => new.write
      PROVE  TurnRules'
  BY <1>0, <1>1 DEF Settle, TurnRules, Under
<1>2. Idle \in Request /\ Idle.phase = "idle" /\ ~Idle.patched
  BY DEF Idle, Request
<1>3. ASSUME NEW u \in User,
             \/ FirstCallRefused(u) \/ NextCallRefused(u) \/ Refuse(u)
             \/ CallFails(u) \/ EndHelper(u) \/ Commit(u)
      PROVE  TurnRules'
  <2>1. Settle(u, Idle)
    BY <1>3 DEF FirstCallRefused, NextCallRefused, Refuse, CallFails, EndHelper,
       Commit
  <2> QED BY <1>1, <1>2, <2>1
<1>4. ASSUME NEW u \in User, Ask(u) \/ StartHelper(u)
      PROVE  TurnRules'
  <2>1. \A p \in {"body", "helper"} :
          /\ [Idle EXCEPT !.phase = p] \in Request
          /\ [Idle EXCEPT !.phase = p].phase = p
          /\ ~[Idle EXCEPT !.phase = p].patched
    BY <1>2 DEF Request
  <2>2. PICK p \in {"body", "helper"} : Settle(u, [Idle EXCEPT !.phase = p])
    BY <1>4 DEF Ask, StartHelper
  <2> QED BY <1>1, <2>1, <2>2
<1>5. ASSUME NEW u \in User, NEW w \in BOOLEAN, FirstCall(u, w)
      PROVE  TurnRules'
  <2> DEFINE new == [phase |-> "call", write |-> w, base |-> brief,
                     round |-> 1, patched |-> FALSE]
  <2>1. new \in Request /\ new.phase = "call" /\ ~new.patched
    BY DEF Request, ChatShape, ChatTypeOK
  <2> HIDE DEF new
  <2> QED BY <1>1, <1>5, <2>1 DEF FirstCall, new
<1>6. ASSUME NEW u \in User, NEW p \in BOOLEAN, NextRound(u, p)
      PROVE  TurnRules'
  <2> DEFINE new == [req[u] EXCEPT !.phase = "round", !.patched = @ \/ p]
  <2>1. new \in Request
    BY <1>0, PatchedColumns DEF Phases
  <2>2. /\ new.round = req[u].round /\ req[u].round < MaxRounds
        /\ new.write = req[u].write /\ req[u].write
    BY <1>0, <1>6 DEF Request, NextRound
  <2> HIDE DEF new
  <2> QED BY <1>1, <1>6, <2>1, <2>2 DEF NextRound, new
<1>7. ASSUME NEW u \in User, NEW p \in BOOLEAN, LastAnswer(u, p)
      PROVE  TurnRules'
  <2> DEFINE new == [req[u] EXCEPT !.phase = "outcome", !.round = 0,
                                   !.patched = @ \/ p]
  <2>1. new \in Request
    BY <1>0, PatchedColumns DEF Phases
  <2>2. new.phase = "outcome" /\ new.write = req[u].write
    BY <1>0 DEF Request
  <2>3. new.patched = (req[u].patched \/ p)
    BY <1>0 DEF Request
  <2>4. new.patched => new.write
    BY <1>7, <2>2, <2>3 DEF LastAnswer, TurnRules
  <2> HIDE DEF new
  <2> QED BY <1>1, <1>7, <2>1, <2>2, <2>4 DEF LastAnswer, new
<1>8. ASSUME NEW u \in User, NextCall(u)
      PROVE  TurnRules'
  <2> DEFINE new == [req[u] EXCEPT !.phase = "call", !.round = @ + 1]
  <2>1. new \in Request
    BY <1>0, <1>8, RoundColumn DEF NextCall, TurnRules
  <2>2. /\ new.phase = "call"
        /\ new.write = req[u].write /\ new.patched = req[u].patched
    BY <1>0 DEF Request
  <2> HIDE DEF new
  <2> QED BY <1>1, <1>8, <2>1, <2>2 DEF NextCall, TurnRules, new
<1>9. ASSUME Restart
      PROVE  TurnRules'
  BY <1>2, <1>9 DEF Restart, TurnRules, Under
<1>10. ASSUME \/ StartElsewhere \/ EndElsewhere \/ DeleteBrief
              \/ (\E c \in Content : Edit(c)) \/ UNCHANGED chatVars
              \/ \E u \in User : ClearHistory(u) \/ \E r \in Right : SetRight(u, r)
       PROVE  TurnRules'
  <2>1. req' = req
    BY <1>10 DEF StartElsewhere, EndElsewhere, DeleteBrief, Edit, chatVars,
       ClearHistory, SetRight
  <2> QED BY <2>1 DEF TurnRules, Under
<1> QED
  BY <1>3, <1>4, <1>5, <1>6, <1>7, <1>8, <1>9, <1>10 DEF ChatNext, Answered, Continued

\* The only steps that write the tables of the chat.
LEMMA Writers ==
  ASSUME [ChatNext]_chatVars
  PROVE  \/ \E u \in User : Commit(u)
         \/ /\ candidates' \subseteq candidates /\ turns' = turns
            /\ chats' = chats \/ chats' = <<>>
<1>1. ASSUME NEW u \in User, NEW p \in BOOLEAN,
             \/ Ask(u) \/ FirstCall(u, p) \/ FirstCallRefused(u) \/ CallFails(u)
             \/ NextRound(u, p) \/ LastAnswer(u, p) \/ NextCall(u)
             \/ NextCallRefused(u) \/ Refuse(u) \/ StartHelper(u) \/ EndHelper(u)
      PROVE  UNCHANGED Chat
  BY <1>1 DEF Ask, FirstCall, FirstCallRefused, CallFails, NextRound, LastAnswer,
     NextCall, NextCallRefused, Refuse, StartHelper, EndHelper
<1>2. ASSUME StartElsewhere \/ EndElsewhere \/ Restart
      PROVE  UNCHANGED Chat
  BY <1>2 DEF StartElsewhere, EndElsewhere, Restart
<1>3. ASSUME \/ DeleteBrief \/ (\E c \in Content : Edit(c)) \/ UNCHANGED chatVars
             \/ \E u \in User : ClearHistory(u) \/ \E r \in Right : SetRight(u, r)
      PROVE  /\ candidates' \subseteq candidates /\ turns' = turns
             /\ chats' = chats \/ chats' = <<>>
  BY <1>3 DEF DeleteBrief, Edit, chatVars, ClearHistory, SetRight
<1>4. ASSUME UNCHANGED Chat
      PROVE  candidates' \subseteq candidates /\ turns' = turns /\ chats' = chats
  BY <1>4 DEF Chat
<1> QED BY <1>1, <1>2, <1>3, <1>4 DEF ChatNext, Answered, Continued

\* What Commit leaves of the history.
LEMMA CommitStep ==
  ASSUME Inv, NEW u \in User, Commit(u)
  PROVE  /\ HistoryIsTurns' /\ Dated'
         /\ chats' # <<>> => chats'[Len(chats')].turn = turns + 1
<1>1. turns \in Nat /\ turns + 1 \in 1..MaxTurns /\ turns' = turns + 1
  BY DEF Inv, Commit, ChatShape, ChatTypeOK
<1>2. chats' = Newest(chats \o Turn(turns + 1))
  BY DEF Commit, Turn
<1>3. chats \in Seq(Row) /\ Whole(chats) /\ UpTo(chats, turns)
  BY HistoryIsWhole DEF Inv, ChatShape, ChatTypeOK, Dated
<1>4. /\ Whole(chats') /\ UpTo(chats', turns + 1)
      /\ chats' # <<>> => chats'[Len(chats')].turn = turns + 1
  BY <1>1, <1>2, <1>3, StillWhole
<1>5. HistoryIsTurns'
  BY <1>4 DEF HistoryIsTurns, Whole
<1>6. Dated'
  BY <1>1, <1>4 DEF Dated
<1> QED BY <1>4, <1>5, <1>6

LEMMA HistoryStep ==
  ASSUME Inv, [ChatNext]_chatVars
  PROVE  HistoryIsTurns' /\ Dated'
<1>1. CASE \E u \in User : Commit(u)
  BY <1>1, CommitStep
<1>2. CASE turns' = turns /\ chats' = chats
  BY <1>2 DEF Inv, HistoryIsTurns, Dated, UpTo
<1>3. CASE chats' = <<>>
  BY <1>3 DEF HistoryIsTurns, Dated, UpTo
<1> QED BY <1>1, <1>2, <1>3, Writers

LEMMA InvHolds == ChatSafeSpec => []Inv
<1>1. Inv /\ [ChatNext]_chatVars => Inv'
  BY ShapeStep, TurnRulesStep, HistoryStep DEF Inv
<1> QED BY InitInv, <1>1, PTL DEF ChatSafeSpec

------------------------------------------------------------------------------
(* The properties *)

\* Every variable keeps its type: the rounds of a turn stay within MaxRounds and
\* a permit is never returned that was not taken.
THEOREM ChatTypes == ChatSafeSpec => []ChatTypeOK
BY InvHolds, PTL DEF Inv, ChatShape

\* For any number of users and any limit, the permits given out for a brief are
\* the calls under way for it, whichever call of a turn fails or is refused.
THEOREM PermitsHold == ChatSafeSpec => []PermitsAreCalls
BY InvHolds, PTL DEF Inv, ChatShape

\* For every even bound, pruning keeps whole turns in the order of asking.
THEOREM HistoryHolds == ChatSafeSpec => []HistoryIsTurns
BY InvHolds, PTL DEF Inv

\* Candidates are queued against the brief that stands and for a writer, and the
\* turn that proposed them is the last of the history.
THEOREM ProposalsAreCurrent == ChatSafeSpec => ProposedFromCurrent
<1>1. ASSUME Inv, [ChatNext]_chatVars, NEW c \in candidates' \ candidates
      PROVE  /\ c.base = brief /\ brief' = brief
             /\ \E u \in User : Under(u, "outcome") /\ req[u].write /\ CanWrite(u)
                                /\ req' = [req EXCEPT ![u] = Idle]
             /\ chats' # <<>> => chats'[Len(chats')].turn = c.turn
  <2>1. PICK u \in User : Commit(u)
    BY <1>1, Writers
  <2>2. c = [turn |-> turns + 1, base |-> req[u].base] /\ req[u].patched
    BY <1>1, <2>1 DEF Commit
  <2>3. req[u].write
    BY <1>1, <2>2 DEF Inv, TurnRules
  <2>4. brief = req[u].base /\ brief' = brief /\ CanWrite(u)
    BY <2>1, <2>3 DEF Commit, Fits, MayGoOn
  <2>5. Under(u, "outcome") /\ req' = [req EXCEPT ![u] = Idle]
    BY <2>1 DEF Commit, Settle
  <2>6. chats' # <<>> => chats'[Len(chats')].turn = c.turn
    BY <1>1, <2>1, <2>2, CommitStep
  <2> QED BY <2>2, <2>3, <2>4, <2>5, <2>6
<1>2. Inv /\ [ChatNext]_chatVars =>
        [\A c \in candidates' \ candidates :
           /\ c.base = brief /\ brief' = brief
           /\ \E u \in User : Under(u, "outcome") /\ req[u].write /\ CanWrite(u)
                              /\ req' = [req EXCEPT ![u] = Idle]
           /\ chats' # <<>> => chats'[Len(chats')].turn = c.turn]_chatVars
  BY <1>1
<1> QED BY InvHolds, <1>2, PTL DEF ChatSafeSpec, ProposedFromCurrent

\* A call, the first of a turn or a later one, is started only for somebody who
\* has the right for it at that moment.
THEOREM CallsHold == ChatSafeSpec => CallsAreAuthorised
<1>1. ASSUME Inv, [ChatNext]_chatVars, NEW u \in User,
             ~Under(u, "call"), req'[u].phase = "call"
      PROVE  MayGoOn(u, req'[u].write)
  <2>0. req \in [User -> Request]
    BY <1>1 DEF Inv, ChatShape, ChatTypeOK
  <2>1. CASE \E v \in User : NextCall(v)
    <3>1. PICK v \in User : NextCall(v)
      BY <2>1
    <3>2. v = u
      BY <1>1, <2>0, <3>1 DEF NextCall, Settle, Under
    <3>3. right[u] = "write" /\ CanWrite(u)
      BY <3>1, <3>2 DEF NextCall, MayGoOn, CanWrite
    <3> QED BY <3>3 DEF MayGoOn, CanWrite, CanCollaborate
  <2>2. CASE \E v \in User, w \in BOOLEAN : FirstCall(v, w)
    <3>1. PICK v \in User, w \in BOOLEAN : FirstCall(v, w)
      BY <2>2
    <3>2. v = u
      BY <1>1, <2>0, <3>1 DEF FirstCall, Settle, Under
    <3>3. req'[u].write = w /\ (w => CanWrite(u)) /\ CanCollaborate(u)
      BY <2>0, <3>1, <3>2 DEF FirstCall, Settle
    <3> QED BY <3>3 DEF MayGoOn
  <2>3. ASSUME NEW v \in User, NEW p \in BOOLEAN,
               \/ Ask(v) \/ FirstCallRefused(v) \/ CallFails(v) \/ NextRound(v, p)
               \/ LastAnswer(v, p) \/ NextCallRefused(v) \/ Refuse(v)
               \/ StartHelper(v) \/ EndHelper(v) \/ Commit(v)
        PROVE  FALSE
    <3>1. \A r \in Request, q \in {"round", "outcome", "body", "helper"} :
            /\ [r EXCEPT !.phase = q].phase # "call"
            /\ [Idle EXCEPT !.phase = q].phase # "call"
            /\ \A b \in BOOLEAN :
                 /\ [r EXCEPT !.phase = q, !.patched = @ \/ b].phase # "call"
                 /\ [r EXCEPT !.phase = q, !.round = 0, !.patched = @ \/ b].phase # "call"
      BY DEF Request, Idle
    <3>2. Idle.phase # "call"
      BY DEF Idle
    <3>3. \E new : Settle(v, new) /\ new.phase # "call"
      BY <2>0, <2>3, <3>1, <3>2 DEF Ask, FirstCallRefused, CallFails, NextRound,
         LastAnswer, NextCallRefused, Refuse, StartHelper, EndHelper, Commit
    <3> QED BY <1>1, <2>0, <3>3 DEF Settle, Under
  <2>4. ASSUME \/ StartElsewhere \/ EndElsewhere \/ DeleteBrief
               \/ (\E c \in Content : Edit(c)) \/ UNCHANGED chatVars
               \/ \E v \in User : ClearHistory(v) \/ \E r \in Right : SetRight(v, r)
        PROVE  FALSE
    <3>1. req' = req
      BY <2>4 DEF StartElsewhere, EndElsewhere, DeleteBrief, Edit, chatVars,
         ClearHistory, SetRight
    <3> QED BY <1>1, <3>1 DEF Under
  <2>5. ASSUME Restart
        PROVE  FALSE
    BY <1>1, <2>5 DEF Restart, Idle
  <2> QED
    BY <1>1, <2>1, <2>2, <2>3, <2>4, <2>5 DEF ChatNext, Answered, Continued
<1>2. Inv /\ [ChatNext]_chatVars =>
        [\A u \in User : ~Under(u, "call") /\ req'[u].phase = "call" =>
                           MayGoOn(u, req'[u].write)]_chatVars
  BY <1>1
<1> QED BY InvHolds, <1>2, PTL DEF ChatSafeSpec, CallsAreAuthorised
==============================================================================
