------------------------------ MODULE BriefChat ------------------------------
(***************************************************************************)
(* The AI chat of one brief (app/api/briefs/[id]/chat/route.ts) and the    *)
(* semaphore of provider calls it shares with the other AI handlers        *)
(* (lib/providerConcurrency.ts).                                           *)
(*                                                                         *)
(* A turn of the chat awaits the request body, then up to MaxRounds        *)
(* provider calls, each with a permit of its own, and then writes its      *)
(* outcome in one transaction: the review candidates, the question and the *)
(* reply, and the pruning of the history.  Meanwhile the brief is edited   *)
(* or deleted, rights are given and taken, and the history is cleared.     *)
(*                                                                         *)
(* Abstractions.  A brief's JSON is a member of Content, as in             *)
(* ResearchQueue.  What a user may do on the brief is one level; roles,    *)
(* ownership and shares behind it are those of ResearchQueue.  A chat row  *)
(* is its turn and its role, and rows stand in the order they were written:*)
(* a provider call lies between two outcomes, so that they differ in their *)
(* created_at.  A user has one request open at a time.  Text bounds, the   *)
(* document context and patch validation are one choice: whether the       *)
(* provider's answer is accepted.                                          *)
(***************************************************************************)
EXTENDS Integers, FiniteSets, Sequences

CONSTANTS
  User,          \* people with an account
  Content,       \* the values a brief_json can take
  NoBrief,       \* the brief was deleted, outside Content
  MaxRounds,     \* provider calls per turn
  GlobalLimit,   \* PROVIDER_CONCURRENCY_LIMITS.global
  Retained,      \* CHAT_HISTORY_RETAINED_ROWS
  MaxTurns       \* bound: turns ever written

Right == {"none", "collaborate", "write"}

ASSUME ChatAssumption ==
  /\ IsFiniteSet(User)
  /\ NoBrief \notin Content
  /\ MaxRounds \in Nat \ {0} /\ GlobalLimit \in Nat
  /\ Retained \in Nat /\ Retained % 2 = 0
  /\ MaxTurns \in Nat

VARIABLES
  brief,       \* the brief's JSON
  right,       \* what each user may do on the brief
  hermes,      \* selectChatPath: the runtime service instead of the provider
  chats,       \* table brief_chats, in the order of created_at
  candidates,  \* review candidates queued by the chat
  turns,       \* turns written so far
  active,      \* permits given out for this brief
  elsewhere,   \* permits given out for other keys
  req          \* the suspended request of each user

chatVars == <<brief, right, hermes, chats, candidates, turns, active, elsewhere, req>>

Idle == [phase |-> "idle", write |-> FALSE, base |-> NoBrief, round |-> 0,
         patched |-> FALSE]
Request == [phase : {"idle", "body", "call", "round", "outcome", "helper"},
            write : BOOLEAN, base : Content \union {NoBrief},
            round : 0..MaxRounds, patched : BOOLEAN]
Row == [turn : 1..MaxTurns, role : {"user", "assistant"}]
Candidate == [turn : 1..MaxTurns, base : Content]

ChatTypeOK ==
  /\ brief \in Content \union {NoBrief}
  /\ right \in [User -> Right]
  /\ hermes \in BOOLEAN
  /\ chats \in Seq(Row)
  /\ candidates \subseteq Candidate
  /\ turns \in 0..MaxTurns
  /\ active \in 0..1 /\ elsewhere \in 0..GlobalLimit
  /\ req \in [User -> Request]

ChatInit ==
  /\ brief \in Content
  /\ right \in [User -> Right]
  /\ hermes \in BOOLEAN
  /\ chats = <<>> /\ candidates = {} /\ turns = 0
  /\ active = 0 /\ elsewhere = 0
  /\ req = [u \in User |-> Idle]

------------------------------------------------------------------------------
CanWrite(u) == brief # NoBrief /\ right[u] = "write"
CanCollaborate(u) == brief # NoBrief /\ right[u] # "none"

(* currentChatUser: looked up anew before every call and in the transaction *)
MayGoOn(u, write) == IF write THEN CanWrite(u) ELSE CanCollaborate(u)

(* tryAcquire; PROVIDER_CONCURRENCY_LIMITS.perKey is 1 *)
Free == active = 0 /\ active + elsewhere < GlobalLimit

Under(u, phase) == req[u].phase = phase
Settle(u, new) == req' = [req EXCEPT ![u] = new]
Chat == <<brief, right, hermes, chats, candidates, turns>>

------------------------------------------------------------------------------
(* A turn *)

Ask(u) ==
  /\ Under(u, "idle") /\ CanCollaborate(u)
  /\ Settle(u, [Idle EXCEPT !.phase = "body"])
  /\ UNCHANGED <<Chat, active, elsewhere>>

(* the body is there: the brief is read, and the first call starts at once.
   The role is the one read before the body: somebody promoted meanwhile goes
   on as a reader. *)
FirstCall(u, write) ==
  /\ Under(u, "body") /\ CanCollaborate(u) /\ Free
  /\ write => CanWrite(u)
  /\ active' = active + 1
  /\ Settle(u, [phase |-> "call", write |-> write, base |-> brief,
                round |-> 1, patched |-> FALSE])
  /\ UNCHANGED <<Chat, elsewhere>>

(* 403, 404 or 429, or providers are switched off *)
FirstCallRefused(u) ==
  /\ Under(u, "body")
  /\ Settle(u, Idle)
  /\ UNCHANGED <<Chat, active, elsewhere>>

(* the provider pauses or uses the tool, with patches that validate (p) or
   not; the permit goes back and another one is needed to continue *)
NextRound(u, p) ==
  /\ Under(u, "call") /\ req[u].write /\ ~hermes
  /\ req[u].round < MaxRounds
  /\ active' = active - 1
  /\ Settle(u, [req[u] EXCEPT !.phase = "round", !.patched = @ \/ p])
  /\ UNCHANGED <<Chat, elsewhere>>

\* Mutant of NextCall: the calls of a turn are not counted.
NextCallUncounted(u) ==
  /\ Under(u, "round") /\ Free /\ MayGoOn(u, TRUE)
  /\ active' = active + 1
  /\ Settle(u, [req[u] EXCEPT !.phase = "call"])
  /\ UNCHANGED <<Chat, elsewhere>>

NextCall(u) ==
  /\ Under(u, "round") /\ Free /\ MayGoOn(u, TRUE)
  /\ active' = active + 1
  /\ Settle(u, [req[u] EXCEPT !.phase = "call", !.round = @ + 1])
  /\ UNCHANGED <<Chat, elsewhere>>

(* 403 or 429 in the middle of a turn: what it collected is dropped *)
NextCallRefused(u) ==
  /\ Under(u, "round") /\ ~(Free /\ MayGoOn(u, TRUE))
  /\ Settle(u, Idle)
  /\ UNCHANGED <<Chat, active, elsewhere>>

(* pruneChatHistory *)
Newest(s) ==
  IF Len(s) <= Retained THEN s ELSE SubSeq(s, Len(s) - Retained + 1, Len(s))

\* Mutant of Fits: the brief_json the turn began with is not compared.
FitsAnyBrief(u) == MayGoOn(u, req[u].write)

Fits(u) == MayGoOn(u, req[u].write) /\ brief = req[u].base

(* the answer is the last: text, or the patches of the last call allowed, or,
   from the runtime service, the patches of its only call (p) *)
LastAnswer(u, p) ==
  /\ Under(u, "call")
  /\ p => req[u].write /\ (hermes \/ req[u].round = MaxRounds)
  /\ active' = active - 1
  /\ Settle(u, [req[u] EXCEPT !.phase = "outcome", !.round = 0, !.patched = @ \/ p])
  /\ UNCHANGED <<Chat, elsewhere>>

(* the provider fails or gives up, or its answer is out of bounds *)
CallFails(u) ==
  /\ Under(u, "call")
  /\ active' = active - 1 /\ Settle(u, Idle)
  /\ UNCHANGED <<Chat, elsewhere>>

(* commitChatOutcome *)
Commit(u) ==
  LET t == turns + 1 IN
  /\ Under(u, "outcome") /\ Fits(u)
  /\ turns < MaxTurns /\ turns' = t
  /\ candidates' = IF req[u].patched
                   THEN candidates \union {[turn |-> t, base |-> req[u].base]}
                   ELSE candidates
  /\ chats' = Newest(chats \o <<[turn |-> t, role |-> "user"],
                                [turn |-> t, role |-> "assistant"]>>)
  /\ Settle(u, Idle)
  /\ UNCHANGED <<brief, right, hermes, active, elsewhere>>

(* 403 or 409, or a statement of the transaction fails: nothing is written *)
Refuse(u) ==
  /\ Under(u, "outcome")
  /\ Settle(u, Idle)
  /\ UNCHANGED <<Chat, active, elsewhere>>

------------------------------------------------------------------------------
(* The other handlers that call the provider *)

(* for this brief: the assistant of the journal, the help with a comment *)
StartHelper(u) ==
  /\ Under(u, "idle") /\ CanCollaborate(u) /\ Free
  /\ active' = active + 1 /\ Settle(u, [Idle EXCEPT !.phase = "helper"])
  /\ UNCHANGED <<Chat, elsewhere>>

EndHelper(u) ==
  /\ Under(u, "helper")
  /\ active' = active - 1 /\ Settle(u, Idle)
  /\ UNCHANGED <<Chat, elsewhere>>

StartElsewhere ==
  /\ active + elsewhere < GlobalLimit /\ elsewhere' = elsewhere + 1
  /\ UNCHANGED <<Chat, active, req>>

EndElsewhere ==
  /\ elsewhere > 0 /\ elsewhere' = elsewhere - 1
  /\ UNCHANGED <<Chat, active, req>>

------------------------------------------------------------------------------
(* The brief and its history *)

Edit(c) ==
  /\ brief # NoBrief /\ brief' = c
  /\ UNCHANGED <<right, hermes, chats, candidates, turns, active, elsewhere, req>>

(* candidates go with the brief; brief_chats has no foreign key *)
DeleteBrief ==
  /\ brief # NoBrief /\ brief' = NoBrief
  /\ candidates' = {}
  /\ UNCHANGED <<right, hermes, chats, turns, active, elsewhere, req>>

ClearHistory(u) ==
  /\ CanWrite(u) /\ chats' = <<>>
  /\ UNCHANGED <<brief, right, hermes, candidates, turns, active, elsewhere, req>>

SetRight(u, r) ==
  /\ right' = [right EXCEPT ![u] = r]
  /\ UNCHANGED <<brief, hermes, chats, candidates, turns, active, elsewhere, req>>

(* the web process restarts *)
Restart ==
  /\ active' = 0 /\ elsewhere' = 0 /\ req' = [u \in User |-> Idle]
  /\ UNCHANGED Chat

------------------------------------------------------------------------------
Answered(u) == CallFails(u) \/ \E p \in BOOLEAN : NextRound(u, p) \/ LastAnswer(u, p)
Continued(u) == NextCall(u) \/ NextCallRefused(u) \/ Commit(u) \/ Refuse(u)

ChatNext ==
  \/ \E u \in User :
       \/ Ask(u) \/ (\E w \in BOOLEAN : FirstCall(u, w)) \/ FirstCallRefused(u)
       \/ Answered(u) \/ Continued(u)
       \/ StartHelper(u) \/ EndHelper(u)
       \/ ClearHistory(u) \/ \E r \in Right : SetRight(u, r)
  \/ StartElsewhere \/ EndElsewhere
  \/ (\E c \in Content : Edit(c)) \/ DeleteBrief \/ Restart

ChatSafeSpec == ChatInit /\ [][ChatNext]_chatVars

(* The provider client gives up after 90 s and does not retry; after an answer
   the handler waits for nothing until the next call or the outcome. *)
ChatSpec == ChatSafeSpec /\ \A u \in User : WF_chatVars(Answered(u)) /\ WF_chatVars(Continued(u))

------------------------------------------------------------------------------
(* Properties *)

(* The permits given out for the brief are the calls under way for it, at most
   one at a time and at most GlobalLimit in all, although a turn takes and
   returns several and can end at each of them. *)
PermitsAreCalls ==
  /\ active = Cardinality({u \in User : req[u].phase \in {"call", "helper"}})
  /\ active + elsewhere <= GlobalLimit

(* The history is a sequence of whole turns, question before reply and oldest
   first, also after pruning and when it was cleared while a turn ran: no
   reply is kept without its question. *)
HistoryIsTurns ==
  /\ Len(chats) <= Retained /\ Len(chats) % 2 = 0
  /\ \A i \in 1..Len(chats) :
       /\ chats[i].role = IF i % 2 = 1 THEN "user" ELSE "assistant"
       /\ i % 2 = 0 => chats[i].turn = chats[i - 1].turn
       /\ i > 1 => chats[i].turn >= chats[i - 1].turn

(* Candidates are queued together with the turn that proposed them, against the
   brief_json that the turn read at its start and that still stands, and for
   somebody who could write the brief then and can now. *)
ProposedFromCurrent ==
  [][\A c \in candidates' \ candidates :
       /\ c.base = brief /\ brief' = brief
       /\ \E u \in User : Under(u, "outcome") /\ req[u].write /\ CanWrite(u)
                          /\ req' = [req EXCEPT ![u] = Idle]
       /\ chats' # <<>> => chats'[Len(chats')].turn = c.turn]_chatVars

(* No call is started for somebody who lost the right since the turn began, not
   even the sixth call of a long turn. *)
CallsAreAuthorised ==
  [][\A u \in User :
       ~Under(u, "call") /\ req'[u].phase = "call" =>
         MayGoOn(u, req'[u].write)]_chatVars

(* A turn comes to an end, whatever the provider asks for and whoever else
   wants the permit. *)
TurnsEnd ==
  \A u \in User :
    req[u].phase \in {"call", "round", "outcome"} ~> req[u].phase = "idle"
==============================================================================
