------------------------------ MODULE MCClients ------------------------------
(* What people do, one part moving in a behaviour: the accounts, the Canvas   *)
(* of a brief, the provider calls of its job, the turns of its assistant, its *)
(* discussion.                                                                *)
EXTENDS CanvasBuilder, CanvasProposals, ProviderRuns, BriefChat, Accounts,
        CommentDesk, TLC

CONSTANTS Parts, ann, bob, c1, c2
VARIABLE part

MCSid == 1..2
MCContinuations == [quick |-> 1, standard |-> 2, deep |-> 3]

(* Lists that are empty, short, and long with confident items. *)
Items(k, sure) == [n |-> k, sure |-> sure]
Lists(long) == {Items(0, FALSE), Items(1, FALSE), Items(long, TRUE)}
Extension(id, empty) == [id |-> id, kind |-> IF empty THEN "card" ELSE "table", empty |-> empty]
MCBrief ==
  [signals : Lists(3), personas : Lists(4), initiatives : Lists(2), risks : {0, 2},
   competitive : {0, 1}, buying : {"missing", "hedged", "detailed"}, rfps : {0, 2}, grants : {0},
   pilots : {0}, footprint : {0, 8}, nextAction : {TRUE}, matched : {FALSE}, angle : BOOLEAN,
   snapshot : BOOLEAN, sources : {0, 2},
   extensions : {<< >>, <<Extension("a", TRUE), Extension("a", TRUE)>>, <<Extension("b", FALSE)>>}]
CanvasIdle == saved = "none" /\ layoutPlan = << >> /\ widgets = << >> /\ spots = << >> /\ canvasStage = "saved"

Canvas(version, doc, nodes) == [version |-> version, doc |-> [version |-> doc, nodes |-> nodes]]
ProposalsIdle ==
  /\ canvas = [first |-> 0, version |-> 0, doc |-> [version |-> 0, nodes |-> {}]]
  /\ proposals = << >> /\ capability = [k \in Capability |-> "none"]
  /\ shown = [r \in Reviewer |-> {}] /\ pressed = shown

(* A question of somebody else's, answered by the reader with a draft. *)
MCEarlier ==
  <<[Added(Another, Top, {"own"}, FALSE) EXCEPT !.recent = FALSE],
    Added(Myself, 1, Word, TRUE)>>

ChatIdle ==
  /\ ChatInit /\ brief = c1 /\ ~hermes /\ \A u \in User : right[u] = "none"

(* No canvas, one of this release, one of an earlier one saved twice. *)
MCFirst == {Canvas(0, 0, {}), Canvas(1, 1, {"old"}), Canvas(2, 1, {"old"})}
Action(kind, node) == [kind |-> kind, node |-> node, sure |-> FALSE, prior |-> 0, nodes |-> {}]
MCResponse ==
  {[request |-> "seed", from |-> "hermes", actions |-> <<Action("create", "s"), Action("propose", "k")>>],
   [request |-> NoRequest, from |-> "hermes",
    actions |-> <<Action("place", "k"), [Action("create", "n") EXCEPT !.sure = TRUE]>>],
   [request |-> NoRequest, from |-> "hermes",
    actions |-> <<[Action("replace", "") EXCEPT !.prior = 1, !.nodes = {"new"}], Action("widget", "w")>>],
   [request |-> NoRequest, from |-> "user",
    actions |-> <<Action("remove", "n"), Action("bad", ""), Action("propose", "k")>>]}

vars ==
  <<part, canvasVars, proposalVars, providerVars, chatVars, accountVars,
    commentVars>>
On(p) == part = p /\ UNCHANGED part
Init ==
  /\ part \in Parts
  /\ IF part = "canvas" THEN CanvasInit ELSE CanvasIdle
  /\ ProviderInit
  /\ IF part = "proposals" THEN ProposalsInit ELSE ProposalsIdle
  /\ IF part = "chat" THEN ChatInit ELSE ChatIdle
  /\ AccountInit /\ CommentInit
Next ==
  \/ /\ On("canvas") /\ CanvasNext
     /\ UNCHANGED <<proposalVars, providerVars, chatVars, accountVars,
            commentVars>>
  \/ /\ On("proposals") /\ ProposalsNext
     /\ UNCHANGED <<canvasVars, providerVars, chatVars, accountVars,
            commentVars>>
  \/ /\ On("provider") /\ ProviderNext
     /\ UNCHANGED <<canvasVars, proposalVars, chatVars, accountVars,
            commentVars>>
  \/ /\ On("chat") /\ ChatNext
     /\ UNCHANGED <<canvasVars, proposalVars, providerVars, accountVars,
            commentVars>>
  \/ /\ On("account") /\ AccountNext
     /\ UNCHANGED <<canvasVars, proposalVars, providerVars, chatVars,
            commentVars>>
  \/ /\ On("comments") /\ CommentNext
     /\ UNCHANGED <<canvasVars, proposalVars, providerVars, chatVars,
            accountVars>>
Fairness ==
  \A u \in User : WF_chatVars(On("chat") /\ Answered(u)) /\ WF_chatVars(On("chat") /\ Continued(u))
Spec == Init /\ [][Next]_vars /\ Fairness
==============================================================================
