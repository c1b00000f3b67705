--------------------------- MODULE CanvasProposals ---------------------------
(* The generative Canvas: a response of Hermes becomes proposals, some are    *)
(* applied at once, the others wait for a reviewer (canvasGenerativeGateway,  *)
(* reducer, state), who sees them in a panel that may be out of date          *)
(* (CanvasRuntimeClient).  A document is its version and its nodes.           *)
EXTENDS Integers, Sequences, FiniteSets

CONSTANTS
  Reviewer,       \* who has the review panel open
  CanvasWriter,   \* the reviewers who may write the brief
  CanvasAdmin,    \* the ones who may promote a widget kind
  FirstCanvas,    \* the canvases left by earlier releases, or none
  Response,       \* what may be ingested: [request, from, actions]
  NoRequest,      \* the request id of a response that has none
  Capability,     \* the ids of the proposed widget kinds
  MaxProposals    \* bound: rows of canvas_proposals

VARIABLES
  canvas,         \* the row of canvas_states: [first, version, doc]
  proposals,      \* canvas_proposals, in the order of insertion
  capability,     \* the status of each widget kind
  shown,          \* the open proposals in the panel of each reviewer
  pressed         \* the buttons whose request has not been served
proposalVars == <<canvas, proposals, capability, shown, pressed>>

\* Numbers of proposals; an action waits for a person unless AutoApplies.
Applied == {"applied", "auto_applied"}
Open(ps) == {i \in DOMAIN ps : ps[i].status = "queued"}

ActionLayer(kind) ==
  CASE kind \in {"place", "remove", "propose"} -> "D" [] kind = "create" -> "C"
    [] kind = "widget" -> "A" [] OTHER -> "B"
CanSourcePropose(from, kind) ==
  from = "hermes" \/ ActionLayer(kind) \in {"A", "B"} \/ kind = "remove"
\* Of the actions the reducer knows, only a new surface may go in unseen.
AutoApplies(a) == ActionLayer(a.kind) = "C" /\ a.sure

\* The one request that has an id is the seed of the review panel, whose actions
\* wait for a reviewer (canvasSeedFixtures.ts).
ASSUME CanvasAssumption ==
  /\ MaxProposals \in Nat
  /\ \A c \in FirstCanvas :
       /\ {c.version, c.doc.version} \subseteq Nat
       /\ c.doc = [version |-> c.doc.version, nodes |-> c.doc.nodes]
  /\ \A r \in Response :
       /\ r.actions = [k \in 1 .. Len(r.actions) |-> r.actions[k]]
       /\ Len(r.actions) \in Nat
       /\ r.request # NoRequest => \A k \in DOMAIN r.actions : ~AutoApplies(r.actions[k])

------------------------------------------------------------------------------
(* reducer.ts: the next document, or none. *)
ReduceCanvasAction(doc, a) ==
  LET next(nodes) == [ok |-> TRUE, doc |-> [version |-> doc.version + 1, nodes |-> nodes]]
      failed == [ok |-> FALSE, doc |-> doc]
  IN CASE a.kind = "replace" /\ a.prior = doc.version -> next(a.nodes)
       [] a.kind \in {"place", "create"} /\ a.node \notin doc.nodes -> next(doc.nodes \union {a.node})
       [] a.kind = "remove" /\ a.node \in doc.nodes -> next(doc.nodes \ {a.node})
       [] OTHER -> failed

(* state.ts: the save is refused when somebody else has saved. *)
MaySave(c, expected) == expected = c.version
SaveCanvasState(c, doc) == [c EXCEPT !.version = @ + 1, !.doc = doc]

(* insertProposal: a request delivered again finds its rows. *)
Duplicate(ps, request, index) ==
  request # NoRequest /\ \E i \in DOMAIN ps : ps[i].request = request /\ ps[i].index = index
Proposal(r, index, a, status, before, doc) ==
  [request |-> r.request, index |-> index, action |-> a, status |-> status,
   before |-> before.version, after |-> IF status = "failed" THEN 0 ELSE doc.version, doc |-> doc]
InsertProposal(ps, p) == IF Duplicate(ps, p.request, p.index) THEN ps ELSE Append(ps, p)

(* A widget kind proposed before keeps its row.                               *)
InsertCapability(status) == IF status = "none" THEN "proposed" ELSE status

(* One action of a response, in the turn t: the row, the queue and the kinds  *)
(* as they are by now, the document the turn knows, that is the one it began   *)
(* with and what it saved since, and whether a save threw, which leaves the    *)
(* rows so far.                                                               *)
HandleAction(t, r, index) ==
  LET a == r.actions[index]
      reduced == ReduceCanvasAction(t.known, a)
      ok == a.kind # "bad" /\ CanSourcePropose(r.from, a.kind) /\ reduced.ok
      \* a document of version 0 is saved whatever the row says
      expected == IF t.known.version = 0 THEN t.canvas.version ELSE t.known.version
      saved == SaveCanvasState(t.canvas, reduced.doc)
      after == [reduced.doc EXCEPT !.version = saved.version]
      Row(status, doc) == InsertProposal(t.proposals, Proposal(r, index, a, status, t.known, doc))
  IN CASE t.thrown -> t
       [] ~t.thrown /\ a.kind = "propose" /\ CanSourcePropose(r.from, a.kind) ->
            [t EXCEPT !.capability[a.node] = InsertCapability(@)]
       [] ~t.thrown /\ ok /\ AutoApplies(a) ->
            IF ~MaySave(t.canvas, expected) THEN [t EXCEPT !.thrown = TRUE]
            ELSE [t EXCEPT !.canvas = saved, !.known = after, !.proposals = Row("auto_applied", after)]
       [] ~t.thrown /\ ok /\ ~AutoApplies(a) /\ a.kind # "propose" ->
            [t EXCEPT !.proposals = Row("queued", reduced.doc)]
       [] OTHER -> [t EXCEPT !.proposals = Row("failed", t.known)]
Begun ==
  [canvas |-> canvas, proposals |-> proposals, capability |-> capability,
   known |-> canvas.doc, thrown |-> FALSE]
Handle(r) ==
  LET turn[k \in 0 .. Len(r.actions)] ==
        IF k = 0 THEN Begun ELSE HandleAction(turn[k - 1], r, k)
  IN turn[Len(r.actions)]

------------------------------------------------------------------------------
ProposalsInit ==
  /\ canvas \in {[first |-> c.version, version |-> c.version, doc |-> c.doc] : c \in FirstCanvas}
  /\ proposals = << >>
  /\ capability = [k \in Capability |-> "none"]
  /\ shown = [r \in Reviewer |-> {}]
  /\ pressed = [r \in Reviewer |-> {}]

(* ingestCanvasResponse, from the seed button or a turn of Hermes. *)
Ingest(r) ==
  LET end == Handle(r) IN
    /\ Len(end.proposals) <= MaxProposals
    /\ canvas' = end.canvas /\ proposals' = end.proposals /\ capability' = end.capability
    /\ UNCHANGED <<shown, pressed>>

(* GET canvas-runtime, and its answer.  A panel asks at any time and shows    *)
(* what was open when it was answered until it asks again.                     *)
Refresh(r) ==
  /\ shown' = [shown EXCEPT ![r] = Open(proposals)]
  /\ UNCHANGED <<canvas, proposals, capability, pressed>>

(* A button: the card of the proposal takes one press at a time. *)
Press(r, i, what) ==
  /\ i \in shown[r] /\ \A p \in pressed[r] : p[1] # i
  /\ pressed' = [pressed EXCEPT ![r] = @ \union {<<i, what>>}]
  /\ UNCHANGED <<canvas, proposals, capability, shown>>

ApprovableAnyVersion(i) == proposals[i].status = "queued"
Approvable(i) ==
  /\ proposals[i].status = "queued"
  /\ canvas.doc.version = proposals[i].before /\ canvas.version = proposals[i].before

(* POST approve *)
ApproveProposal(i) ==
  /\ Approvable(i)
  /\ LET saved == SaveCanvasState(canvas, [proposals[i].doc EXCEPT !.version = canvas.version + 1])
     IN /\ canvas' = saved
        /\ proposals' = [proposals EXCEPT ![i].status = "applied", ![i].after = saved.version]
RejectAnyStatus(i) ==
  /\ proposals' = [proposals EXCEPT ![i].status = "rejected"]
  /\ UNCHANGED canvas
(* POST reject: a proposal that is decided already is left alone. *)
RejectProposal(i) ==
  /\ proposals' = IF proposals[i].status # "queued" THEN proposals
                  ELSE [proposals EXCEPT ![i].status = "rejected"]
  /\ UNCHANGED canvas
Refused(r, i, what) == r \notin CanvasWriter \/ (what = "approve" /\ ~Approvable(i))

\* The request is served and answered; a success asks for a refresh, which fails
\* or shows the panel anew.
ServePress(r, i, what) ==
  /\ <<i, what>> \in pressed[r]
  /\ pressed' = [pressed EXCEPT ![r] = @ \ {<<i, what>>}]
  /\ \/ /\ Refused(r, i, what)
        /\ UNCHANGED <<canvas, proposals, shown>>
     \/ /\ ~Refused(r, i, what)
        /\ \/ what = "approve" /\ ApproveProposal(i)
           \/ what = "reject" /\ RejectProposal(i)
        /\ shown' \in {shown, [shown EXCEPT ![r] = Open(proposals')]}
  /\ UNCHANGED capability

(* POST mark-promoted, POST withdraw *)
MarkPromoted(r, k) ==
  /\ r \in CanvasWriter \intersect CanvasAdmin /\ capability[k] = "proposed"
  /\ capability' = [capability EXCEPT ![k] = "promoted"]
  /\ UNCHANGED <<canvas, proposals, shown, pressed>>
Withdraw(r, k) ==
  /\ r \in CanvasWriter /\ capability[k] # "none"
  /\ capability' = [capability EXCEPT ![k] = "withdrawn"]
  /\ UNCHANGED <<canvas, proposals, shown, pressed>>

ProposalsNext ==
  \/ \E r \in Response : Ingest(r)
  \/ \E r \in Reviewer :
       \/ Refresh(r)
       \/ \E i \in 1 .. Len(proposals), what \in {"approve", "reject"} :
            Press(r, i, what) \/ ServePress(r, i, what)
       \/ \E k \in Capability : MarkPromoted(r, k) \/ Withdraw(r, k)

ProposalsSpec == ProposalsInit /\ [][ProposalsNext]_proposalVars

------------------------------------------------------------------------------
(* An approval changes the canvas the reviewer's brief has now by the action  *)
(* of the proposal and by nothing else, and what Hermes applies by itself      *)
(* only adds: nobody's change is overwritten by a document computed before it  *)
(* (canvas_version_before, expectedVersion).                                   *)
ChangesAreKept ==
  [][IF \E i \in Open(proposals) : proposals'[i].status = "applied"
     THEN \A i \in Open(proposals) : proposals'[i].status = "applied" =>
            LET reduced == ReduceCanvasAction(canvas.doc, proposals[i].action)
            IN reduced.ok /\ canvas'.doc.nodes = reduced.doc.nodes
     ELSE canvas.doc.nodes \subseteq canvas'.doc.nodes]_proposalVars

(* Each version saved since the start has exactly one applied proposal that   *)
(* names it, and a proposal that is not applied names none of them as its own: *)
(* the review queue tells who changed the canvas, although panels are stale    *)
(* and a save may throw in the middle of a response.                           *)
VersionsAreAccounted ==
  \A v \in canvas.first + 1 .. canvas.version :
    Cardinality({i \in DOMAIN proposals : proposals[i].status \in Applied /\ proposals[i].after = v}) = 1
==============================================================================
