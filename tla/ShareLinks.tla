------------------------------ MODULE ShareLinks -----------------------------
(***************************************************************************)
(* Public links of a brief: the handlers that create, revoke and mail them *)
(* and that change the brief's audience (app/api/briefs/[id]/...), and the *)
(* share dialogs that call them (components/ShareDialog.tsx).              *)
(*                                                                         *)
(* A handler authorises its caller, waits for the body of the request and  *)
(* then acts; several requests are under way at once, one of each kind per *)
(* dialog.  An internal brief must have no link that opens it, and the     *)
(* mails a user may send are limited by counting those already sent.       *)
(*                                                                         *)
(* Abstractions.  All dialogs belong to one user.  A request that is not   *)
(* authorised, is malformed or is cut off fails before it acts; a failure  *)
(* is answered at once, a success when its answer arrives.  The day and    *)
(* week limits are one, and the window does not move.  The token shown     *)
(* after a link was created, and the list of mails, are left out.          *)
(***************************************************************************)
EXTENDS Integers, FiniteSets

CONSTANTS
  Link, Dialog,
  Uses,        \* the operations each dialog is used for
  MailLimit,   \* mails per sender and window
  ShareFaults  \* bound: requests and answers that are lost

ShareOp == {"load", "flip", "create", "revoke", "mail"}

ASSUME ShareAssumption ==
  /\ IsFiniteSet(Link) /\ IsFiniteSet(Dialog)
  /\ Uses \in [Dialog -> SUBSET ShareOp]
  /\ MailLimit \in Nat /\ ShareFaults \in Nat

VARIABLES
  audience,    \* briefs.audience, or "gone"
  linkState,   \* table brief_share_links
  mailed,      \* rows of brief_share_emails with send_status 'sent'
  request,     \* the request of each kind each dialog waits for
  dialog,      \* what a dialog shows
  shareFaults

shareVars == <<audience, linkState, mailed, request, dialog, shareFaults>>

Audience == {"internal", "shareable"}
LinkStatus == {"none", "live", "expired", "revoked", "gone"}   \* of a ShareLinkRow
NoLink == "nolink"

(* a request: how far it came and the audience, link or list it is about *)
NoRequest == [phase |-> "idle", wants |-> "internal", link |-> NoLink, list |-> {}]
OpenDialog(a) == [audience |-> a, listed |-> {}]

ShareRequest ==
  [phase : {"idle", "asked", "read", "sending", "ok"},
   wants : Audience, link : Link \union {NoLink}, list : SUBSET Link]

ShareTypeOK ==
  /\ audience \in Audience \union {"gone"}
  /\ linkState \in [Link -> LinkStatus]
  /\ mailed \in Nat
  /\ request \in [Dialog -> [ShareOp -> ShareRequest]]
  /\ dialog \in [Dialog -> [audience : Audience, listed : SUBSET Link]]
  /\ shareFaults \in 0..ShareFaults

ShareInit ==
  /\ audience = "internal"
  /\ linkState = [l \in Link |-> "none"]
  /\ mailed = 0
  /\ request = [d \in Dialog |-> [o \in ShareOp |->
                  IF o = "load" THEN [NoRequest EXCEPT !.phase = "asked"] ELSE NoRequest]]
  /\ dialog = [d \in Dialog |-> OpenDialog("internal")]
  /\ shareFaults = 0

LiveLink == {l \in Link : linkState[l] = "live"}
Phase(d, op) == request[d][op].phase
Unused == {l \in Link : linkState[l] = "none"}
To(d, op, phase) == request' = [request EXCEPT ![d][op].phase = phase]
Fail(d, op) == request' = [request EXCEPT ![d][op] = NoRequest]

------------------------------------------------------------------------------
(* The dialog asks; a control is off while its request is under way *)

SendRequest(d, op, wants, link) ==
  /\ op \in Uses[d] /\ Phase(d, op) = "idle"
  /\ request' = [request EXCEPT ![d][op] =
       [phase |-> "asked", wants |-> wants, link |-> link, list |-> {}]]
  /\ UNCHANGED <<audience, linkState, mailed, dialog, shareFaults>>

FlipAudience(d) ==
  SendRequest(d, "flip", IF dialog[d].audience = "internal" THEN "shareable" ELSE "internal",
      NoLink)

CreateLink(d) ==
  dialog[d].audience = "shareable" /\ SendRequest(d, "create", "internal", NoLink)

RevokeLink(d) ==
  /\ dialog[d].audience = "shareable"
  /\ \E l \in dialog[d].listed : SendRequest(d, "revoke", "internal", l)

SendPublicLinkEmail(d) ==
  /\ dialog[d].audience = "shareable"
  /\ \E l \in dialog[d].listed : SendRequest(d, "mail", "internal", l)

------------------------------------------------------------------------------
(* The handlers *)

(* GET share-links: the links that are neither revoked nor expired; an error,
   and so none, if the brief is not shareable *)
ListLinks(d) ==
  /\ Phase(d, "load") = "asked"
  /\ request' = [request EXCEPT ![d]["load"].phase = "ok",
                   ![d]["load"].list = IF audience = "shareable" THEN LiveLink ELSE {}]
  /\ UNCHANGED <<audience, linkState, mailed, dialog, shareFaults>>

(* the caller may manage the brief; a mail also needs a link that is live *)
Authorise(d, op) ==
  /\ op \in {"flip", "create", "mail"} /\ Phase(d, op) = "asked"
  /\ IF /\ audience # "gone"
        /\ op = "mail" => request[d][op].link \in LiveLink /\ audience = "shareable"
     THEN To(d, op, "read") ELSE Fail(d, op)
  /\ UNCHANGED <<audience, linkState, mailed, dialog, shareFaults>>

(* what becomes of a link when the audience becomes a *)
Withdrawn(state, a) == IF a = "internal" /\ state = "live" THEN "revoked" ELSE state

SetAudience(a) ==
  /\ audience' = a
  /\ linkState' = [l \in Link |-> Withdrawn(linkState[l], a)]

PatchAudience(d) ==
  LET a == request[d]["flip"].wants IN
  /\ Phase(d, "flip") = "read"
  /\ IF audience = "gone"
     THEN Fail(d, "flip") /\ UNCHANGED <<audience, linkState>>
     ELSE To(d, "flip", "ok") /\ SetAudience(a)
  /\ UNCHANGED <<mailed, dialog, shareFaults>>

\* Mutant of AcceptsLink: the audience was checked when the request came in.
AcceptsLinkUnchecked == audience # "gone"

(* looked up again in the transaction that inserts the link *)
AcceptsLink == audience = "shareable"

InsertLink(d) ==
  /\ Phase(d, "create") = "read"
  /\ IF AcceptsLink
     THEN LET l == CHOOSE k \in Unused : TRUE IN
            /\ Unused # {}
            /\ linkState' = [linkState EXCEPT ![l] = "live"]
            /\ request' = [request EXCEPT ![d]["create"].phase = "ok",
                                          ![d]["create"].link = l]
     ELSE Fail(d, "create") /\ UNCHANGED linkState
  /\ UNCHANGED <<audience, mailed, dialog, shareFaults>>

DeleteLink(d) ==
  LET l == request[d]["revoke"].link IN
  /\ Phase(d, "revoke") = "asked"
  /\ IF linkState[l] \in {"live", "expired"}
     THEN To(d, "revoke", "ok") /\ linkState' = [linkState EXCEPT ![l] = "revoked"]
     ELSE Fail(d, "revoke") /\ UNCHANGED linkState
  /\ UNCHANGED <<audience, mailed, dialog, shareFaults>>

(* checkShareEmailLimit *)
Allowed == mailed < MailLimit

(* the mail goes out before its row is written *)
CheckMailLimit(d) ==
  /\ Phase(d, "mail") = "read"
  /\ IF Allowed THEN To(d, "mail", "sending") ELSE Fail(d, "mail")
  /\ UNCHANGED <<audience, linkState, mailed, dialog, shareFaults>>

(* the row refers to the link, which may be gone by now *)
RecordMail(d, sent) ==
  /\ Phase(d, "mail") = "sending"
  /\ IF linkState[request[d]["mail"].link] = "gone" \/ ~sent
     THEN Fail(d, "mail") /\ UNCHANGED mailed
     ELSE To(d, "mail", "ok") /\ mailed' = mailed + 1
  /\ UNCHANGED <<audience, linkState, dialog, shareFaults>>

(* POST revert: the whole brief goes back to a version, its audience too *)
RevertVersion(a) ==
  /\ audience # "gone" /\ SetAudience(a)
  /\ UNCHANGED <<mailed, request, dialog, shareFaults>>

DeleteSharedBrief ==
  /\ audience # "gone" /\ audience' = "gone"
  /\ linkState' = [l \in Link |-> "gone"] /\ mailed' = 0
  /\ UNCHANGED <<request, dialog, shareFaults>>

Expire(l) ==
  /\ linkState[l] = "live" /\ linkState' = [linkState EXCEPT ![l] = "expired"]
  /\ UNCHANGED <<audience, mailed, request, dialog, shareFaults>>

------------------------------------------------------------------------------
(* The answer *)

(* a request that never arrives, or an answer that is lost; a list that could
   not be loaded is empty, as it is while it loads *)
LoseRequest(d, op) ==
  /\ Phase(d, op) \notin {"idle", "sending"} /\ shareFaults < ShareFaults
  /\ shareFaults' = shareFaults + 1
  /\ Fail(d, op)
  /\ UNCHANGED <<audience, linkState, mailed, dialog>>

(* what the dialog shows after the answer; the list is loaded only when the
   dialog opens *)
Shown(view, op, r) ==
  CASE op = "load"   -> [view EXCEPT !.listed = r.list]
    [] op = "flip"   -> [view EXCEPT !.audience = r.wants]
    [] op = "create" -> [view EXCEPT !.listed = @ \union {r.link}]
    [] op = "revoke" -> [view EXCEPT !.listed = @ \ {r.link}]
    [] op = "mail"   -> view

Receive(d, op) ==
  /\ Phase(d, op) = "ok"
  /\ dialog' = [dialog EXCEPT ![d] = Shown(@, op, request[d][op])]
  /\ request' = [request EXCEPT ![d][op] = NoRequest]
  /\ UNCHANGED <<audience, linkState, mailed, shareFaults>>

(* the dialog is closed and opened, with the audience of a page that may have
   been loaded at any time *)
Reopen(d, loaded) ==
  /\ \A op \in ShareOp : Phase(d, op) = "idle"
  /\ request' = [request EXCEPT ![d]["load"].phase = "asked"]
  /\ dialog' = [dialog EXCEPT ![d] = OpenDialog(loaded)]
  /\ UNCHANGED <<audience, linkState, mailed, shareFaults>>

ShareNext ==
  \/ \E d \in Dialog :
       \/ FlipAudience(d) \/ CreateLink(d) \/ RevokeLink(d) \/ SendPublicLinkEmail(d)
       \/ ListLinks(d) \/ PatchAudience(d) \/ InsertLink(d) \/ DeleteLink(d)
       \/ CheckMailLimit(d)
       \/ \E op \in ShareOp : Authorise(d, op) \/ LoseRequest(d, op) \/ Receive(d, op)
       \/ \E sent \in BOOLEAN : RecordMail(d, sent)
       \/ \E a \in Audience : Reopen(d, a)
  \/ \E a \in Audience : RevertVersion(a)
  \/ \E l \in Link : Expire(l)
  \/ DeleteSharedBrief

ShareSpec == ShareInit /\ [][ShareNext]_shareVars

------------------------------------------------------------------------------
(* Properties *)

(* An internal brief has no link that could open it, now or when it becomes
   shareable again: creating a link, changing the audience and reverting to a
   version each see what the others did since they were authorised. *)
InternalHasNoLiveLink == audience = "internal" => LiveLink = {}

==============================================================================
