---------------------------- MODULE ServiceProofs ----------------------------
(* Proofs about the services behind a brief that share no state: its public   *)
(* links, the bytes of its documents, its catch-ups, its notifications, the   *)
(* runner that validates its account graph, the corrections of such a graph,  *)
(* and the foreign keys.                                                      *)
EXTENDS TableRows, ShareLinks, DocumentStore, Journal, ValidationRun, GraphCorrections,
        Notices, FiniteSetTheorems, SequenceTheorems, WellFoundedInduction, TLAPS

------------------------------------------------------------------------------
(* Public links *)

(* A created link that is on its way to its dialog is a link. *)
CreatedIsLink ==
  \A d \in Dialog : Phase(d, "create") = "ok" => request[d]["create"].link \in Link

SharesSafe == ShareTypeOK /\ CreatedIsLink /\ InternalHasNoLiveLink

(* The tables of requests and of dialogs after one entry has changed. *)
LEMMA RequestRow ==
  ASSUME ShareTypeOK, NEW d \in Dialog, NEW op \in ShareOp, NEW r \in ShareRequest,
         request' = [request EXCEPT ![d][op] = r],
         op = "create" /\ r.phase = "ok" => r.link \in Link, CreatedIsLink
  PROVE  /\ request' \in [Dialog -> [ShareOp -> ShareRequest]]
         /\ CreatedIsLink'
<1>1. /\ request' \in [Dialog -> [ShareOp -> ShareRequest]]
      /\ \A e \in Dialog : request'[e]["create"]
           = IF e = d /\ op = "create" THEN r ELSE request[e]["create"]
  BY DEF ShareTypeOK, ShareOp
<1> QED  BY <1>1 DEF CreatedIsLink, Phase

(* To and Fail write one such entry. *)
LEMMA RequestMoves ==
  ASSUME ShareTypeOK, CreatedIsLink, NEW d \in Dialog, NEW op \in ShareOp,
         NEW phase \in {"idle", "asked", "read", "sending", "ok"},
         \/ To(d, op, phase) /\ (op = "create" => phase # "ok")
         \/ Fail(d, op)
  PROVE  /\ request' \in [Dialog -> [ShareOp -> ShareRequest]]
         /\ CreatedIsLink'
<1>1. request[d][op] \in ShareRequest
  BY DEF ShareTypeOK
<1>2. NoRequest \in ShareRequest
  BY DEF NoRequest, ShareRequest, Audience
<1>3. CASE Fail(d, op)
  BY <1>2, <1>3, RequestRow DEF Fail, NoRequest
<1>4. CASE To(d, op, phase) /\ (op = "create" => phase # "ok")
  <2> DEFINE r == [request[d][op] EXCEPT !.phase = phase]
  <2>1. r \in ShareRequest /\ r.phase = phase
    BY <1>1 DEF ShareRequest
  <2>2. request' = [request EXCEPT ![d][op] = r]
    BY <1>4 DEF To
  <2> QED  BY <1>4, <2>1, <2>2, RequestRow
<1> QED  BY <1>3, <1>4

(* Changing the audience withdraws what an internal brief must not have. *)
LEMMA AudienceKeeps ==
  ASSUME ShareTypeOK, NEW a \in Audience, SetAudience(a)
  PROVE  /\ audience' \in Audience \cup {"gone"}
         /\ linkState' \in [Link -> LinkStatus]
         /\ InternalHasNoLiveLink'
<1>1. \A l \in Link : /\ linkState'[l] = Withdrawn(linkState[l], a)
                      /\ Withdrawn(linkState[l], a) \in LinkStatus
                      /\ a = "internal" => Withdrawn(linkState[l], a) # "live"
  BY DEF ShareTypeOK, SetAudience, Withdrawn, LinkStatus
<1>2. linkState' \in [Link -> LinkStatus]
  BY <1>1 DEF SetAudience
<1> QED  BY <1>1, <1>2 DEF SetAudience, InternalHasNoLiveLink, LiveLink

LEMMA SharesStart == ShareInit => SharesSafe
<1> SUFFICES ASSUME ShareInit PROVE SharesSafe
  OBVIOUS
<1>1. NoRequest \in ShareRequest /\ [NoRequest EXCEPT !.phase = "asked"] \in ShareRequest
  BY DEF NoRequest, ShareRequest, Audience
<1>2. request \in [Dialog -> [ShareOp -> ShareRequest]]
  BY <1>1 DEF ShareInit
<1>3. CreatedIsLink
  BY DEF ShareInit, CreatedIsLink, Phase, ShareOp, NoRequest
<1>4. shareFaults \in 0..ShareFaults /\ mailed \in Nat
  BY ShareAssumption DEF ShareInit
<1>5. dialog \in [Dialog -> [audience : Audience, listed : SUBSET Link]]
  BY DEF ShareInit, OpenDialog, Audience
<1>6. audience \in Audience /\ linkState \in [Link -> LinkStatus] /\ InternalHasNoLiveLink
  BY DEF ShareInit, Audience, LinkStatus, InternalHasNoLiveLink, LiveLink
<1> QED  BY <1>2, <1>3, <1>4, <1>5, <1>6 DEF SharesSafe, ShareTypeOK

(* The dialog asks. *)
LEMMA SendKeeps ==
  ASSUME SharesSafe, NEW d \in Dialog, NEW op \in ShareOp, NEW wants \in Audience,
         NEW link \in Link \cup {NoLink}, SendRequest(d, op, wants, link)
  PROVE  SharesSafe'
<1> DEFINE r == [phase |-> "asked", wants |-> wants, link |-> link, list |-> {}]
<1>1. r \in ShareRequest /\ r.phase # "ok"
  BY DEF ShareRequest
<1>2. request' \in [Dialog -> [ShareOp -> ShareRequest]] /\ CreatedIsLink'
  BY <1>1, RequestRow DEF SendRequest, SharesSafe
<1> QED  BY <1>2 DEF SendRequest, SharesSafe, ShareTypeOK, InternalHasNoLiveLink, LiveLink

LEMMA ControlsKeep ==
  ASSUME SharesSafe, NEW d \in Dialog,
         FlipAudience(d) \/ CreateLink(d) \/ RevokeLink(d) \/ SendPublicLinkEmail(d)
  PROVE  SharesSafe'
<1>1. /\ {"flip", "create", "revoke", "mail"} \subseteq ShareOp
      /\ {"internal", "shareable"} \subseteq Audience
      /\ dialog[d].listed \subseteq Link
  BY DEF ShareOp, Audience, SharesSafe, ShareTypeOK
<1>2. CASE FlipAudience(d)
  BY <1>1, <1>2, SendKeeps DEF FlipAudience
<1>3. CASE CreateLink(d)
  BY <1>1, <1>3, SendKeeps DEF CreateLink
<1>4. CASE RevokeLink(d)
  BY <1>1, <1>4, SendKeeps DEF RevokeLink
<1>5. CASE SendPublicLinkEmail(d)
  BY <1>1, <1>5, SendKeeps DEF SendPublicLinkEmail
<1> QED  BY <1>2, <1>3, <1>4, <1>5

(* The handlers and the answers. *)
LEMMA HandlersKeep ==
  ASSUME SharesSafe, NEW d \in Dialog
  PROVE  /\ ListLinks(d) => SharesSafe'
         /\ PatchAudience(d) => SharesSafe'
         /\ InsertLink(d) => SharesSafe'
         /\ DeleteLink(d) => SharesSafe'
         /\ CheckMailLimit(d) => SharesSafe'
         /\ \A sent \in BOOLEAN : RecordMail(d, sent) => SharesSafe'
<1> USE DEF SharesSafe
<1>0. /\ ShareTypeOK /\ CreatedIsLink /\ InternalHasNoLiveLink
      /\ \A op \in ShareOp : request[d][op] \in ShareRequest
      /\ \A op \in {"load", "flip", "create", "revoke", "mail"} : op \in ShareOp
  BY DEF ShareTypeOK, ShareOp
<1>1. ASSUME ListLinks(d) PROVE SharesSafe'
  <2> DEFINE r == [request[d]["load"] EXCEPT !.phase = "ok",
                     !.list = IF audience = "shareable" THEN LiveLink ELSE {}]
  <2>1. r \in ShareRequest
    BY <1>0 DEF ShareRequest, LiveLink
  <2>2. request' = [request EXCEPT ![d]["load"] = r]
    BY <1>0, <1>1 DEF ListLinks, ShareTypeOK, ShareRequest
  <2>3. request' \in [Dialog -> [ShareOp -> ShareRequest]] /\ CreatedIsLink'
    BY <1>0, <2>1, <2>2, RequestRow
  <2> QED  BY <1>0, <1>1, <2>3 DEF ListLinks, ShareTypeOK, InternalHasNoLiveLink, LiveLink
<1>2. ASSUME PatchAudience(d) PROVE SharesSafe'
  <2>1. request' \in [Dialog -> [ShareOp -> ShareRequest]] /\ CreatedIsLink'
    BY <1>0, <1>2, RequestMoves DEF PatchAudience
  <2>2. request[d]["flip"].wants \in Audience
    BY <1>0 DEF ShareRequest
  <2>3. /\ audience' \in Audience \cup {"gone"} /\ linkState' \in [Link -> LinkStatus]
        /\ InternalHasNoLiveLink'
    BY <1>0, <1>2, <2>2, AudienceKeeps
    DEF PatchAudience, ShareTypeOK, InternalHasNoLiveLink, LiveLink
  <2> QED  BY <1>0, <1>2, <2>1, <2>3 DEF PatchAudience, ShareTypeOK
<1>3. ASSUME InsertLink(d) PROVE SharesSafe'
  <2>1. CASE ~AcceptsLink
    <3>1. request' \in [Dialog -> [ShareOp -> ShareRequest]] /\ CreatedIsLink'
      BY <1>0, <1>3, <2>1, RequestMoves DEF InsertLink
    <3> QED  BY <1>0, <1>3, <2>1, <3>1
             DEF InsertLink, ShareTypeOK, InternalHasNoLiveLink, LiveLink
  <2>2. CASE AcceptsLink
    <3> DEFINE l == CHOOSE k \in Unused : TRUE
               r == [request[d]["create"] EXCEPT !.phase = "ok", !.link = l]
    <3>1. /\ Unused # {} /\ linkState' = [linkState EXCEPT ![l] = "live"]
          /\ request' = [request EXCEPT ![d]["create"].phase = "ok", ![d]["create"].link = l]
          /\ audience = "shareable" /\ UNCHANGED <<audience, mailed, dialog, shareFaults>>
      BY <1>3, <2>2 DEF InsertLink, AcceptsLink
    <3>2. l \in Link
      BY <3>1 DEF Unused
    <3> HIDE DEF l
    <3>3. r \in ShareRequest /\ r.link = l
      BY <1>0, <3>2 DEF ShareRequest
    <3>4. request' = [request EXCEPT ![d]["create"] = r]
      BY <1>0, <3>1 DEF ShareTypeOK, ShareRequest
    <3>5. request' \in [Dialog -> [ShareOp -> ShareRequest]] /\ CreatedIsLink'
      BY <1>0, <3>2, <3>3, <3>4, RequestRow
    <3>6. linkState' \in [Link -> LinkStatus]
      BY <1>0, <3>1 DEF ShareTypeOK, LinkStatus
    <3> QED  BY <1>0, <3>1, <3>5, <3>6 DEF ShareTypeOK, InternalHasNoLiveLink
  <2> QED  BY <2>1, <2>2
<1>4. ASSUME DeleteLink(d) PROVE SharesSafe'
  <2>1. request' \in [Dialog -> [ShareOp -> ShareRequest]] /\ CreatedIsLink'
    BY <1>0, <1>4, RequestMoves DEF DeleteLink
  <2>2. /\ linkState' \in [Link -> LinkStatus]
        /\ \A l \in Link : linkState'[l] \in {linkState[l], "revoked"}
    BY <1>0, <1>4 DEF DeleteLink, ShareTypeOK, LinkStatus
  <2> QED  BY <1>0, <1>4, <2>1, <2>2 DEF DeleteLink, ShareTypeOK, InternalHasNoLiveLink, LiveLink
<1>5. ASSUME CheckMailLimit(d) PROVE SharesSafe'
  <2>1. request' \in [Dialog -> [ShareOp -> ShareRequest]] /\ CreatedIsLink'
    BY <1>0, <1>5, RequestMoves DEF CheckMailLimit
  <2> QED  BY <1>0, <1>5, <2>1 DEF CheckMailLimit, ShareTypeOK, InternalHasNoLiveLink, LiveLink
<1>6. ASSUME NEW sent \in BOOLEAN, RecordMail(d, sent) PROVE SharesSafe'
  <2>1. request' \in [Dialog -> [ShareOp -> ShareRequest]] /\ CreatedIsLink'
    BY <1>0, <1>6, RequestMoves DEF RecordMail
  <2> QED  BY <1>0, <1>6, <2>1 DEF RecordMail, ShareTypeOK, InternalHasNoLiveLink, LiveLink
<1> QED  BY <1>1, <1>2, <1>3, <1>4, <1>5, <1>6

LEMMA AnswersKeep ==
  ASSUME SharesSafe, NEW d \in Dialog, NEW op \in ShareOp,
         Authorise(d, op) \/ LoseRequest(d, op) \/ Receive(d, op)
  PROVE  SharesSafe'
<1>0. ShareTypeOK /\ CreatedIsLink /\ InternalHasNoLiveLink /\ request[d][op] \in ShareRequest
  BY DEF SharesSafe, ShareTypeOK
<1>1. request' \in [Dialog -> [ShareOp -> ShareRequest]] /\ CreatedIsLink'
  <2>1. Fail(d, op) \/ To(d, op, "read")
    BY DEF Authorise, LoseRequest, Receive, Fail
  <2> QED  BY <1>0, <2>1, RequestMoves
<1>2. CASE Authorise(d, op)
  BY <1>0, <1>1, <1>2 DEF Authorise, SharesSafe, ShareTypeOK, InternalHasNoLiveLink, LiveLink
<1>3. CASE LoseRequest(d, op)
  <2>1. shareFaults' \in 0..ShareFaults
    BY <1>0, <1>3, ShareAssumption DEF LoseRequest, ShareTypeOK
  <2> QED  BY <1>0, <1>1, <1>3, <2>1
           DEF LoseRequest, SharesSafe, ShareTypeOK, InternalHasNoLiveLink, LiveLink
<1>4. CASE Receive(d, op)
  <2> DEFINE view == Shown(dialog[d], op, request[d][op])
  <2>1. op = "create" => request[d][op].link \in Link
    BY <1>0, <1>4 DEF Receive, CreatedIsLink
  <2>2. view \in [audience : Audience, listed : SUBSET Link]
    BY <1>0, <2>1 DEF Shown, ShareTypeOK, ShareRequest, ShareOp
  <2>3. dialog' \in [Dialog -> [audience : Audience, listed : SUBSET Link]]
    BY <1>0, <1>4, <2>2 DEF Receive, ShareTypeOK
  <2> QED  BY <1>0, <1>1, <1>4, <2>3
           DEF Receive, SharesSafe, ShareTypeOK, InternalHasNoLiveLink, LiveLink
<1> QED  BY <1>2, <1>3, <1>4

LEMMA BriefMovesKeep ==
  ASSUME SharesSafe,
         \/ \E d \in Dialog, a \in Audience : Reopen(d, a)
         \/ \E a \in Audience : RevertVersion(a)
         \/ \E l \in Link : Expire(l)
         \/ DeleteSharedBrief
  PROVE  SharesSafe'
<1>0. ShareTypeOK /\ CreatedIsLink /\ InternalHasNoLiveLink
  BY DEF SharesSafe
<1>1. ASSUME NEW d \in Dialog, NEW a \in Audience, Reopen(d, a) PROVE SharesSafe'
  <2>1. "load" \in ShareOp /\ To(d, "load", "asked")
    BY <1>1 DEF ShareOp, Reopen, To
  <2>2. request' \in [Dialog -> [ShareOp -> ShareRequest]] /\ CreatedIsLink'
    BY <1>0, <2>1, RequestMoves
  <2>3. dialog' \in [Dialog -> [audience : Audience, listed : SUBSET Link]]
    BY <1>0, <1>1 DEF Reopen, ShareTypeOK, OpenDialog
  <2> QED  BY <1>0, <1>1, <2>2, <2>3 DEF Reopen, SharesSafe, ShareTypeOK, InternalHasNoLiveLink, LiveLink
<1>2. ASSUME NEW a \in Audience, RevertVersion(a) PROVE SharesSafe'
  BY <1>0, <1>2, AudienceKeeps DEF RevertVersion, SharesSafe, ShareTypeOK, CreatedIsLink, Phase
<1>3. ASSUME NEW l \in Link, Expire(l) PROVE SharesSafe'
  <2>1. /\ linkState' \in [Link -> LinkStatus]
        /\ \A k \in Link : linkState'[k] \in {linkState[k], "expired"}
    BY <1>0, <1>3 DEF Expire, ShareTypeOK, LinkStatus
  <2> QED  BY <1>0, <1>3, <2>1 DEF Expire, SharesSafe, ShareTypeOK, CreatedIsLink, Phase,
             InternalHasNoLiveLink, LiveLink
<1>4. ASSUME DeleteSharedBrief PROVE SharesSafe'
  BY <1>0, <1>4 DEF DeleteSharedBrief, SharesSafe, ShareTypeOK, CreatedIsLink, Phase,
     InternalHasNoLiveLink, LiveLink, LinkStatus
<1> QED  BY <1>1, <1>2, <1>3, <1>4

LEMMA SharesStep == SharesSafe /\ [ShareNext]_shareVars => SharesSafe'
<1> SUFFICES ASSUME SharesSafe, [ShareNext]_shareVars PROVE SharesSafe'
  OBVIOUS
<1>1. CASE UNCHANGED shareVars
  BY <1>1 DEF shareVars, SharesSafe, ShareTypeOK, CreatedIsLink, Phase, InternalHasNoLiveLink, LiveLink
<1>2. CASE ShareNext
  BY <1>2, ControlsKeep, HandlersKeep, AnswersKeep, BriefMovesKeep DEF ShareNext
<1> QED  BY <1>1, <1>2

(* An internal brief has no live link, for any number of links, dialogs and  *)
(* lost requests: only InsertLink makes a link live, and it looks at the     *)
(* audience again; the other writers of the audience withdraw the links.     *)
THEOREM LinksHold == ShareSpec => []InternalHasNoLiveLink
<1>1. SharesSafe => InternalHasNoLiveLink
  BY DEF SharesSafe
<1> QED  BY <1>1, SharesStart, SharesStep, PTL DEF ShareSpec

------------------------------------------------------------------------------
(* The bytes of documents *)

Writing == {"write", "link", "insert"}   \* an upload inside its transaction

(* One writer at a time: an upload inside its transaction, or the cleanup     *)
(* from the moment it reads the rows again, holds the lock.                   *)
LockIsHeld ==
  /\ \A d \in Doc : upload[d] \in Writing => lock = d
  /\ cleaner.stage = "removing" => lock = Cleaner

(* What the lock is for: the file an upload is about to insert a row for is  *)
(* in place, and the cleanup removes nothing a row wants.                    *)
FilesAreKept ==
  /\ \A d \in Doc : upload[d] = "insert" => HashOf[d] \in blobs
  /\ cleaner.stage = "removing" => cleaner.todo \cap Wanted = {}

StoreSafe == StoreTypeOK /\ LockIsHeld /\ FilesAreKept /\ RowsHaveBytes /\ CopiesAreWhole

liveSide == <<liveVars, upload, made, cleaner>>
copySide == <<copier, backup, restored>>

LEMMA CopySideKeeps ==
  ASSUME CopiesAreWhole, UNCHANGED copySide
  PROVE  CopiesAreWhole'
BY DEF CopiesAreWhole, copySide

LEMMA LiveSideKeeps ==
  ASSUME LockIsHeld, FilesAreKept, RowsHaveBytes, UNCHANGED liveSide
  PROVE  LockIsHeld' /\ FilesAreKept' /\ RowsHaveBytes'
BY DEF LockIsHeld, FilesAreKept, RowsHaveBytes, Wanted, liveSide, liveVars

(* A step of one upload, seen from the table of uploads. *)
LEMMA UploadMoves ==
  ASSUME StoreTypeOK, NEW d \in Doc, NEW from,
         NEW to \in {"begin", "write", "link", "insert", "done", "refused"}, Goes(d, from, to)
  PROVE  /\ upload' \in [Doc -> {"idle", "begin", "write", "link", "insert", "done", "refused"}]
         /\ upload[d] = from
         /\ \A e \in Doc : upload'[e] = IF e = d THEN to ELSE upload[e]
BY DEF StoreTypeOK, Goes

LEMMA StoreStart == StoreInit => StoreSafe
BY StoreAssumption
DEF StoreInit, StoreSafe, StoreTypeOK, Copy, NoCopy, Asleep, NotCopying, LockIsHeld, Writing,
    FilesAreKept, RowsHaveBytes, CopiesAreWhole, Wanted

LEMMA FaultsBounded ==
  ASSUME StoreTypeOK, StoreFault \/ UNCHANGED storeFaults
  PROVE  storeFaults' \in 0 .. StoreFaults
BY StoreAssumption DEF StoreTypeOK, StoreFault

(* The upload's own steps. *)
LEMMA UploadsKeep ==
  ASSUME StoreSafe, NEW d \in Doc
  PROVE  /\ Extract(d) => StoreSafe'
         /\ BeginUpload(d) => StoreSafe'
         /\ WriteTemp(d) => StoreSafe'
         /\ LinkBlob(d) => StoreSafe'
         /\ InsertRows(d) => StoreSafe'
         /\ InsertFails(d) => StoreSafe'
         /\ PersistFails(d) => StoreSafe'
<1>0. /\ StoreTypeOK /\ LockIsHeld /\ FilesAreKept /\ RowsHaveBytes /\ CopiesAreWhole
      /\ d # Free /\ d # Cleaner /\ Free # Cleaner
  BY StoreAssumption DEF StoreSafe, Free, Cleaner
<1>1. ASSUME Extract(d) PROVE StoreSafe'
  <2>1. /\ upload' \in [Doc -> {"idle", "begin", "write", "link", "insert", "done", "refused"}]
        /\ \A e \in Doc : upload'[e] \in {upload[e], "begin", "refused"}
    BY <1>0, <1>1, UploadMoves DEF Extract
  <2> QED  BY <1>0, <1>1, <2>1 DEF Extract, liveVars, StoreSafe, StoreTypeOK, LockIsHeld,
             Writing, FilesAreKept, RowsHaveBytes, CopiesAreWhole, Wanted
<1>2. ASSUME BeginUpload(d) PROVE StoreSafe'
  <2>1. /\ upload' \in [Doc -> {"idle", "begin", "write", "link", "insert", "done", "refused"}]
        /\ \A e \in Doc : upload'[e] = IF e = d THEN "write" ELSE upload[e]
    BY <1>0, <1>2, UploadMoves DEF BeginUpload
  <2>2. /\ \A e \in Doc : upload[e] \notin Writing
        /\ cleaner.stage # "removing"
    BY <1>0, <1>2, StoreAssumption DEF BeginUpload, LockIsHeld
  <2>3. StoreTypeOK'
    BY <1>0, <1>2, <2>1 DEF BeginUpload, StoreTypeOK
  <2>4. LockIsHeld' /\ FilesAreKept'
    BY <1>0, <1>2, <2>1, <2>2 DEF BeginUpload, LockIsHeld, FilesAreKept, Writing
  <2> QED  BY <1>0, <1>2, <2>3, <2>4 DEF BeginUpload, StoreSafe, RowsHaveBytes, CopiesAreWhole, Wanted
<1>3. ASSUME WriteTemp(d) PROVE StoreSafe'
  <2>1. /\ upload' \in [Doc -> {"idle", "begin", "write", "link", "insert", "done", "refused"}]
        /\ upload[d] = "write"
        /\ \A e \in Doc : upload'[e] = IF e = d THEN "link" ELSE upload[e]
    BY <1>0, <1>3, UploadMoves DEF WriteTemp
  <2>2. StoreTypeOK'
    BY <1>0, <1>3, <2>1 DEF WriteTemp, StoreTypeOK
  <2>3. LockIsHeld' /\ FilesAreKept'
    BY <1>0, <1>3, <2>1 DEF WriteTemp, LockIsHeld, FilesAreKept, Writing, Wanted
  <2> QED  BY <1>0, <1>3, <2>2, <2>3 DEF WriteTemp, StoreSafe, RowsHaveBytes, CopiesAreWhole, Wanted
<1>4. ASSUME LinkBlob(d) PROVE StoreSafe'
  <2>1. /\ upload' \in [Doc -> {"idle", "begin", "write", "link", "insert", "done", "refused"}]
        /\ upload[d] = "link"
        /\ \A e \in Doc : upload'[e] = IF e = d THEN "insert" ELSE upload[e]
    BY <1>0, <1>4, UploadMoves DEF LinkBlob
  <2>2. StoreTypeOK'
    BY <1>0, <1>4, <2>1, StoreAssumption DEF LinkBlob, StoreTypeOK
  <2>3. LockIsHeld' /\ FilesAreKept'
    BY <1>0, <1>4, <2>1 DEF LinkBlob, LockIsHeld, FilesAreKept, Writing, Wanted
  <2> QED  BY <1>0, <1>4, <2>2, <2>3 DEF LinkBlob, StoreSafe, RowsHaveBytes, CopiesAreWhole, Wanted
<1>5. ASSUME InsertRows(d) PROVE StoreSafe'
  <2>1. /\ upload' \in [Doc -> {"idle", "begin", "write", "link", "insert", "done", "refused"}]
        /\ upload[d] = "insert"
        /\ \A e \in Doc : upload'[e] = IF e = d THEN "done" ELSE upload[e]
    BY <1>0, <1>5, UploadMoves DEF InsertRows
  <2>2. /\ \A e \in Doc : upload'[e] \notin Writing
        /\ cleaner.stage # "removing"
    BY <1>0, <2>1 DEF LockIsHeld, Writing
  <2>3. StoreTypeOK'
    BY <1>0, <1>5, <2>1 DEF InsertRows, StoreTypeOK
  <2>4. LockIsHeld' /\ FilesAreKept'
    BY <1>0, <1>5, <2>1, <2>2 DEF InsertRows, LockIsHeld, FilesAreKept, Writing
  <2>5. RowsHaveBytes'
    BY <1>0, <1>5, <2>1 DEF InsertRows, RowsHaveBytes, Wanted, FilesAreKept
  <2> QED  BY <1>0, <1>5, <2>3, <2>4, <2>5 DEF InsertRows, StoreSafe, CopiesAreWhole
<1>6. ASSUME InsertFails(d) PROVE StoreSafe'
  <2>1. /\ upload' \in [Doc -> {"idle", "begin", "write", "link", "insert", "done", "refused"}]
        /\ upload[d] = "insert"
        /\ \A e \in Doc : upload'[e] = IF e = d THEN "refused" ELSE upload[e]
    BY <1>0, <1>6, UploadMoves DEF InsertFails
  <2>2. /\ \A e \in Doc : upload'[e] \notin Writing
        /\ cleaner.stage # "removing"
    BY <1>0, <2>1 DEF LockIsHeld, Writing
  <2>3. storeFaults' \in 0 .. StoreFaults
    BY <1>0, <1>6, FaultsBounded DEF InsertFails
  <2>4. StoreTypeOK'
    BY <1>0, <1>6, <2>1, <2>3 DEF InsertFails, StoreTypeOK
  <2>5. LockIsHeld' /\ FilesAreKept'
    BY <1>0, <1>6, <2>1, <2>2 DEF InsertFails, LockIsHeld, FilesAreKept, Writing
  <2>6. RowsHaveBytes'
    BY <1>0, <1>6 DEF InsertFails, RowsHaveBytes, Wanted, Undone
  <2> QED  BY <1>0, <1>6, <2>4, <2>5, <2>6 DEF InsertFails, StoreSafe, CopiesAreWhole
<1>7. ASSUME PersistFails(d) PROVE StoreSafe'
  <2>1. /\ upload' \in [Doc -> {"idle", "begin", "write", "link", "insert", "done", "refused"}]
        /\ upload[d] \in {"write", "link"}
        /\ \A e \in Doc : upload'[e] = IF e = d THEN "refused" ELSE upload[e]
    BY <1>0, <1>7, UploadMoves DEF PersistFails
  <2>2. /\ \A e \in Doc : upload'[e] \notin Writing
        /\ cleaner.stage # "removing"
    BY <1>0, <2>1 DEF LockIsHeld, Writing
  <2>3. storeFaults' \in 0 .. StoreFaults
    BY <1>0, <1>7, FaultsBounded DEF PersistFails
  <2>4. StoreTypeOK'
    BY <1>0, <1>7, <2>1, <2>3 DEF PersistFails, StoreTypeOK
  <2>5. LockIsHeld' /\ FilesAreKept'
    BY <1>0, <1>7, <2>1, <2>2 DEF PersistFails, LockIsHeld, FilesAreKept, Writing
  <2> QED  BY <1>0, <1>7, <2>4, <2>5 DEF PersistFails, StoreSafe, RowsHaveBytes, CopiesAreWhole, Wanted
<1> QED  BY <1>1, <1>2, <1>3, <1>4, <1>5, <1>6, <1>7

(* The crash of the web server, the deletion of the brief, the cleanup. *)
LEMMA CleanupKeeps ==
  ASSUME StoreSafe,
         WebDies \/ DropBrief \/ Reconcile \/ BeginCleanup \/ RemoveOrphan \/ EndCleanup
  PROVE  StoreSafe'
<1>0. /\ StoreTypeOK /\ LockIsHeld /\ FilesAreKept /\ RowsHaveBytes /\ CopiesAreWhole
      /\ \A d \in Doc : d # Free /\ d # Cleaner
      /\ Free # Cleaner
  BY StoreAssumption DEF StoreSafe, Free, Cleaner
<1>1. storeFaults' \in 0 .. StoreFaults
  BY <1>0, FaultsBounded DEF WebDies, DropBrief, Reconcile, BeginCleanup, RemoveOrphan, EndCleanup
<1>2. CopiesAreWhole'
  BY <1>0, CopySideKeeps
  DEF WebDies, DropBrief, Reconcile, BeginCleanup, RemoveOrphan, EndCleanup, copySide
<1>3. CASE WebDies
  <2>1. \A d \in Doc : upload'[d] \notin Writing
    BY <1>0, <1>3 DEF WebDies, Writing, StoreTypeOK
  <2>2. StoreTypeOK'
    BY <1>0, <1>1, <1>3 DEF WebDies, StoreTypeOK
  <2>3. LockIsHeld' /\ FilesAreKept' /\ RowsHaveBytes'
    BY <1>0, <1>3, <2>1 DEF WebDies, LockIsHeld, FilesAreKept, RowsHaveBytes, Writing, Wanted
  <2> QED  BY <1>2, <2>2, <2>3 DEF StoreSafe
<1>4. CASE DropBrief
  BY <1>0, <1>2, <1>4
  DEF DropBrief, StoreSafe, StoreTypeOK, LockIsHeld, FilesAreKept, RowsHaveBytes, Wanted
<1>5. CASE Reconcile
  <2>1. Wanted \subseteq Hash
    BY <1>0, StoreAssumption DEF Wanted, StoreTypeOK
  <2>2. StoreTypeOK'
    BY <1>0, <1>1, <1>5, <2>1 DEF Reconcile, Asleep, StoreTypeOK, liveVars
  <2>3. LockIsHeld' /\ FilesAreKept' /\ RowsHaveBytes'
    BY <1>0, <1>5 DEF Reconcile, Asleep, liveVars, LockIsHeld, FilesAreKept, RowsHaveBytes, Wanted
  <2> QED  BY <1>2, <2>2, <2>3 DEF StoreSafe
<1>6. CASE BeginCleanup
  <2>1. /\ cleaner'.stage = "removing" /\ cleaner'.seen = cleaner.seen
        /\ cleaner'.todo = (blobs \ Wanted) \cup temps
        /\ cleaner' = [stage |-> cleaner'.stage, seen |-> cleaner'.seen, todo |-> cleaner'.todo]
    BY <1>0, <1>6 DEF BeginCleanup, Referenced, StoreTypeOK
  <2>2. StoreTypeOK'
    BY <1>0, <1>1, <1>6, <2>1 DEF BeginCleanup, StoreTypeOK
  <2>3. Wanted' = Wanted /\ Wanted \subseteq Hash
    BY <1>0, <1>6, StoreAssumption DEF BeginCleanup, Wanted, StoreTypeOK
  <2>4. LockIsHeld' /\ FilesAreKept'
    BY <1>0, <1>6, <2>1, <2>3, StoreAssumption
    DEF BeginCleanup, LockIsHeld, FilesAreKept, StoreTypeOK
  <2> QED  BY <1>0, <1>2, <1>6, <2>2, <2>3, <2>4 DEF BeginCleanup, StoreSafe, RowsHaveBytes
<1>7. CASE RemoveOrphan
  <2>1. PICK f \in cleaner.todo :
          /\ blobs' = blobs \ {f} /\ temps' = temps \ {f}
          /\ cleaner' = [cleaner EXCEPT !.todo = @ \ {f}]
    BY <1>7 DEF RemoveOrphan
  <2>2. /\ cleaner'.stage = cleaner.stage /\ cleaner'.seen = cleaner.seen
        /\ cleaner'.todo = cleaner.todo \ {f}
        /\ cleaner' = [stage |-> cleaner'.stage, seen |-> cleaner'.seen, todo |-> cleaner'.todo]
    BY <1>0, <2>1 DEF StoreTypeOK
  <2>3. StoreTypeOK'
    BY <1>0, <1>1, <1>7, <2>1, <2>2 DEF RemoveOrphan, StoreTypeOK
  <2>4. /\ Wanted' = Wanted /\ f \notin Wanted
        /\ \A d \in Doc : upload'[d] = upload[d] /\ upload[d] # "insert"
    BY <1>0, <1>7, <2>1 DEF RemoveOrphan, FilesAreKept, LockIsHeld, Wanted, Writing
  <2>5. LockIsHeld' /\ FilesAreKept' /\ RowsHaveBytes'
    BY <1>0, <1>7, <2>1, <2>2, <2>4 DEF RemoveOrphan, LockIsHeld, FilesAreKept, RowsHaveBytes
  <2> QED  BY <1>2, <2>3, <2>5 DEF StoreSafe
<1>8. CASE EndCleanup
  <2>1. \A d \in Doc : upload[d] \notin Writing
    BY <1>0, <1>8 DEF EndCleanup, LockIsHeld
  <2>2. StoreTypeOK'
    BY <1>0, <1>1, <1>8 DEF EndCleanup, Asleep, StoreTypeOK
  <2>3. LockIsHeld' /\ FilesAreKept' /\ RowsHaveBytes'
    BY <1>0, <1>8, <2>1
    DEF EndCleanup, Asleep, LockIsHeld, FilesAreKept, RowsHaveBytes, Writing, Wanted
  <2> QED  BY <1>2, <2>2, <2>3 DEF StoreSafe
<1> QED  BY <1>3, <1>4, <1>5, <1>6, <1>7, <1>8

(* The backup and the restore change nothing the application works on. *)
LEMMA CopiesKeep ==
  ASSUME StoreSafe,
         Snapshot \/ ListFiles \/ CopyFile \/ Publish \/ DamageBackup \/ Restore
  PROVE  StoreSafe'
<1>0. /\ StoreTypeOK /\ LockIsHeld /\ FilesAreKept /\ RowsHaveBytes /\ CopiesAreWhole
  BY DEF StoreSafe
<1>1. storeFaults' \in 0 .. StoreFaults
  BY <1>0, FaultsBounded DEF Snapshot, ListFiles, CopyFile, Publish, DamageBackup, Restore
<1>2. UNCHANGED liveSide
  BY DEF Snapshot, ListFiles, CopyFile, Publish, DamageBackup, Restore, liveSide
<1>3. LockIsHeld' /\ FilesAreKept' /\ RowsHaveBytes'
  BY <1>0, <1>2, LiveSideKeeps
<1>4. Wanted \subseteq Hash
  BY <1>0, StoreAssumption DEF Wanted, StoreTypeOK
<1> DEFINE Copiers == [stage : {"idle", "snapshot", "copying"}, rows : SUBSET Hash,
                       todo : SUBSET (Hash \cup Doc), done : SUBSET (Hash \cup Doc)]
<1>5. copier' \in Copiers
  <2>1. NotCopying \in Copiers /\ copier \in Copiers
    BY <1>0 DEF NotCopying, StoreTypeOK
  <2>2. CASE Snapshot
    BY <1>4, <2>2 DEF Snapshot, NotCopying
  <2>3. CASE ListFiles
    BY <1>0, <2>1, <2>3 DEF ListFiles, StoreTypeOK
  <2>4. CASE CopyFile
    <3>1. PICK f \in copier.todo :
            copier' \in {NotCopying, [copier EXCEPT !.todo = @ \ {f}, !.done = @ \cup {f}]}
      BY <2>4 DEF CopyFile
    <3>2. copier.todo \subseteq Hash \cup Doc
      BY <2>1
    <3>3. [copier EXCEPT !.todo = @ \ {f}, !.done = @ \cup {f}] \in Copiers
      BY <2>1, <3>1, <3>2
    <3> QED  BY <2>1, <3>1, <3>3
  <2>5. CASE Publish \/ DamageBackup \/ Restore
    BY <2>1, <2>5 DEF Publish, DamageBackup, Restore
  <2> QED  BY <2>2, <2>3, <2>4, <2>5
<1>6. backup' \in Copy /\ restored' \in Copy /\ CopiesAreWhole'
  <2>1. CASE Snapshot \/ ListFiles \/ CopyFile
    BY <1>0, <2>1 DEF Snapshot, ListFiles, CopyFile, StoreTypeOK, CopiesAreWhole
  <2>2. CASE Publish
    BY <1>0, <2>2 DEF Publish, Verified, Copy, StoreTypeOK, CopiesAreWhole
  <2>3. CASE DamageBackup
    <3>1. PICK f \in backup.files :
            backup' = [backup EXCEPT !.files = @ \ {f}, !.sound = FALSE]
      BY <2>3 DEF DamageBackup
    <3>2. backup \in Copy /\ restored \in Copy /\ restored' = restored
      BY <1>0, <2>3 DEF DamageBackup, StoreTypeOK
    <3>3. backup' \in Copy /\ backup'.sound = FALSE
      BY <3>1, <3>2 DEF Copy
    <3> QED  BY <1>0, <3>2, <3>3 DEF CopiesAreWhole
  <2>4. CASE Restore
    BY <1>0, <2>4 DEF Restore, Verified, Copy, StoreTypeOK, CopiesAreWhole
  <2> QED  BY <2>1, <2>2, <2>3, <2>4
<1>7. StoreTypeOK'
  BY <1>0, <1>1, <1>2, <1>5, <1>6 DEF StoreTypeOK, liveSide, liveVars
<1> QED  BY <1>3, <1>6, <1>7 DEF StoreSafe

LEMMA StoreStep == StoreSafe /\ [StoreNext]_storeVars => StoreSafe'
<1> SUFFICES ASSUME StoreSafe, [StoreNext]_storeVars PROVE StoreSafe'
  OBVIOUS
<1>1. CASE UNCHANGED storeVars
  BY <1>1 DEF storeVars, liveVars, StoreSafe, StoreTypeOK, LockIsHeld, FilesAreKept,
     RowsHaveBytes, CopiesAreWhole, Wanted
<1>2. CASE StoreNext
  BY <1>2, UploadsKeep, CleanupKeeps, CopiesKeep DEF StoreNext
<1> QED  BY <1>1, <1>2

(* Types of the store, for any number of uploads, contents and faults. *)
THEOREM StoreTypes == StoreSpec => []StoreTypeOK
<1>1. StoreSafe => StoreTypeOK
  BY DEF StoreSafe
<1> QED  BY <1>1, StoreStart, StoreStep, PTL DEF StoreSpec

(* No committed row of a document loses its file. *)
THEOREM BytesHold == StoreSpec => []RowsHaveBytes
<1>1. StoreSafe => RowsHaveBytes
  BY DEF StoreSafe
<1> QED  BY <1>1, StoreStart, StoreStep, PTL DEF StoreSpec

(* A finished, undamaged backup and a restored directory have every file     *)
(* their rows want.                                                          *)
THEOREM CopiesHold == StoreSpec => []CopiesAreWhole
<1>1. StoreSafe => CopiesAreWhole
  BY DEF StoreSafe
<1> QED  BY <1>1, StoreStart, StoreStep, PTL DEF StoreSpec

------------------------------------------------------------------------------
(* The catch-up cache *)

(* A summary was stored with the fingerprint of a journal that held its own   *)
(* reply, live; no row is ever rewritten.                                     *)
HoldsReply(c) ==
  /\ c.source \in DOMAIN c.fingerprint.entries
  /\ c.fingerprint.entries[c.source][2] = FALSE

JournalSafe ==
  /\ count \in 0 .. MaxEntries
  /\ DOMAIN entries = EntryId
  /\ \A c \in cache : HoldsReply(c)

LEMMA JournalStart == JournalInit => JournalSafe
BY JournalAssumption DEF JournalInit, JournalSafe

(* The row Answer stores. *)
LEMMA AnswerKeeps ==
  ASSUME JournalSafe, NEW u \in User, Answer(u)
  PROVE  JournalSafe'
<1> DEFINE a == count + 1
           appended == [entries EXCEPT ![a] = NewEntry(u, "assistant", req[u].root)]
           stored == [key |-> req[u].key, fingerprint |-> Stamp(appended, a),
                      context |-> req[u].context, source |-> a]
<1>1. a \in 1 .. a /\ a \in EntryId /\ count' = a /\ a \in 0 .. MaxEntries
  BY JournalAssumption DEF Answer, JournalSafe, EntryId
<1>2. DOMAIN appended = EntryId /\ appended[a].deleted = FALSE
  BY <1>1 DEF JournalSafe, NewEntry
<1>3. HoldsReply(stored)
  <2>1. stored.fingerprint.entries = [e \in 1 .. a |-> <<appended[e].rev, appended[e].deleted>>]
    BY DEF Stamp
  <2>2. stored.fingerprint.entries[a] = <<appended[a].rev, appended[a].deleted>>
    BY <1>1, <2>1
  <2> QED  BY <1>1, <1>2, <2>1, <2>2 DEF HoldsReply
<1>4. entries' = appended /\ (cache' = cache \/ cache' = cache \cup {stored})
  BY DEF Answer
<1> HIDE DEF stored, appended
<1> QED  BY <1>1, <1>2, <1>3, <1>4 DEF JournalSafe

LEMMA JournalStep == JournalSafe /\ [JournalNext]_journalVars => JournalSafe'
<1> SUFFICES ASSUME JournalSafe, [JournalNext]_journalVars PROVE JournalSafe'
  OBVIOUS
<1>0. MaxEntries \in Nat
  BY JournalAssumption
<1>1. CASE UNCHANGED journalVars
  BY <1>1 DEF journalVars, JournalSafe
<1>2. ASSUME NEW u \in User, Entry(u) PROVE JournalSafe'
  <2>1. \/ count' = count
        \/ count < MaxEntries /\ count' = count + 1
    BY <1>2 DEF Entry, Post, StartEdit, DeleteEntry, FinishEdit, StartUpload, FinishUpload
  <2>2. DOMAIN entries' = DOMAIN entries /\ cache' = cache
    BY <1>2 DEF Entry, Post, StartEdit, DeleteEntry, FinishEdit, StartUpload, FinishUpload
  <2> QED  BY <1>0, <2>1, <2>2 DEF JournalSafe
<1>3. ASSUME NEW u \in User, Assistant(u) PROVE JournalSafe'
  <2>1. CASE Answer(u)
    BY <2>1, AnswerKeeps
  <2>2. CASE \/ \E k \in Key : AskCached(u, k)
             \/ \E k \in Key \cup {NoKey}, r \in {0} \cup EntryId : Ask(u, k, r)
             \/ NoAnswer(u)
    <3>1. \/ count' = count
          \/ count < MaxEntries /\ count' = count + 1
          \/ count + 2 <= MaxEntries /\ count' = count + 2
      BY <2>2 DEF AskCached, Ask, NoAnswer
    <3>2. DOMAIN entries' = DOMAIN entries /\ cache' = cache
      BY <2>2 DEF AskCached, Ask, NoAnswer
    <3> QED  BY <1>0, <3>1, <3>2 DEF JournalSafe
  <2> QED  BY <1>3, <2>1, <2>2 DEF Assistant
<1>4. ASSUME Review \/ Restart \/ \E u \in User : Leave(u) PROVE JournalSafe'
  BY <1>4 DEF Review, Restart, Leave, JournalSafe
<1> QED  BY <1>1, <1>2, <1>3, <1>4 DEF JournalNext

(* A summary whose reply was deleted is never served again: what is served   *)
(* has the fingerprint of the journal as it is, in which its reply is live.  *)
THEOREM DeletedHolds == JournalSafeSpec => []DeletedIsNotServed
<1>1. JournalSafe => DeletedIsNotServed
  <2> SUFFICES ASSUME JournalSafe, NEW k \in Key, NEW c \in Usable(k) PROVE LiveEntry(c.source)
    BY DEF DeletedIsNotServed
  <2>1. c \in cache /\ c.fingerprint = Stamp(entries, count) /\ HoldsReply(c)
    BY DEF Usable, Fingerprint, JournalSafe
  <2>2. c.fingerprint.entries = [e \in 1 .. count |-> <<entries[e].rev, entries[e].deleted>>]
    BY <2>1 DEF Stamp
  <2>3. c.source \in 1 .. count
    BY <2>1, <2>2 DEF HoldsReply
  <2>4. c.fingerprint.entries[c.source] = <<entries[c.source].rev, entries[c.source].deleted>>
    BY <2>2, <2>3
  <2> QED  BY <2>1, <2>3, <2>4 DEF HoldsReply, LiveEntry
<1> QED  BY <1>1, JournalStart, JournalStep, PTL DEF JournalSafeSpec

(* What the rows, the requests and the semaphore of the Journal are worth.    *)
(* Only its author edits an entry, so that one edit of an entry at most is    *)
(* under way, and its revision is still to come; only one user at a time has  *)
(* the assistant answer, and a permit is taken while it does.                 *)
RevisionsCount ==
  /\ signals <= changes
  /\ \A e \in EntryId : entries[e].rev <= changes
  /\ \A u \in User : req[u].phase = "edit" =>
       entries[req[u].entry].by = u /\ entries[req[u].entry].rev < changes
OneCall ==
  /\ \A u \in User : req[u].phase = "call" => busy = 1
  /\ \A u, v \in User : req[u].phase = "call" /\ req[v].phase = "call" => u = v
Calls ==
  \A u \in User : req[u].phase = "call" =>
    req[u].root \in 1 .. count /\ req[u].key \in Key \cup {NoKey}
JournalShape ==
  /\ JournalTypeOK /\ RevisionsCount /\ OneCall /\ Calls
  /\ req = [u \in User |-> req[u]]

(* An empty Journal, nobody at work.                                          *)
LEMMA ShapeStarts == JournalInit => JournalShape
BY JournalAssumption DEF JournalInit, JournalShape, JournalTypeOK, RevisionsCount, OneCall, Calls,
   NoEntry, Row, Idle, EntryId

(* A thread's root is an entry or nothing.                                    *)
LEMMA RootsAreEntries ==
  ASSUME JournalShape, NEW root \in Targets
  PROVE  root \in EntryId \cup {0} /\ (root # 0 => root \in 1 .. count)
<1>1. CASE root = 0
  BY <1>1
<1>2. CASE root # 0
  <2>1. PICK t \in EntryId : root = ThreadRoot(t)
    BY <1>2 DEF Targets
  <2>2. (root = t /\ LiveEntry(t)) \/ (root = entries[t].root /\ LiveEntry(entries[t].root))
    <3>1. CASE ~LiveEntry(t)
      BY <1>2, <2>1, <3>1 DEF ThreadRoot
    <3>2. CASE LiveEntry(t) /\ entries[t].root = 0
      BY <2>1, <3>2 DEF ThreadRoot
    <3>3. CASE LiveEntry(t) /\ entries[t].root # 0 /\ ~LiveEntry(entries[t].root)
      BY <1>2, <2>1, <3>3 DEF ThreadRoot
    <3>4. CASE LiveEntry(t) /\ entries[t].root # 0 /\ LiveEntry(entries[t].root)
      BY <2>1, <3>4 DEF ThreadRoot
    <3> QED  BY <3>1, <3>2, <3>3, <3>4
  <2>3. root \in 1 .. count
    BY <2>2 DEF LiveEntry
  <2>4. count \in 0 .. MaxEntries
    BY DEF JournalShape, JournalTypeOK
  <2> QED  BY <2>3, <2>4, JournalAssumption DEF EntryId
<1> QED  BY <1>1, <1>2

(* One new row, after which the requests are as they were but for one user's. *)
LEMMA RowAdded ==
  ASSUME JournalShape, NEW row \in Row, row.rev = 0, row.author # "none",
         count < MaxEntries, count' = count + 1,
         entries' = [entries EXCEPT ![count + 1] = row],
         UNCHANGED <<signals, changes, member>>
  PROVE  /\ count' \in 0 .. MaxEntries /\ 1 .. count \subseteq 1 .. count' /\ count' \in 1 .. count'
         /\ entries' \in [EntryId -> Row]
         /\ \A e \in EntryId : entries'[e].author = "none" <=> e > count'
         /\ signals' \in 0 .. MaxChanges /\ changes' \in 0 .. MaxChanges /\ member' \subseteq User
         /\ signals' <= changes' /\ \A e \in EntryId : entries'[e].rev <= changes'
         /\ \A e \in 1 .. count : entries'[e] = entries[e]
<1>1. /\ count \in Nat /\ MaxEntries \in Nat /\ changes \in Nat
      /\ count + 1 \in EntryId /\ 1 .. count \subseteq EntryId
  BY JournalAssumption DEF JournalShape, JournalTypeOK, EntryId
<1>2. entries' \in [EntryId -> Row] /\ \A e \in EntryId : entries'[e] = IF e = count + 1 THEN row ELSE entries[e]
  BY <1>1 DEF JournalShape, JournalTypeOK
<1>3. \A e \in EntryId : entries'[e].author = "none" <=> e > count'
  BY <1>1, <1>2 DEF JournalShape, JournalTypeOK, EntryId
<1>4. \A e \in EntryId : entries'[e].rev <= changes'
  BY <1>1, <1>2 DEF JournalShape, RevisionsCount
<1> QED  BY <1>1, <1>2, <1>3, <1>4 DEF JournalShape, JournalTypeOK, RevisionsCount, EntryId

(* The rest of the shape, after such a row.                                   *)
LEMMA AddedKeeps ==
  ASSUME JournalShape, NEW row \in Row, row.rev = 0, row.author # "none",
         count < MaxEntries, count' = count + 1,
         entries' = [entries EXCEPT ![count + 1] = row],
         UNCHANGED <<signals, changes, member>>,
         \A c \in cache' : c.key \in Key /\ c.source \in 1 .. count',
         hidden' \subseteq 1 .. count', busy' \in 0 .. 1,
         NEW u \in User, NEW r, req' = [req EXCEPT ![u] = r],
         \/ r = req[u] /\ busy' = busy
         \/ r.phase = "idle" /\ \/ busy' = busy
                                \/ req[u].phase = "call"
         \/ /\ r.phase = "call" /\ busy = 0 /\ busy' = 1
            /\ r.entry \in 1 .. count' /\ r.root \in 1 .. count' /\ r.key \in Key \cup {NoKey}
  PROVE  JournalShape'
<1>1. /\ count' \in 0 .. MaxEntries /\ 1 .. count \subseteq 1 .. count' /\ count' \in 1 .. count'
      /\ entries' \in [EntryId -> Row]
      /\ \A e \in EntryId : entries'[e].author = "none" <=> e > count'
      /\ signals' \in 0 .. MaxChanges /\ changes' \in 0 .. MaxChanges /\ member' \subseteq User
      /\ signals' <= changes' /\ \A e \in EntryId : entries'[e].rev <= changes'
      /\ \A e \in 1 .. count : entries'[e] = entries[e]
  BY RowAdded
<1>2. /\ req' = [v \in User |-> req'[v]]
      /\ \A v \in User : req'[v] = IF v = u THEN r ELSE req[v]
  BY DEF JournalShape
<1>3. \A v \in User : /\ req'[v].phase \in {"idle", "edit", "upload", "call"}
                      /\ req'[v].phase \in {"edit", "call"} => req'[v].entry \in 1 .. count'
  BY <1>1, <1>2 DEF JournalShape, JournalTypeOK
<1>4. JournalTypeOK'
  BY <1>1, <1>3 DEF JournalTypeOK
<1>5. \A v \in User : req'[v].phase = "edit" => req[v].phase = "edit" /\ req'[v] = req[v]
  BY <1>2
<1>6. \A v \in User : req[v].phase = "edit" => req[v].entry \in 1 .. count
  BY DEF JournalShape, JournalTypeOK
<1>7. RevisionsCount'
  BY <1>1, <1>5, <1>6 DEF JournalShape, RevisionsCount
<1>8. OneCall'
  BY <1>2 DEF JournalShape, OneCall
<1>9. Calls'
  BY <1>1, <1>2 DEF JournalShape, Calls
<1> QED  BY <1>2, <1>4, <1>7, <1>8, <1>9 DEF JournalShape

(* The row of a new entry: nothing has edited it yet.                         *)
LEMMA EntryRow ==
  ASSUME JournalShape, NEW u \in User, NEW author \in {"user", "assistant"}, NEW root \in EntryId \cup {0}
  PROVE  LET row == NewEntry(u, author, root) IN row \in Row /\ row.rev = 0 /\ row.author # "none"
BY JournalAssumption DEF NewEntry, Row

(* postEntryAction: one row, no request.                                      *)
LEMMA PostShapes ==
  ASSUME JournalShape, NEW u \in User, NEW root, Post(u, root)
  PROVE  JournalShape'
<1> DEFINE row == NewEntry(u, "user", root)
<1>1. row \in Row /\ row.rev = 0 /\ row.author # "none"
  BY RootsAreEntries, EntryRow DEF Post
<1> HIDE DEF row
<1>2. /\ count < MaxEntries /\ count' = count + 1
      /\ entries' = [entries EXCEPT ![count + 1] = row]
      /\ UNCHANGED <<signals, changes, member>> /\ cache' = cache /\ hidden' = hidden
      /\ busy' = busy /\ req' = req
  BY DEF Post, row
<1>3. /\ \A c \in cache' : c.key \in Key /\ c.source \in 1 .. count'
      /\ hidden' \subseteq 1 .. count' /\ busy' \in 0 .. 1
  BY <1>2, JournalAssumption DEF JournalShape, JournalTypeOK
<1>4. req' = [req EXCEPT ![u] = req[u]]
  BY <1>2 DEF JournalShape
<1> QED  BY <1>1, <1>2, <1>3, <1>4, AddedKeeps

(* An upload ends with the row of its document.                               *)
LEMMA UploadShapes ==
  ASSUME JournalShape, NEW u \in User, FinishUpload(u)
  PROVE  JournalShape'
<1> DEFINE row == NewEntry(u, "user", 0)
<1>1. row \in Row /\ row.rev = 0 /\ row.author # "none"
  BY EntryRow
<1> HIDE DEF row
<1>2. /\ count < MaxEntries /\ count' = count + 1
      /\ entries' = [entries EXCEPT ![count + 1] = row]
      /\ UNCHANGED <<signals, changes, member>> /\ cache' = cache /\ hidden' = hidden
      /\ busy' = busy /\ req' = [req EXCEPT ![u] = Idle]
  BY DEF FinishUpload, row
<1>3. /\ \A c \in cache' : c.key \in Key /\ c.source \in 1 .. count'
      /\ hidden' \subseteq 1 .. count' /\ busy' \in 0 .. 1
  BY <1>2, JournalAssumption DEF JournalShape, JournalTypeOK
<1>4. Idle.phase = "idle"
  BY DEF Idle
<1> QED  BY <1>1, <1>2, <1>3, <1>4, AddedKeeps

(* A question is a row, and its author takes the permit.                      *)
LEMMA AskShapes ==
  ASSUME JournalShape, NEW u \in User, NEW k \in Key \cup {NoKey}, NEW root, Ask(u, k, root)
  PROVE  JournalShape'
<1> DEFINE row == NewEntry(u, "user", root)
           r == [phase |-> "call", entry |-> count + 1,
                 root |-> IF root = 0 THEN count + 1 ELSE root,
                 key |-> IF root = 0 THEN k ELSE NoKey,
                 context |-> Context \union {<<count + 1, 0>>}]
<1>0. root \in EntryId \cup {0} /\ (root # 0 => root \in 1 .. count)
  BY RootsAreEntries DEF Ask
<1>1. row \in Row /\ row.rev = 0 /\ row.author # "none"
  BY <1>0, EntryRow
<1> HIDE DEF row
<1>2. /\ count < MaxEntries /\ count' = count + 1
      /\ entries' = [entries EXCEPT ![count + 1] = row]
      /\ UNCHANGED <<signals, changes, member>> /\ cache' = cache /\ hidden' = hidden
      /\ busy = 0 /\ busy' = 1 /\ req' = [req EXCEPT ![u] = r]
  BY DEF Ask, row
<1>3. count \in Nat
  BY JournalAssumption DEF JournalShape, JournalTypeOK
<1>4. r.phase = "call" /\ r.entry \in 1 .. count' /\ r.root \in 1 .. count' /\ r.key \in Key \cup {NoKey}
  <2>1. r.phase = "call" /\ r.entry = count + 1 /\ r.root = (IF root = 0 THEN count + 1 ELSE root)
        /\ r.key = IF root = 0 THEN k ELSE NoKey
    OBVIOUS
  <2> HIDE DEF r
  <2>2. r.key \in Key \cup {NoKey}
    BY <2>1
  <2>3. r.entry \in 1 .. count'
    BY <1>2, <1>3, <2>1
  <2>4. r.root \in 1 .. count'
    <3>1. CASE root = 0
      BY <1>2, <1>3, <2>1, <3>1
    <3>2. CASE root # 0
      BY <1>0, <1>2, <1>3, <2>1, <3>2
    <3> QED  BY <3>1, <3>2
  <2> QED  BY <2>1, <2>2, <2>3, <2>4
<1> HIDE DEF r
<1>5. /\ \A c \in cache' : c.key \in Key /\ c.source \in 1 .. count'
      /\ hidden' \subseteq 1 .. count' /\ busy' \in 0 .. 1
  BY <1>2, <1>3 DEF JournalShape, JournalTypeOK
<1> QED  BY <1>1, <1>2, <1>4, <1>5, AddedKeeps

(* The reply is a row under the root, and gives the permit back.              *)
LEMMA AnswerShapes ==
  ASSUME JournalShape, NEW u \in User, Answer(u)
  PROVE  JournalShape'
<1> DEFINE row == NewEntry(u, "assistant", req[u].root)
<1>0. /\ req[u].phase = "call" /\ req[u].root \in 1 .. count /\ req[u].key \in Key \cup {NoKey}
      /\ busy = 1 /\ count \in Nat /\ count <= MaxEntries
  BY JournalAssumption DEF Answer, JournalShape, Calls, OneCall, JournalTypeOK
<1>a. req[u].root \in EntryId \cup {0}
  BY <1>0, JournalAssumption DEF EntryId
<1>1. row \in Row /\ row.rev = 0 /\ row.author # "none"
  BY <1>a, EntryRow
<1> HIDE DEF row
<1>2. /\ count < MaxEntries /\ count' = count + 1
      /\ entries' = [entries EXCEPT ![count + 1] = row]
      /\ UNCHANGED <<signals, changes, member>>
      /\ busy' = busy - 1 /\ req' = [req EXCEPT ![u] = Idle]
  BY DEF Answer, row
<1>3. \A c \in cache' : c \in cache \/ (c.key = req[u].key /\ c.source = count + 1 /\ req[u].key # NoKey)
  BY DEF Answer
<1>4. hidden' \subseteq hidden \cup {count + 1}
  BY DEF Answer
<1>5. Idle.phase = "idle"
  BY DEF Idle
<1>6. /\ \A c \in cache' : c.key \in Key /\ c.source \in 1 .. count'
      /\ hidden' \subseteq 1 .. count' /\ busy' \in 0 .. 1
  BY <1>0, <1>2, <1>3, <1>4 DEF JournalShape, JournalTypeOK
<1> QED  BY <1>0, <1>1, <1>2, <1>5, <1>6, AddedKeeps

(* Two rows at once.                                                          *)
LEMMA CachedShapes ==
  ASSUME JournalShape, NEW u \in User, NEW k, AskCached(u, k)
  PROVE  JournalShape'
<1> DEFINE one == NewEntry(u, "user", 0)
           two == NewEntry(u, "assistant", count + 1)
<1>0. count \in Nat /\ MaxEntries \in Nat /\ count + 2 <= MaxEntries /\ changes \in Nat
  BY JournalAssumption DEF AskCached, JournalShape, JournalTypeOK
<1>1. count + 1 \in EntryId /\ count + 2 \in EntryId /\ 1 .. count \subseteq EntryId
  BY <1>0 DEF EntryId
<1>2. /\ one \in Row /\ one.rev = 0 /\ one.author # "none"
      /\ two \in Row /\ two.rev = 0 /\ two.author # "none"
  BY <1>1, EntryRow
<1> HIDE DEF one, two
<1>3. /\ count' = count + 2
      /\ entries' = [entries EXCEPT ![count + 1] = one, ![count + 2] = two]
      /\ UNCHANGED <<signals, changes, member, cache, busy, req, hidden>>
  BY DEF AskCached, one, two
<1>4. entries \in [EntryId -> Row]
  BY DEF JournalShape, JournalTypeOK
<1>5. /\ entries' \in [EntryId -> Row]
      /\ \A e \in EntryId : entries'[e] = IF e = count + 2 THEN two
                                          ELSE IF e = count + 1 THEN one ELSE entries[e]
  BY <1>1, <1>2, <1>3, <1>4
<1>6. \A e \in EntryId : entries'[e].author = "none" <=> e > count'
  BY <1>0, <1>2, <1>3, <1>5 DEF JournalShape, JournalTypeOK, EntryId
<1>7. JournalTypeOK'
  BY <1>0, <1>3, <1>5, <1>6 DEF JournalShape, JournalTypeOK
<1>8. RevisionsCount'
  <2>1. \A e \in EntryId : entries'[e].rev <= changes'
    BY <1>0, <1>2, <1>3, <1>5 DEF JournalShape, RevisionsCount
  <2>2. \A v \in User : req[v].phase = "edit" => entries'[req[v].entry] = entries[req[v].entry]
    BY <1>0, <1>1, <1>5 DEF JournalShape, JournalTypeOK
  <2> QED  BY <1>3, <2>1, <2>2 DEF JournalShape, RevisionsCount
<1>9. OneCall' /\ Calls'
  BY <1>0, <1>3 DEF JournalShape, OneCall, Calls
<1> QED  BY <1>3, <1>7, <1>8, <1>9 DEF JournalShape

(* An edit starts on an entry of its author, and a change is counted.         *)
LEMMA StartEditShapes ==
  ASSUME JournalShape, NEW u \in User, NEW e \in EntryId, StartEdit(u, e)
  PROVE  JournalShape'
<1> DEFINE r == [Idle EXCEPT !.phase = "edit", !.entry = e]
<1>1. r.phase = "edit" /\ r.entry = e
  BY DEF Idle
<1> HIDE DEF r
<1>2. /\ e \in 1 .. count /\ entries[e].by = u /\ changes < MaxChanges /\ changes' = changes + 1
      /\ req' = [req EXCEPT ![u] = r] /\ req[u].phase = "idle"
      /\ UNCHANGED <<count, entries, signals, member, cache, busy, hidden>>
  BY DEF StartEdit, LiveEntry, r
<1>3. changes \in Nat /\ MaxChanges \in Nat /\ signals \in Nat /\ entries \in [EntryId -> Row]
      /\ \A i \in EntryId : entries[i].rev \in Nat /\ entries[i].rev <= changes
  BY JournalAssumption DEF JournalShape, JournalTypeOK, RevisionsCount, Row
<1>4. /\ req' = [v \in User |-> req'[v]]
      /\ \A v \in User : req'[v] = IF v = u THEN r ELSE req[v]
  BY <1>2 DEF JournalShape
<1>5. JournalTypeOK'
  BY <1>1, <1>2, <1>3, <1>4 DEF JournalShape, JournalTypeOK
<1>6. RevisionsCount'
  <2>1. \A v \in User : req[v].phase = "edit" => req[v].entry \in EntryId
    BY JournalAssumption DEF JournalShape, JournalTypeOK, EntryId
  <2>2. signals' <= changes' /\ \A i \in EntryId : entries'[i].rev <= changes'
    BY <1>2, <1>3 DEF JournalShape, RevisionsCount
  <2>3. \A v \in User : req'[v].phase = "edit" =>
          entries'[req'[v].entry].by = v /\ entries'[req'[v].entry].rev < changes'
    BY <1>1, <1>2, <1>3, <1>4, <2>1 DEF JournalShape, RevisionsCount
  <2> QED  BY <2>2, <2>3 DEF RevisionsCount
<1>7. OneCall' /\ Calls'
  BY <1>1, <1>2, <1>4 DEF JournalShape, OneCall, Calls
<1> QED  BY <1>4, <1>5, <1>6, <1>7 DEF JournalShape

(* The revision comes at last: no other edit of the entry was under way.      *)
LEMMA FinishEditShapes ==
  ASSUME JournalShape, NEW u \in User, FinishEdit(u)
  PROVE  JournalShape'
<1> DEFINE e == req[u].entry
<1>1. /\ req[u].phase = "edit" /\ e \in 1 .. count /\ entries[e].by = u /\ entries[e].rev < changes
      /\ count \in Nat /\ count <= MaxEntries /\ changes \in 0 .. MaxChanges
      /\ MaxChanges \in Nat /\ MaxEntries \in Nat /\ entries \in [EntryId -> Row]
  BY JournalAssumption DEF FinishEdit, JournalShape, JournalTypeOK, RevisionsCount
<1>2. e \in EntryId
  BY <1>1 DEF EntryId
<1> HIDE DEF e
<1>3. /\ entries' = [entries EXCEPT ![e].rev = @ + 1] /\ req' = [req EXCEPT ![u] = Idle]
      /\ UNCHANGED <<count, signals, changes, member, cache, busy, hidden>>
  BY DEF FinishEdit, e
<1>4. /\ req' = [v \in User |-> req'[v]]
      /\ \A v \in User : req'[v] = IF v = u THEN Idle ELSE req[v]
  BY <1>3 DEF JournalShape
<1>5. Idle.phase = "idle"
  BY DEF Idle
<1>6. PICK row \in Row : entries' = [entries EXCEPT ![e] = row]
        /\ row.by = entries[e].by /\ row.author = entries[e].author /\ row.rev = entries[e].rev + 1
  <2> DEFINE row == [entries[e] EXCEPT !.rev = @ + 1]
  <2>1. entries[e] \in Row
    BY <1>1, <1>2
  <2>2. entries[e].rev \in Nat /\ entries[e].rev + 1 \in 0 .. MaxChanges
    BY <1>1, <2>1 DEF Row
  <2>3. row \in Row /\ row.by = entries[e].by /\ row.author = entries[e].author /\ row.rev = entries[e].rev + 1
    BY <2>1, <2>2 DEF Row
  <2>4. entries' = [entries EXCEPT ![e] = row]
    BY <1>3
  <2> QED  BY <2>3, <2>4
<1>7. entries' \in [EntryId -> Row] /\ \A i \in EntryId : entries'[i] = IF i = e THEN row ELSE entries[i]
  BY <1>1, <1>2, <1>6
<1>8. JournalTypeOK'
  BY <1>1, <1>3, <1>4, <1>5, <1>6, <1>7 DEF JournalShape, JournalTypeOK
<1>9. RevisionsCount'
  <2>1. \A v \in User : req[v].phase = "edit" => req[v].entry \in EntryId
    BY JournalAssumption DEF JournalShape, JournalTypeOK, EntryId
  <2>2. entries[e].rev \in Nat /\ changes \in Nat
    BY <1>1, <1>2 DEF Row
  <2>3. signals' <= changes' /\ \A i \in EntryId : entries'[i].rev <= changes'
    BY <1>1, <1>3, <1>6, <1>7, <2>2 DEF JournalShape, RevisionsCount
  <2>4. \A v \in User : req'[v].phase = "edit" =>
          v # u /\ req'[v] = req[v] /\ req[v].entry \in EntryId /\ req[v].entry # e
    BY <1>1, <1>4, <1>5, <2>1 DEF JournalShape, RevisionsCount
  <2>5. \A v \in User : req'[v].phase = "edit" =>
          entries'[req'[v].entry].by = v /\ entries'[req'[v].entry].rev < changes'
    BY <1>3, <1>7, <2>4 DEF JournalShape, RevisionsCount
  <2> QED  BY <2>3, <2>5 DEF RevisionsCount
<1>10. OneCall' /\ Calls'
  BY <1>3, <1>4, <1>5 DEF JournalShape, OneCall, Calls
<1> QED  BY <1>4, <1>8, <1>9, <1>10 DEF JournalShape

(* A deletion marks the row and keeps its author and its revision.            *)
LEMMA DeleteShapes ==
  ASSUME JournalShape, NEW u \in User, NEW e \in EntryId, DeleteEntry(u, e)
  PROVE  JournalShape'
<1>1. /\ entries' = [entries EXCEPT ![e].deleted = TRUE]
      /\ UNCHANGED <<count, signals, changes, member, cache, busy, req, hidden>>
      /\ entries \in [EntryId -> Row]
  BY DEF DeleteEntry, JournalShape, JournalTypeOK
<1>2. PICK row \in Row : entries' = [entries EXCEPT ![e] = row]
        /\ row.by = entries[e].by /\ row.author = entries[e].author /\ row.rev = entries[e].rev
  <2> DEFINE row == [entries[e] EXCEPT !.deleted = TRUE]
  <2>1. row \in Row /\ row.by = entries[e].by /\ row.author = entries[e].author /\ row.rev = entries[e].rev
    BY <1>1 DEF Row
  <2>2. entries' = [entries EXCEPT ![e] = row]
    BY <1>1
  <2> QED  BY <2>1, <2>2
<1>3. entries' \in [EntryId -> Row] /\ \A i \in EntryId : entries'[i] = IF i = e THEN row ELSE entries[i]
  BY <1>1, <1>2
<1>4. JournalTypeOK'
  BY <1>1, <1>2, <1>3 DEF JournalShape, JournalTypeOK
<1>5. \A v \in User : req[v].phase = "edit" => req[v].entry \in EntryId
  BY JournalAssumption DEF JournalShape, JournalTypeOK, EntryId
<1>6. RevisionsCount'
  BY <1>1, <1>2, <1>3, <1>5 DEF JournalShape, RevisionsCount
<1>7. OneCall' /\ Calls'
  BY <1>1 DEF JournalShape, OneCall, Calls
<1> QED  BY <1>1, <1>4, <1>6, <1>7 DEF JournalShape

(* A request begins or is given up; a call gives its permit back.             *)
LEMMA RequestShapes ==
  ASSUME JournalShape, NEW u \in User, StartUpload(u) \/ NoAnswer(u)
  PROVE  JournalShape'
<1>1. PICK r : /\ req' = [req EXCEPT ![u] = r] /\ r.phase \in {"upload", "idle"}
               /\ \/ busy' = busy /\ req[u].phase = "idle"
                  \/ busy' = busy - 1 /\ req[u].phase = "call"
               /\ UNCHANGED <<count, entries, signals, changes, member, cache, hidden>>
  <2>1. CASE StartUpload(u)
    <3> DEFINE r == [Idle EXCEPT !.phase = "upload"]
    <3>1. r.phase = "upload"
      BY DEF Idle
    <3> QED  BY <2>1, <3>1 DEF StartUpload
  <2>2. CASE NoAnswer(u)
    <3>1. Idle.phase = "idle"
      BY DEF Idle
    <3> QED  BY <2>2, <3>1 DEF NoAnswer
  <2> QED  BY <2>1, <2>2
<1>2. /\ req' = [v \in User |-> req'[v]]
      /\ \A v \in User : req'[v] = IF v = u THEN r ELSE req[v]
  BY <1>1 DEF JournalShape
<1>3. req[u].phase = "call" => busy = 1
  BY DEF JournalShape, OneCall
<1>4. JournalTypeOK'
  BY <1>1, <1>2, <1>3 DEF JournalShape, JournalTypeOK
<1>5. RevisionsCount'
  BY <1>1, <1>2 DEF JournalShape, RevisionsCount
<1>6. OneCall'
  BY <1>1, <1>2 DEF JournalShape, OneCall
<1>7. Calls'
  BY <1>1, <1>2 DEF JournalShape, Calls
<1> QED  BY <1>2, <1>4, <1>5, <1>6, <1>7 DEF JournalShape

(* Reviews, restarts and members who leave.                                   *)
LEMMA OthersShape ==
  ASSUME JournalShape, Review \/ Restart \/ \E u \in User : Leave(u)
  PROVE  JournalShape'
<1>1. CASE Review
  <2>1. /\ changes \in Nat /\ signals \in Nat /\ MaxChanges \in Nat /\ changes < MaxChanges
        /\ signals <= changes /\ changes' = changes + 1 /\ signals' = signals + 1
        /\ UNCHANGED <<count, entries, member, cache, busy, req, hidden>>
    BY <1>1, JournalAssumption DEF Review, JournalShape, JournalTypeOK, RevisionsCount
  <2>2. JournalTypeOK'
    BY <2>1 DEF JournalShape, JournalTypeOK
  <2>3. \A e \in EntryId : entries[e].rev \in Nat
    BY JournalAssumption DEF JournalShape, JournalTypeOK, Row
  <2>4. \A v \in User : req[v].phase = "edit" => req[v].entry \in EntryId
    BY JournalAssumption DEF JournalShape, JournalTypeOK, EntryId
  <2>5. RevisionsCount'
    BY <2>1, <2>3, <2>4 DEF JournalShape, RevisionsCount
  <2>6. OneCall' /\ Calls'
    BY <2>1 DEF JournalShape, OneCall, Calls
  <2> QED  BY <2>1, <2>2, <2>5, <2>6 DEF JournalShape
<1>2. CASE Restart
  <2>1. /\ \A u \in User : req'[u].phase = "idle"
        /\ req' = [u \in User |-> req'[u]]
        /\ busy' = 0 /\ UNCHANGED <<count, entries, signals, changes, member, cache, hidden>>
    BY <1>2 DEF Restart, Idle
  <2>2. JournalTypeOK'
    BY <2>1 DEF JournalShape, JournalTypeOK
  <2>3. RevisionsCount' /\ OneCall' /\ Calls'
    BY <2>1 DEF JournalShape, RevisionsCount, OneCall, Calls
  <2> QED  BY <2>1, <2>2, <2>3 DEF JournalShape
<1>3. CASE \E u \in User : Leave(u)
  <2>1. member' \subseteq member /\ UNCHANGED <<count, entries, signals, changes, cache, busy, req, hidden>>
    BY <1>3 DEF Leave
  <2>2. JournalTypeOK'
    BY <2>1 DEF JournalShape, JournalTypeOK
  <2>3. RevisionsCount' /\ OneCall' /\ Calls'
    BY <2>1 DEF JournalShape, RevisionsCount, OneCall, Calls
  <2> QED  BY <2>1, <2>2, <2>3 DEF JournalShape
<1> QED  BY <1>1, <1>2, <1>3

(* Every step of the Journal.                                                 *)
LEMMA ShapeStep == JournalShape /\ [JournalNext]_journalVars => JournalShape'
<1> SUFFICES ASSUME JournalShape, [JournalNext]_journalVars PROVE JournalShape'
  OBVIOUS
<1>1. CASE \E u \in User : Entry(u)
  <2>1. PICK u \in User : Entry(u)
    BY <1>1
  <2> QED  BY <2>1, PostShapes, StartEditShapes, DeleteShapes, FinishEditShapes, RequestShapes, UploadShapes
           DEF Entry
<1>2. CASE \E u \in User : Assistant(u)
  <2>1. PICK u \in User : Assistant(u)
    BY <1>2
  <2> QED  BY <2>1, CachedShapes, AskShapes, AnswerShapes, RequestShapes DEF Assistant
<1>3. CASE (\E u \in User : Leave(u)) \/ Review \/ Restart
  BY <1>3, OthersShape
<1>4. CASE UNCHANGED journalVars
  BY <1>4 DEF journalVars, JournalShape, JournalTypeOK, RevisionsCount, OneCall, Calls
<1> QED  BY <1>1, <1>2, <1>3, <1>4 DEF JournalNext

(* JournalTypeOK for any users, keys, entries and changes: the semaphore      *)
(* never counts more than one call or fewer than none, a reply and a cached   *)
(* summary name entries that exist.                                           *)
THEOREM JournalTypes == JournalSafeSpec => []JournalTypeOK
<1>1. JournalShape => JournalTypeOK
  BY DEF JournalShape
<1> QED  BY <1>1, ShapeStarts, ShapeStep, PTL DEF JournalSafeSpec


------------------------------------------------------------------------------
(* The validation runner *)

(* Stages, what is billed and what is kept. *)
Stages == {"propose", "synthesize"}
StageRecord == [name : {"none"} \cup Stages, remaining : Nat, tally : Nat,
                attempt : Nat, round : 0 .. 1, before : Nat]
Tally == [observed : Nat, unknown : BOOLEAN, calls : Nat]
RunTypes ==
  /\ args \in CommandLine /\ spent \in Nat /\ exit \in 0 .. 2
  /\ budget \in Tally
  /\ stageNow \in StageRecord
  /\ pc \in {"main", "account", "call", "unhandled", "synthesis", "assemble", "report", "done"}
  /\ pc \in {"call", "unhandled"} => stageNow.name \in Stages
  /\ pc # "done" => report = "none" /\ exit = 0

(* The gates were passed by whoever spends or writes. *)
Consent ==
  /\ pc = "main" => spent = 0 /\ written = {}
  /\ pc \notin {"main", "done"} => args.mode = "model" /\ ~CommandRefused
  /\ OnlyWithConsent

(* The tally counts the attempts of the stage that have failed: each was      *)
(* reserved in full before it was made; it is sent twice at most, and each    *)
(* sending costs at most the error more.                                      *)
Billable == 0 .. 2 * (Est[stageNow.name] + Overrun)
Reserved ==
  stageNow.name # "none" =>
    \E k \in Nat :
      /\ stageNow.tally = k * Est[stageNow.name]
      /\ spent <= stageNow.before + 2 * stageNow.remaining + 2 * (Overrun * (k + 1))
      /\ pc = "call" => /\ spent <= stageNow.before + 2 * stageNow.tally + 2 * (Overrun * k)
                        /\ Real => stageNow.tally + Est[stageNow.name] <= stageNow.remaining

(* A graph in which every strong claim is grounded; the runs' good rows.      *)
Sound(g) ==
  \A c \in Items(g.claims) :
    c.provenance = "verified" \/ c.confidence = "high" => Grounded(g, c)
Found == {"invented_source_document_ids", "dangling_claim_evidence", "referential_integrity",
          "verified_high_claims_without_accepted_excerpts", "accepted_paraphrases",
          "invented_evidence_excerpt_ids", "schema_parse"}
ReportRow == [class : {"pass", "fail", "budget_exceeded", "skipped_budget_exceeded"},
        violations : SUBSET Found]
Clean == \A i \in DOMAIN results : results[i].class = "pass" /\ results[i].violations = {}

(* One graph per account that was run; a good row has a sound graph.          *)
RowsSound ==
  /\ results \in Seq(ReportRow) /\ violations \subseteq Found
  /\ \E S : graphs \in Seq(S)
  /\ Len(graphs) <= Len(results)
  /\ \A i \in DOMAIN results : results[i].class = "fail" => results[i].violations # {}
  /\ \A i \in DOMAIN graphs :
       results[i].class = "pass" /\ results[i].violations = {} => Sound(graphs[i])
(* While all is well every account had its two answers.                       *)
Answered ==
  /\ pc = "main" => results = << >> /\ graphs = << >>
  /\ pc = "report" => Len(results) = Accounts
  /\ pc \in {"account", "call", "unhandled", "synthesis", "assemble"} =>
       Len(results) < Accounts /\ Len(graphs) = Len(results)
  /\ pc = "assemble" /\ violations = {} => Exceeded
  /\ Clean =>
       /\ pc \in {"main", "account", "report"} => budget.calls = 2 * Len(results)
       /\ pc = "call" /\ stageNow.name = "propose" => budget.calls = 2 * Len(results)
       /\ pc = "synthesis" \/ (pc = "call" /\ stageNow.name = "synthesize") =>
            violations # {} \/ budget.calls = 2 * Len(results) + 1

RunSafe == RunTypes /\ Consent /\ Reserved /\ RowsSound /\ Answered /\ PassIsEarned

------------------------------------------------------------------------------
(* What the validator's silence means. *)
LEMMA OkIsFound == \A e : Verdict(e) = "ok" => e.text \in {"exact", "normalized"}
BY DEF Verdict

LEMMA Silence ==
  ASSUME NEW g, GraphViolations(g) = {}
  PROVE  Sound(g)
<1>1. \A e \in Errors(g) : Invariant(e[1]) = "none"
  BY DEF GraphViolations
<1>2. ASSUME NEW x PROVE <<"excerpt_verification_failed", x>> \notin Errors(g)
                         /\ <<"invented_source_reference", x>> \notin Errors(g)
                         /\ <<"invented_excerpt_reference", x>> \notin Errors(g)
                         /\ <<"verified_without_evidence", x>> \notin Errors(g)
                         /\ <<"high_confidence_without_strong_evidence", x>> \notin Errors(g)
  <2>1. /\ Invariant("excerpt_verification_failed") # "none"
        /\ Invariant("invented_source_reference") # "none"
        /\ Invariant("invented_excerpt_reference") # "none"
        /\ Invariant("verified_without_evidence") # "none"
        /\ Invariant("high_confidence_without_strong_evidence") # "none"
    BY DEF Invariant
  <2> QED  BY <1>1, <2>1
<1>3. \A e \in Items(g.excerpts) : e.text \in {"exact", "normalized"}
  <2> SUFFICES ASSUME NEW e \in Items(g.excerpts) PROVE Verdict(e) = "ok"
    BY OkIsFound
  <2>1. e.source \in Ids(g.sources)
    BY <1>2 DEF Errors, ExcerptErrors
  <2> QED  BY <1>2, <2>1 DEF Errors, ExcerptErrors
<1>4. \A l \in Items(g.evidence) : l.excerpt \in Ids(g.excerpts)
  BY <1>2 DEF Errors, LinkErrors
<1>5. ASSUME NEW c, NEW l \in Supports(g, c) PROVE Grounded(g, c)
  <2>1. l \in Items(g.evidence) /\ l.claim = c.id /\ l.role \in {"supports", "partially_supports"}
    BY <1>5 DEF Supports
  <2>2. PICK e \in Items(g.excerpts) : e.id = l.excerpt
    BY <1>4, <2>1 DEF Ids
  <2> QED  BY <1>3, <2>1, <2>2 DEF Grounded
<1>6. ASSUME NEW c \in Items(g.claims), c.provenance = "verified" PROVE Grounded(g, c)
  <2>1. "verified_without_evidence" \notin VerifiedErrors(g, c)
    <3>1. SUFFICES ASSUME "verified_without_evidence" \in VerifiedErrors(g, c) PROVE FALSE
      OBVIOUS
    <3>2. <<"verified_without_evidence", c.id>> \in ClaimErrors(g)
      BY <1>6, <3>1 DEF ClaimErrors
    <3> QED  BY <1>2, <3>2 DEF Errors
  <2>2. ValidSupport(g, c)
    BY <2>1 DEF VerifiedErrors
  <2> QED  BY <1>5, <2>2 DEF ValidSupport
<1>7. ASSUME NEW c \in Items(g.claims), c.confidence = "high" PROVE Grounded(g, c)
  <2>1. PICK l \in Supports(g, c) : l.strength # "weak"
    <3>1. SUFFICES ASSUME \A l \in Supports(g, c) : l.strength = "weak" PROVE FALSE
      OBVIOUS
    <3>2. <<"high_confidence_without_strong_evidence", c.id>> \in ClaimErrors(g)
      BY <1>7, <3>1 DEF ClaimErrors
    <3> QED  BY <1>2, <3>2 DEF Errors
  <2> QED  BY <1>5, <2>1
<1> QED  BY <1>6, <1>7 DEF Sound

------------------------------------------------------------------------------
(* The end of an account: its row and its graph are added, and the rows of    *)
(* those that are skipped.                                                    *)
LEMMA EndKeeps ==
  ASSUME RowsSound, Len(results) < Accounts, Len(graphs) = Len(results),
         NEW class \in {"pass", "fail", "budget_exceeded", "skipped_budget_exceeded"},
         NEW vs \in SUBSET Found, NEW ended, NEW stopped \in BOOLEAN,
         class = "fail" => vs # {}, class = "pass" /\ vs = {} => Sound(ended),
         EndAccount(class, vs, ended, stopped)
  PROVE  /\ RowsSound'
         /\ pc' \in {"account", "report"} /\ stageNow' = NoStage
         /\ pc' = "report" => Len(results') = Accounts
         /\ pc' = "account" => Len(results') < Accounts /\ Len(graphs') = Len(results')
         /\ Clean' => /\ Clean /\ class = "pass" /\ vs = {}
                      /\ stopped \/ Len(results') = Len(results) + 1
<1> DEFINE row == [class |-> class, violations |-> vs]
           rest == Accounts - Len(results) - 1
           skipped == IF stopped THEN [i \in 1 .. rest |-> SkippedRow] ELSE << >>
           n == Len(results)
<1>1. /\ results' = Append(results, row) \o skipped /\ graphs' = Append(graphs, ended)
      /\ pc' = IF stopped \/ rest = 0 THEN "report" ELSE "account"
      /\ stageNow' = NoStage /\ violations' = {}
  BY DEF EndAccount, AccountRow
<1>2. /\ row \in ReportRow /\ SkippedRow \in ReportRow /\ SkippedRow.class # "pass" /\ SkippedRow.class # "fail"
  BY DEF ReportRow, SkippedRow, AccountRow
<1>3. n \in Nat /\ rest \in Nat /\ Accounts \in Nat /\ rest = Accounts - n - 1
  BY ValidationAssumption, LenProperties DEF RowsSound
<1>4. /\ skipped \in Seq(ReportRow) /\ Len(skipped) = IF stopped THEN rest ELSE 0
      /\ \A i \in 1 .. Len(skipped) : skipped[i] = SkippedRow
  <2>1. CASE stopped
    <3>1. skipped \in [1 .. rest -> ReportRow] /\ \A i \in 1 .. rest : skipped[i] = SkippedRow
      BY <1>2, <2>1
    <3> HIDE DEF skipped, rest
    <3>2. skipped \in Seq(ReportRow)
      BY <1>3, <3>1, SeqDef
    <3>3. Len(skipped) = rest
      <4>1. Len(skipped) \in Nat /\ DOMAIN skipped = 1 .. Len(skipped)
        BY <3>2, LenProperties
      <4>2. DOMAIN skipped = 1 .. rest
        BY <3>1
      <4> QED  BY <1>3, <4>1, <4>2
    <3> QED  BY <2>1, <3>1, <3>2, <3>3
  <2>2. CASE ~stopped
    BY <2>2
  <2> QED  BY <2>1, <2>2
<1>5. /\ Append(results, row) \in Seq(ReportRow) /\ Len(Append(results, row)) = n + 1
      /\ \A i \in 1 .. n : Append(results, row)[i] = results[i]
      /\ Append(results, row)[n + 1] = row
  BY <1>2, AppendProperties DEF RowsSound
<1> HIDE DEF skipped, row, rest
<1>6. /\ results' \in Seq(ReportRow) /\ Len(results') = n + 1 + Len(skipped)
      /\ \A i \in 1 .. n : results'[i] = results[i]
      /\ results'[n + 1] = row
      /\ \A i \in n + 2 .. Len(results') : results'[i] = SkippedRow
  <2>1. /\ results' \in Seq(ReportRow) /\ Len(results') = n + 1 + Len(skipped)
        /\ \A i \in 1 .. n + 1 + Len(skipped) :
             results'[i] = IF i <= n + 1 THEN Append(results, row)[i] ELSE skipped[i - (n + 1)]
    <3> DEFINE front == Append(results, row)
    <3>1. front \in Seq(ReportRow) /\ Len(front) = n + 1 /\ results' = front \o skipped
      BY <1>1, <1>5
    <3> HIDE DEF front
    <3>2. /\ front \o skipped \in Seq(ReportRow) /\ Len(front \o skipped) = Len(front) + Len(skipped)
          /\ \A i \in 1 .. Len(front) + Len(skipped) :
               (front \o skipped)[i] = IF i <= Len(front) THEN front[i] ELSE skipped[i - Len(front)]
      BY <1>4, <3>1, ConcatProperties
    <3>3. /\ results' \in Seq(ReportRow) /\ Len(results') = n + 1 + Len(skipped)
          /\ \A i \in 1 .. n + 1 + Len(skipped) :
               results'[i] = IF i <= n + 1 THEN front[i] ELSE skipped[i - (n + 1)]
      BY <3>1, <3>2
    <3> QED  BY <3>3 DEF front
  <2>2. Len(skipped) \in Nat
    BY <1>3, <1>4
  <2>3. \A i \in 1 .. n : results'[i] = results[i]
    BY <1>3, <1>5, <2>1, <2>2
  <2>4. results'[n + 1] = row
    <3>1. n + 1 \in 1 .. n + 1 + Len(skipped) /\ n + 1 <= n + 1
      BY <1>3, <2>2
    <3> QED  BY <1>5, <2>1, <3>1
  <2>5. ASSUME NEW i \in n + 2 .. Len(results') PROVE results'[i] = SkippedRow
    <3>1. i \in 1 .. n + 1 + Len(skipped) /\ ~(i <= n + 1) /\ i - (n + 1) \in 1 .. Len(skipped)
      BY <1>3, <2>1, <2>2, <2>5
    <3> QED  BY <1>4, <2>1, <3>1
  <2> QED  BY <2>1, <2>3, <2>4, <2>5
<1>7. /\ DOMAIN results = 1 .. n /\ DOMAIN results' = 1 .. Len(results') /\ Len(results') \in Nat
      /\ n + 1 \in 1 .. Len(results') /\ Len(skipped) \in Nat
  <2>1. Len(skipped) \in Nat
    BY <1>3, <1>4
  <2>2. DOMAIN results = 1 .. n /\ DOMAIN results' = 1 .. Len(results')
    BY <1>6, LenProperties DEF RowsSound
  <2> QED  BY <1>3, <1>6, <2>1, <2>2
<1>8. /\ \E S : graphs' \in Seq(S)
      /\ Len(graphs') = Len(graphs) + 1 /\ DOMAIN graphs = 1 .. Len(graphs)
      /\ DOMAIN graphs' = 1 .. Len(graphs) + 1 /\ Len(graphs) \in Nat
      /\ \A i \in 1 .. Len(graphs) : graphs'[i] = graphs[i]
      /\ graphs'[Len(graphs) + 1] = ended
  <2>1. PICK S : graphs \in Seq(S)
    BY DEF RowsSound
  <2> DEFINE T == S \cup {ended}
  <2>2. graphs \in Seq(T) /\ ended \in T
    BY <2>1, SeqMonotonic
  <2> HIDE DEF T
  <2> QED  BY <1>1, <2>1, <2>2, AppendProperties, LenProperties
<1>9. \A i \in DOMAIN results' : results'[i].class = "fail" => results'[i].violations # {}
  <2>1. ASSUME NEW i \in DOMAIN results' PROVE i \in 1 .. n \/ i = n + 1 \/ i \in n + 2 .. Len(results')
    BY <1>3, <1>7
  <2>2. row.class = class /\ row.violations = vs
    BY DEF row
  <2> QED  BY <1>2, <1>6, <1>7, <2>1, <2>2 DEF RowsSound
<1>10. RowsSound'
  <2> USE DEF RowsSound
  <2>1. Len(graphs') <= Len(results')
    BY <1>3, <1>6, <1>7, <1>8
  <2>2. ASSUME NEW i \in DOMAIN graphs', results'[i].class = "pass", results'[i].violations = {}
        PROVE  Sound(graphs'[i])
    <3>1. CASE i \in 1 .. Len(graphs)
      <4>1. i \in 1 .. n
        BY <1>3, <1>8, <3>1
      <4> QED  BY <1>6, <1>8, <2>2, <3>1, <4>1
    <3>2. CASE i = Len(graphs) + 1
      <4>1. row.class = class /\ row.violations = vs
        BY DEF row
      <4> QED  BY <1>6, <1>8, <2>2, <3>2, <4>1
    <3> QED  BY <1>8, <3>1, <3>2
  <2> QED  BY <1>1, <1>6, <1>8, <1>9, <2>1, <2>2
<1>11. ASSUME Clean'
       PROVE  Clean /\ class = "pass" /\ vs = {} /\ (stopped \/ Len(results') = Len(results) + 1)
  <2>1. row.class = class /\ row.violations = vs
    BY DEF row
  <2>2. \A i \in DOMAIN results' : results'[i].class = "pass" /\ results'[i].violations = {}
    BY <1>11 DEF Clean
  <2>3. Clean
    <3>1. \A i \in 1 .. n : i \in 1 .. Len(results')
      BY <1>3, <1>7
    <3> QED  BY <1>6, <1>7, <2>2, <3>1 DEF Clean
  <2> QED  BY <1>4, <1>6, <1>7, <2>1, <2>2, <2>3
<1>12. /\ pc' = "report" => Len(results') = Accounts
       /\ pc' = "account" => Len(results') < Accounts /\ Len(graphs') = Len(results')
       /\ pc' \in {"account", "report"}
  <2>1. CASE stopped
    BY <1>1, <1>3, <1>4, <1>6, <2>1
  <2>2. CASE ~stopped
    <3>1. Len(results') = n + 1 /\ Len(graphs') = Len(results')
      BY <1>3, <1>4, <1>6, <1>8, <2>2
    <3>2. CASE rest = 0
      BY <1>1, <1>3, <2>2, <3>1, <3>2
    <3>3. CASE rest # 0
      BY <1>1, <1>3, <2>2, <3>1, <3>3
    <3> QED  BY <3>2, <3>3
  <2> QED  BY <2>1, <2>2
<1> QED  BY <1>1, <1>10, <1>11, <1>12

------------------------------------------------------------------------------
(* What the calls cost. *)
LEMMA Prices ==
  /\ Overrun \in Nat /\ FitCap \in Nat /\ HighCap \in Nat
  /\ \A s \in Stages : Est[s] \in Nat \ {0}
  /\ \A s \in Stages : \A c \in Bill[s] \cup LostBill : c \in Nat /\ c <= Est[s] + Overrun
<1>1. /\ Overrun \in Nat /\ FitCap \in Nat /\ HighCap \in Nat
      /\ \A s \in Stages : Est[s] \in Nat \ {0} /\ s \in DOMAIN Est
  BY ValidationAssumption DEF Stages
<1>2. \A s \in Stages : Bill[s] \cup LostBill \subseteq 0 .. (Est[s] + Overrun)
  BY <1>1, ValidationAssumption
<1> QED  BY <1>1, <1>2

LEMMA CapIsNat == Cap \in Nat
BY Prices DEF Cap

LEMMA RemainingIsNat == RunTypes => Remaining \in Nat
BY CapIsNat DEF Remaining, RunTypes, Tally

(* An attempt is billed for its last sending, and perhaps for one before it. *)
LEMMA Sendings ==
  ASSUME stageNow.name \in Stages, Real
  PROVE  /\ \A a \in Resent : a \in Billable
         /\ \A a \in Resent, c \in Bill[stageNow.name] \cup LostBill : c + a \in Billable
<1>1. /\ Est[stageNow.name] \in Nat /\ Overrun \in Nat
      /\ \A c \in Bill[stageNow.name] \cup LostBill : c \in Nat /\ c <= Est[stageNow.name] + Overrun
  BY Prices
<1>2. \A a \in Resent : a \in Nat /\ a <= Est[stageNow.name] + Overrun
  BY <1>1 DEF Resent
<1> QED  BY <1>1, <1>2 DEF Billable

(* One more attempt was billed. *)
LEMMA Billed ==
  ASSUME RunTypes, Reserved, pc = "call", Real, NEW cost \in Billable,
         spent' = spent + cost
  PROVE  /\ spent' \in Nat
         /\ \E k \in Nat :
              /\ stageNow.tally = k * Est[stageNow.name]
              /\ spent' <= stageNow.before + 2 * stageNow.remaining + 2 * (Overrun * (k + 1))
              /\ spent' <= stageNow.before + 2 * (stageNow.tally + Est[stageNow.name]) + 2 * (Overrun * (k + 1))
<1>1. PICK k \in Nat :
        /\ stageNow.tally = k * Est[stageNow.name]
        /\ spent <= stageNow.before + 2 * stageNow.tally + 2 * (Overrun * k)
        /\ stageNow.tally + Est[stageNow.name] <= stageNow.remaining
  BY DEF Reserved, RunTypes, Stages
<1>2. /\ stageNow.name \in Stages /\ stageNow.tally \in Nat /\ stageNow.before \in Nat
      /\ stageNow.remaining \in Nat /\ spent \in Nat
  BY DEF RunTypes, StageRecord
<1>3. Est[stageNow.name] \in Nat /\ cost \in Nat /\ Overrun \in Nat
      /\ cost <= 2 * (Est[stageNow.name] + Overrun)
  BY <1>2, Prices DEF Billable
<1>4. Overrun * (k + 1) = Overrun * k + Overrun /\ Overrun * k \in Nat
  BY <1>3
<1> QED  BY <1>1, <1>2, <1>3, <1>4

(* A failed attempt: the stage is over, or the next attempt is reserved. *)
LEMMA StageEnds ==
  ASSUME RunTypes, Reserved, pc = "call", Real, NEW cost \in Billable,
         spent' = spent + cost, stageNow' = stageNow, pc' # "call"
  PROVE  Reserved'
BY Billed DEF Reserved

(* One attempt more. *)
LEMMA OneMore ==
  ASSUME NEW k \in Nat, NEW e \in Nat
  PROVE  (k + 1) * e = k * e + e /\ e * (k + 1) = e * k + e /\ k * e \in Nat /\ e * k \in Nat
OBVIOUS

LEMMA StageGoesOn ==
  ASSUME RunTypes, Reserved, pc = "call", Real, NEW cost \in Billable,
         spent' = spent + cost, pc' = "call", args' = args,
         stageNow'.name = stageNow.name, stageNow'.before = stageNow.before,
         stageNow'.remaining = stageNow.remaining,
         stageNow'.tally = stageNow.tally + Est[stageNow.name], CanAfford(stageNow'.tally)
  PROVE  Reserved'
<1>1. PICK k \in Nat :
        /\ stageNow.tally = k * Est[stageNow.name]
        /\ spent' <= stageNow.before + 2 * stageNow.remaining + 2 * (Overrun * (k + 1))
        /\ spent' <= stageNow.before + 2 * (stageNow.tally + Est[stageNow.name]) + 2 * (Overrun * (k + 1))
  BY Billed
<1>2. /\ stageNow.name \in Stages /\ stageNow.tally \in Nat /\ stageNow.before \in Nat
      /\ stageNow.remaining \in Nat /\ spent' \in Nat /\ Est[stageNow.name] \in Nat /\ Overrun \in Nat
  BY Billed, Prices DEF RunTypes, StageRecord
<1>3. /\ (k + 1) * Est[stageNow.name] = stageNow.tally + Est[stageNow.name]
      /\ Overrun * (k + 2) = Overrun * (k + 1) + Overrun /\ Overrun * (k + 1) \in Nat
  <2> DEFINE e == Est[stageNow.name]
  <2>1. (k + 1) * e = k * e + e
    <3>1. e \in Nat
      BY <1>2 DEF e
    <3> QED  BY <3>1, OneMore
  <2>2. k + 1 \in Nat /\ (k + 1) + 1 = k + 2
    OBVIOUS
  <2>3. Overrun * ((k + 1) + 1) = Overrun * (k + 1) + Overrun /\ Overrun * (k + 1) \in Nat
    BY <1>2, <2>2, OneMore
  <2>4. Overrun * (k + 2) = Overrun * (k + 1) + Overrun
    BY <2>2, <2>3
  <2> QED  BY <1>1, <2>1, <2>3, <2>4
<1>4. k + 1 \in Nat /\ (k + 1) + 1 = k + 2
  OBVIOUS
<1>5. /\ stageNow'.tally = (k + 1) * Est[stageNow'.name]
      /\ spent' <= stageNow'.before + 2 * stageNow'.remaining + 2 * (Overrun * ((k + 1) + 1))
      /\ spent' <= stageNow'.before + 2 * stageNow'.tally + 2 * (Overrun * (k + 1))
      /\ stageNow'.tally + Est[stageNow'.name] <= stageNow'.remaining
  BY <1>1, <1>2, <1>3, <1>4 DEF CanAfford
<1> QED  BY <1>4, <1>5 DEF Reserved

------------------------------------------------------------------------------
(* Consent *)
LEMMA RealConsents ==
  ASSUME args \in CommandLine, args.mode = "model", Real, ~CommandRefused
  PROVE  /\ args.missing = {} /\ args.cost \notin {"default", "high", "invalid"}
         /\ args.corpus = "briefs" /\ args.environment = "ready" /\ args.out \in {"ignored", "outside"}
<1>1. ~RealRefused
  BY DEF CommandRefused
<1>2. /\ args.cost \notin {"default", "zero", "high", "invalid"} /\ args.missing = {}
      /\ args.environment = "ready" /\ args.corpus \notin {"none", "inside", "insideAbsent", "absent", "empty"}
      /\ args.out \notin {"inside", "default"}
  BY <1>1 DEF RealRefused, CostRefused, CorpusRefused, OutRefused, NothingToRead
<1>3. /\ args.corpus \in {"none", "absent", "inside", "insideAbsent", "empty", "briefs"}
      /\ args.out \in {"default", "inside", "ignored", "outside"}
  BY DEF CommandLine
<1> QED  BY <1>2, <1>3

LEMMA ConsentKeeps ==
  ASSUME RunTypes, Consent, pc \notin {"main", "done"}, pc' # "main", args' = args,
         spent' = spent \/ Real, exit' # 1
  PROVE  Consent'
<1>1. args.mode = "model" /\ ~CommandRefused /\ args \in CommandLine
  BY DEF Consent, RunTypes
<1>2. CommandRefused' <=> CommandRefused
  BY DEF CommandRefused, RealRefused, CostRefused, CorpusRefused, OutRefused, NothingToRead, FixtureRefused,
     Real
<1>3. OnlyWithConsent'
  <2>1. CASE Real
    BY <1>1, <2>1, RealConsents DEF OnlyWithConsent, Private
  <2>2. CASE ~Real
    BY <1>1, <2>2 DEF OnlyWithConsent, Private, Consent, Real
  <2> QED  BY <2>1, <2>2
<1> QED  BY <1>1, <1>2, <1>3 DEF Consent

------------------------------------------------------------------------------
(* Steps *)
LEMMA Quiet == ASSUME report' # "pass" PROVE PassIsEarned'
BY DEF PassIsEarned

LEMMA EnterKeeps ==
  ASSUME RunTypes, NEW name \in Stages, Enter(name), spent' = spent, args' = args
  PROVE  /\ Reserved'
         /\ stageNow' \in StageRecord
         /\ pc' \in {"call", "unhandled"} /\ stageNow'.name = name
<1>1. Remaining \in Nat /\ spent \in Nat /\ Est[name] \in Nat /\ Overrun \in Nat
  BY RemainingIsNat, Prices DEF RunTypes
<1>2. stageNow' = [name |-> name, remaining |-> Remaining, tally |-> 0, attempt |-> 0, round |-> 0,
                   before |-> spent]
  BY DEF Enter, NoStage
<1>3. /\ stageNow'.name = name /\ stageNow'.remaining = Remaining /\ stageNow'.tally = 0
      /\ stageNow'.before = spent
  BY <1>2
<1>4. /\ stageNow'.tally = 0 * Est[stageNow'.name]
      /\ spent' <= stageNow'.before + 2 * stageNow'.remaining + 2 * (Overrun * (0 + 1))
      /\ spent' <= stageNow'.before + 2 * stageNow'.tally + 2 * (Overrun * 0)
  BY <1>1, <1>3
<1>5. pc' = "call" => (Real' => stageNow'.tally + Est[stageNow'.name] <= stageNow'.remaining)
  <2>1. Real' = Real
    BY DEF Real
  <2> QED  BY <1>1, <1>3, <2>1 DEF Enter
<1>6. Reserved'
  BY <1>4, <1>5 DEF Reserved
<1> QED  BY <1>1, <1>2, <1>3, <1>6 DEF Enter, StageRecord

(* A step within an account. *)
LEMMA WithinKeeps ==
  ASSUME RunSafe, pc \in {"account", "call", "unhandled", "synthesis", "assemble"},
         args' = args, exit' = exit, written' = written, report' = report, results' = results,
         graphs' = graphs, violations' \subseteq Found, spent' \in Nat, spent' = spent \/ Real,
         budget' \in Tally,
         stageNow' \in StageRecord,
         pc' \in {"call", "unhandled", "synthesis", "assemble"},
         pc' \in {"call", "unhandled"} => stageNow'.name \in Stages,
         Reserved',
         pc' = "assemble" /\ violations' = {} => Exceeded',
         Clean /\ pc' = "call" /\ stageNow'.name = "propose" => budget'.calls = 2 * Len(results),
         Clean /\ (pc' = "synthesis" \/ (pc' = "call" /\ stageNow'.name = "synthesize")) =>
            violations' # {} \/ budget'.calls = 2 * Len(results) + 1
  PROVE  RunSafe'
<1>1. RunTypes'
  BY DEF RunSafe, RunTypes
<1>2. Consent'
  <2>1. exit' # 1
    BY DEF RunSafe, RunTypes
  <2> QED  BY <2>1, ConsentKeeps DEF RunSafe
<1>3. RowsSound'
  BY DEF RunSafe, RowsSound
<1>4. Clean' <=> Clean
  BY DEF Clean
<1>5. Answered'
  BY <1>4 DEF RunSafe, Answered
<1>6. PassIsEarned'
  BY Quiet DEF RunSafe, RunTypes
<1> QED  BY <1>1, <1>2, <1>3, <1>5, <1>6 DEF RunSafe

(* The end of an account. *)
LEMMA EndingKeeps ==
  ASSUME RunSafe, pc \in {"account", "call", "unhandled", "synthesis", "assemble"},
         args' = args, exit' = exit, written' = written, report' = report,
         spent' \in Nat, spent' = spent \/ Real,
         budget' \in Tally,
         RowsSound', pc' \in {"account", "report"}, stageNow' = NoStage,
         pc' = "report" => Len(results') = Accounts,
         pc' = "account" => Len(results') < Accounts /\ Len(graphs') = Len(results'),
         Clean' => budget'.calls = 2 * Len(results')
  PROVE  RunSafe'
<1>1. RunTypes'
  <2>1. stageNow' \in StageRecord
    BY DEF NoStage, StageRecord
  <2> QED  BY <2>1 DEF RunSafe, RunTypes
<1>2. Consent'
  <2>1. exit' # 1
    BY DEF RunSafe, RunTypes
  <2> QED  BY <2>1, ConsentKeeps DEF RunSafe
<1>3. Reserved'
  BY DEF Reserved, NoStage
<1>4. Answered'
  BY DEF Answered
<1>5. PassIsEarned'
  BY Quiet DEF RunSafe, RunTypes
<1> QED  BY <1>1, <1>2, <1>3, <1>4, <1>5 DEF RunSafe

LEMMA FoundIsText == \A g : GraphViolations(g) \subseteq Found
<1>1. \A code : Invariant(code) \in Found \cup {"none"}
  BY DEF Invariant, Found
<1> QED  BY <1>1 DEF GraphViolations

LEMMA AssembledKeeps ==
  ASSUME RunSafe, pc \in {"call", "assemble"}, NEW claims, NEW b, NEW vs \in SUBSET Found,
         Assembled(claims, b, vs)
  PROVE  /\ RowsSound'
         /\ pc' \in {"account", "report"} /\ stageNow' = NoStage
         /\ pc' = "report" => Len(results') = Accounts
         /\ pc' = "account" => Len(results') < Accounts /\ Len(graphs') = Len(results')
         /\ Clean' => Clean /\ vs = {} /\ ~(b.observed > Cap) /\ Len(results') = Len(results) + 1
<1>1. PICK g : g = Graph(claims)
  OBVIOUS
<1>2. PICK over \in BOOLEAN : over <=> b.observed > Cap
  OBVIOUS
<1>3. PICK found : found = vs \cup GraphViolations(g)
  OBVIOUS
<1>4. PICK class : class = IF over THEN "budget_exceeded" ELSE IF found # {} THEN "fail" ELSE "pass"
  OBVIOUS
<1>5. EndAccount(class, found, g, over)
  <2>1. EndAccount(IF b.observed > Cap THEN "budget_exceeded"
                   ELSE IF (vs \cup GraphViolations(Graph(claims))) # {} THEN "fail" ELSE "pass",
                   vs \cup GraphViolations(Graph(claims)), Graph(claims), b.observed > Cap)
    BY DEF Assembled
  <2>2. /\ class = IF b.observed > Cap THEN "budget_exceeded"
                   ELSE IF (vs \cup GraphViolations(Graph(claims))) # {} THEN "fail" ELSE "pass"
    BY <1>1, <1>2, <1>3, <1>4
  <2> QED  BY <1>1, <1>2, <1>3, <2>1, <2>2 DEF EndAccount
<1>6. found \in SUBSET Found
  BY <1>3, FoundIsText
<1>7. class = "pass" => found = {} /\ vs = {} /\ ~over /\ Sound(g)
  <2>1. found = {} => vs = {} /\ GraphViolations(g) = {}
    BY <1>3
  <2>2. class = "pass" => found = {} /\ ~over
    BY <1>4
  <2> QED  BY <2>1, <2>2, Silence
<1>8. class = "fail" => found # {}
  BY <1>4
<1>9. class \in {"pass", "fail", "budget_exceeded", "skipped_budget_exceeded"}
  BY <1>4
<1>10. RowsSound /\ Len(results) < Accounts /\ Len(graphs) = Len(results)
  BY DEF RunSafe, Answered
<1>11. /\ RowsSound'
       /\ pc' \in {"account", "report"} /\ stageNow' = NoStage
       /\ pc' = "report" => Len(results') = Accounts
       /\ pc' = "account" => Len(results') < Accounts /\ Len(graphs') = Len(results')
       /\ Clean' => /\ Clean /\ class = "pass" /\ found = {}
                    /\ over \/ Len(results') = Len(results) + 1
  BY <1>5, <1>6, <1>7, <1>8, <1>9, <1>10, EndKeeps
<1> QED  BY <1>2, <1>7, <1>11

LEMMA RefuseKeeps == RunSafe /\ Refuse => RunSafe'
<1> SUFFICES ASSUME RunSafe, Refuse PROVE RunSafe'
  OBVIOUS
<1>1. RunTypes' /\ Consent'
  BY DEF Refuse, RunSafe, RunTypes, Consent, OnlyWithConsent
<1>2. Reserved'
  BY DEF Refuse, RunSafe, Reserved
<1>3. RowsSound'
  BY DEF Refuse, RunSafe, RowsSound
<1>4. Answered'
  BY DEF Refuse, Answered
<1>5. PassIsEarned'
  BY Quiet DEF Refuse, RunSafe, RunTypes
<1> QED  BY <1>1, <1>2, <1>3, <1>4, <1>5 DEF RunSafe

LEMMA FixtureKeeps == RunSafe /\ (RunFixture \/ RunLocal) => RunSafe'
<1> SUFFICES ASSUME RunSafe, RunFixture \/ RunLocal PROVE RunSafe'
  OBVIOUS
<1>0. /\ pc = "main" /\ ~CommandRefused /\ args.mode = "fixture" /\ pc' = "done"
      /\ UNCHANGED <<args, exit, spent, budget, stageNow, accepted, violations, results, graphs>>
  BY DEF RunFixture, RunLocal
<1>1. RunTypes'
  BY <1>0 DEF RunSafe, RunTypes
<1>2. Consent'
  <2>1. spent = 0 /\ exit = 0
    BY <1>0 DEF RunSafe, Consent, RunTypes
  <2>2. Private' <=> Private
    BY <1>0 DEF Private, Real
  <2>3. CASE ~Private
    BY <1>0, <2>1, <2>2, <2>3 DEF Consent, OnlyWithConsent
  <2>4. CASE Private
    <3>1. ~FixtureRefused /\ args.corpus # "none"
      BY <1>0, <2>4 DEF CommandRefused, Private
    <3>2. /\ args.corpus \notin {"none", "inside", "insideAbsent", "absent", "empty"}
          /\ args.out \notin {"inside", "default"}
      BY <3>1 DEF FixtureRefused, CorpusRefused, OutRefused, NothingToRead
    <3>3. /\ args.corpus \in {"none", "absent", "inside", "insideAbsent", "empty", "briefs"}
          /\ args.out \in {"default", "inside", "ignored", "outside"}
      BY DEF CommandLine, RunSafe, RunTypes
    <3>4. args.corpus = "briefs" /\ args.out \in {"ignored", "outside"}
      BY <3>2, <3>3
    <3> QED  BY <1>0, <2>1, <3>4 DEF Consent, OnlyWithConsent
  <2> QED  BY <2>3, <2>4
<1>3. Reserved'
  BY <1>0 DEF RunSafe, Reserved
<1>4. RowsSound'
  BY <1>0 DEF RunSafe, RowsSound
<1>5. Answered'
  BY <1>0 DEF Answered
<1>6. PassIsEarned'
  BY <1>0 DEF PassIsEarned
<1> QED  BY <1>1, <1>2, <1>3, <1>4, <1>5, <1>6 DEF RunSafe

LEMMA StartKeeps == RunSafe /\ StartModel => RunSafe'
<1> SUFFICES ASSUME RunSafe, StartModel PROVE RunSafe'
  OBVIOUS
<1>1. RunTypes'
  BY DEF StartModel, RunSafe, RunTypes
<1>2. Consent'
  <2>1. /\ spent = 0 /\ exit = 0 /\ args \in CommandLine /\ args.mode = "model" /\ ~CommandRefused
        /\ args' = args /\ spent' = spent /\ exit' = exit
    BY DEF StartModel, RunSafe, Consent, RunTypes
  <2>2. /\ (Private' <=> Private) /\ (CommandRefused' <=> CommandRefused)
    BY <2>1 DEF Private, Real, CommandRefused, RealRefused, CostRefused, CorpusRefused, OutRefused,
                NothingToRead, FixtureRefused
  <2>3. Private => args.corpus = "briefs" /\ args.out \in {"ignored", "outside"}
    BY <2>1, RealConsents DEF Private
  <2> QED  BY <2>1, <2>2, <2>3 DEF Consent, OnlyWithConsent, StartModel
<1>3. Reserved'
  BY DEF StartModel, RunSafe, Reserved
<1>4. RowsSound'
  BY DEF StartModel, RunSafe, RowsSound
<1>5. Answered'
  <2>1. results = << >> /\ graphs = << >> /\ Accounts \in 1 .. 3
    BY ValidationAssumption DEF StartModel, RunSafe, Answered
  <2>2. Len(results) < Accounts /\ Len(graphs) = Len(results)
    BY <2>1
  <2>3. Clean' <=> Clean
    BY DEF Clean, StartModel
  <2> QED  BY <2>2, <2>3 DEF Answered, StartModel, RunSafe
<1>6. PassIsEarned'
  BY Quiet DEF StartModel, RunSafe, RunTypes
<1> QED  BY <1>1, <1>2, <1>3, <1>4, <1>5, <1>6 DEF RunSafe

LEMMA BeginKeeps == RunSafe /\ BeginAccount => RunSafe'
<1> SUFFICES ASSUME RunSafe, BeginAccount PROVE RunSafe'
  OBVIOUS
<1>0. /\ pc = "account" /\ spent \in Nat /\ budget \in Tally
      /\ UNCHANGED <<args, exit, written, spent, budget, report>>
  BY DEF BeginAccount, RunSafe, RunTypes
<1>1. CASE Exceeded
  <2>1. EndAccount("skipped_budget_exceeded", {}, NoGraph, TRUE)
    BY <1>1 DEF BeginAccount
  <2>2. RowsSound /\ Len(results) < Accounts /\ Len(graphs) = Len(results)
    BY <1>0 DEF RunSafe, Answered
  <2>3. /\ RowsSound'
        /\ pc' \in {"account", "report"} /\ stageNow' = NoStage
        /\ pc' = "report" => Len(results') = Accounts
        /\ pc' = "account" => Len(results') < Accounts /\ Len(graphs') = Len(results')
        /\ ~Clean'
    BY <2>1, <2>2, EndKeeps
  <2> QED  BY <1>0, <2>3, EndingKeeps
<1>2. CASE ~Exceeded
  <2>1. Enter("propose") /\ UNCHANGED <<violations, results, graphs>>
    BY <1>2 DEF BeginAccount
  <2>2. /\ Reserved'
        /\ stageNow' \in StageRecord
        /\ pc' \in {"call", "unhandled"} /\ stageNow'.name = "propose"
    BY <1>0, <2>1, EnterKeeps DEF Stages, RunSafe
  <2>3. /\ Clean => budget'.calls = 2 * Len(results)
        /\ violations' \subseteq Found
    BY <1>0, <2>1 DEF RunSafe, Answered, RowsSound
  <2> QED  BY <1>0, <2>1, <2>2, <2>3, WithinKeeps DEF Stages
<1> QED  BY <1>1, <1>2

LEMMA SynthesisKeeps == RunSafe /\ BeginSynthesis => RunSafe'
<1> SUFFICES ASSUME RunSafe, BeginSynthesis PROVE RunSafe'
  OBVIOUS
<1>0. /\ pc = "synthesis" /\ spent \in Nat
      /\ budget \in Tally /\ violations \subseteq Found
      /\ UNCHANGED <<args, exit, written, spent, budget, accepted, violations, results, graphs, report>>
  BY DEF BeginSynthesis, RunSafe, RunTypes, RowsSound
<1>1. CASE Exceeded
  <2>1. pc' = "assemble" /\ stageNow' = NoStage
    BY <1>1 DEF BeginSynthesis
  <2>2. stageNow' \in StageRecord
    BY <2>1 DEF NoStage, StageRecord
  <2>3. Reserved'
    BY <2>1 DEF Reserved, NoStage
  <2>4. Exceeded'
    BY <1>0, <1>1 DEF Exceeded, Cap
  <2> QED  BY <1>0, <2>1, <2>2, <2>3, <2>4, WithinKeeps
<1>2. CASE ~Exceeded
  <2>1. Enter("synthesize")
    BY <1>2 DEF BeginSynthesis
  <2>2. /\ Reserved'
        /\ stageNow' \in StageRecord
        /\ pc' \in {"call", "unhandled"} /\ stageNow'.name = "synthesize"
    BY <1>0, <2>1, EnterKeeps DEF Stages, RunSafe
  <2>3. Clean => violations' # {} \/ budget'.calls = 2 * Len(results) + 1
    BY <1>0 DEF RunSafe, Answered
  <2> QED  BY <1>0, <2>2, <2>3, WithinKeeps DEF Stages
<1> QED  BY <1>1, <1>2

LEMMA FailedKeeps ==
  ASSUME RunSafe, pc \in {"call", "unhandled"}, StageFailed, Reserved', stageNow' = stageNow,
         UNCHANGED <<args, exit, written, budget, report, results, graphs>>,
         spent' \in Nat, spent' = spent \/ Real
  PROVE  RunSafe'
<1>1. /\ violations' \subseteq Found /\ violations' # {} /\ pc' \in {"synthesis", "assemble"}
  BY DEF StageFailed, RunSafe, RowsSound, Found
<1>2. /\ budget' \in Tally
      /\ stageNow' \in StageRecord
  BY DEF RunSafe, RunTypes
<1> QED  BY <1>1, <1>2, WithinKeeps

LEMMA UnhandledKeeps ==
  RunSafe /\ (Unhandled \/ \E resent \in Resent : AttemptRejected(resent)) => RunSafe'
<1> SUFFICES ASSUME RunSafe, Unhandled \/ \E resent \in Resent : AttemptRejected(resent)
             PROVE  RunSafe'
  OBVIOUS
<1>0. spent \in Nat /\ Reserved
  BY DEF RunSafe, RunTypes
<1>1. CASE Unhandled
  <2>1. Reserved'
    BY <1>0, <1>1 DEF Unhandled, StageFailed, Reserved
  <2> QED  BY <1>0, <1>1, <2>1, FailedKeeps DEF Unhandled
<1>2. ASSUME NEW resent \in Resent, AttemptRejected(resent) PROVE RunSafe'
  <2>1. /\ resent \in Billable /\ pc = "call" /\ Real /\ spent' = spent + resent
        /\ stageNow' = stageNow /\ pc' = "unhandled"
    BY <1>2, Sendings DEF AttemptRejected, RunSafe, RunTypes
  <2>2. Reserved'
    BY <1>0, <2>1, StageEnds DEF RunSafe
  <2>3. /\ budget \in Tally /\ violations \subseteq Found /\ spent' \in Nat
        /\ stageNow \in StageRecord
        /\ stageNow.name \in Stages
    BY <1>0, <2>1, Billed DEF RunSafe, RunTypes, RowsSound
  <2> QED  BY <1>0, <1>2, <2>1, <2>2, <2>3, WithinKeeps DEF AttemptRejected
<1> QED  BY <1>1, <1>2

(* An attempt that is billed and gives nothing.                               *)
LEMMA LostKeeps ==
  ASSUME RunSafe, pc = "call", Real, NEW cost \in Billable,
         spent' = spent + cost, UNCHANGED <<args, exit, written, budget, report>>,
         \/ StageFailed /\ UNCHANGED <<stageNow, accepted, results, graphs>>
         \/ BudgetHalt
         \/ /\ CanAfford(stageNow.tally + Est[stageNow.name])
            /\ stageNow'.name = stageNow.name /\ stageNow'.before = stageNow.before
            /\ stageNow'.remaining = stageNow.remaining
            /\ stageNow'.tally = stageNow.tally + Est[stageNow.name]
            /\ stageNow' \in StageRecord
            /\ UNCHANGED <<pc, accepted, violations, results, graphs>>
  PROVE  RunSafe'
<1>0. /\ spent' \in Nat /\ RunTypes /\ Reserved /\ stageNow.name \in Stages
      /\ budget \in Tally /\ violations \subseteq Found
  BY Billed DEF RunSafe, RunTypes, RowsSound
<1>1. CASE StageFailed /\ UNCHANGED <<stageNow, accepted, results, graphs>>
  <2>1. Reserved'
    BY <1>0, <1>1, StageEnds DEF StageFailed
  <2> QED  BY <1>0, <1>1, <2>1, FailedKeeps
<1>2. CASE BudgetHalt
  <2>1. RowsSound /\ Len(results) < Accounts /\ Len(graphs) = Len(results)
    BY DEF RunSafe, Answered
  <2>2. EndAccount("budget_exceeded", violations, NoGraph, TRUE)
    BY <1>2 DEF BudgetHalt
  <2>3. /\ RowsSound'
        /\ pc' \in {"account", "report"} /\ stageNow' = NoStage
        /\ pc' = "report" => Len(results') = Accounts
        /\ pc' = "account" => Len(results') < Accounts /\ Len(graphs') = Len(results')
        /\ ~Clean'
    BY <1>0, <2>1, <2>2, EndKeeps
  <2> QED  BY <1>0, <2>3, EndingKeeps
<1>3. CASE /\ CanAfford(stageNow.tally + Est[stageNow.name])
           /\ stageNow'.name = stageNow.name /\ stageNow'.before = stageNow.before
           /\ stageNow'.remaining = stageNow.remaining
           /\ stageNow'.tally = stageNow.tally + Est[stageNow.name]
           /\ stageNow' \in StageRecord
           /\ UNCHANGED <<pc, accepted, violations, results, graphs>>
  <2>1. CanAfford(stageNow'.tally)
    <3>1. stageNow.tally + Est[stageNow.name] + Est[stageNow.name] <= stageNow.remaining
      BY <1>3 DEF CanAfford
    <3>2. stageNow'.tally + Est[stageNow.name] <= stageNow.remaining
      BY <1>3, <3>1
    <3> QED  BY <3>2 DEF CanAfford
  <2>2. Reserved'
    BY <1>0, <1>3, <2>1, StageGoesOn
  <2>3. /\ Clean /\ stageNow.name = "propose" => budget.calls = 2 * Len(results)
        /\ Clean /\ stageNow.name = "synthesize" =>
             violations # {} \/ budget.calls = 2 * Len(results) + 1
    BY DEF RunSafe, Answered
  <2> QED  BY <1>0, <1>3, <2>2, <2>3, WithinKeeps
<1> QED  BY <1>1, <1>2, <1>3

(* The stage after one more attempt was reserved. *)
LEMMA NextAttempt ==
  ASSUME stageNow \in StageRecord, NEW est \in Nat,
         \/ stageNow' = [stageNow EXCEPT !.tally = stageNow.tally + est, !.attempt = @ + 1]
         \/ stageNow' = [stageNow EXCEPT !.tally = stageNow.tally + est, !.attempt = 0, !.round = 1]
  PROVE  /\ stageNow'.name = stageNow.name /\ stageNow'.before = stageNow.before
         /\ stageNow'.remaining = stageNow.remaining /\ stageNow'.tally = stageNow.tally + est
         /\ stageNow' \in StageRecord
<1>1. stageNow = [name |-> stageNow.name, remaining |-> stageNow.remaining, tally |-> stageNow.tally,
                  attempt |-> stageNow.attempt, round |-> stageNow.round, before |-> stageNow.before]
      /\ stageNow.name \in {"none"} \cup Stages /\ stageNow.remaining \in Nat /\ stageNow.tally \in Nat
      /\ stageNow.attempt \in Nat /\ stageNow.round \in 0 .. 1 /\ stageNow.before \in Nat
  BY DEF StageRecord
<1>2. PICK a \in Nat, d \in 0 .. 1 :
        stageNow' = [name |-> stageNow.name, remaining |-> stageNow.remaining,
                     tally |-> stageNow.tally + est, attempt |-> a, round |-> d,
                     before |-> stageNow.before]
  <2>1. CASE stageNow' = [stageNow EXCEPT !.tally = stageNow.tally + est, !.attempt = @ + 1]
    <3>1. stageNow' = [name |-> stageNow.name, remaining |-> stageNow.remaining,
                       tally |-> stageNow.tally + est, attempt |-> stageNow.attempt + 1,
                       round |-> stageNow.round, before |-> stageNow.before]
      BY <1>1, <2>1
    <3>2. stageNow.attempt + 1 \in Nat /\ stageNow.round \in 0 .. 1
      BY <1>1
    <3> QED  BY <3>1, <3>2
  <2>2. CASE stageNow' = [stageNow EXCEPT !.tally = stageNow.tally + est, !.attempt = 0, !.round = 1]
    <3>1. stageNow' = [name |-> stageNow.name, remaining |-> stageNow.remaining,
                       tally |-> stageNow.tally + est, attempt |-> 0,
                       round |-> 1, before |-> stageNow.before]
      BY <1>1, <2>2
    <3> QED  BY <3>1
  <2> QED  BY <2>1, <2>2
<1>3. stageNow.tally + est \in Nat
  BY <1>1
<1> HIDE <1>1
<1> QED  BY <1>1, <1>2, <1>3 DEF StageRecord

LEMMA AttemptKeeps ==
  ASSUME RunSafe, NEW lost \in LostBill, NEW resent \in Resent, AttemptFails(lost + resent)
  PROVE  RunSafe'
<1> DEFINE cost == lost + resent
<1>0. AttemptFails(cost)
  OBVIOUS
<1>1. /\ pc = "call" /\ Real /\ spent' = spent + cost /\ UNCHANGED <<args, exit, written, budget, report>>
  BY <1>0 DEF AttemptFails
<1>2. /\ stageNow.name \in Stages /\ Est[stageNow.name] \in Nat
      /\ stageNow \in StageRecord
  BY <1>1, Prices DEF RunSafe, RunTypes
<1>3. \/ StageFailed /\ UNCHANGED <<stageNow, accepted, results, graphs>>
      \/ BudgetHalt
      \/ /\ CanAfford(stageNow.tally + Est[stageNow.name])
         /\ stageNow' = [stageNow EXCEPT !.tally = stageNow.tally + Est[stageNow.name], !.attempt = @ + 1]
         /\ UNCHANGED <<pc, accepted, violations, results, graphs>>
  BY <1>0 DEF AttemptFails
<1>4. cost \in Billable
  BY <1>1, <1>2, Sendings
<1> HIDE DEF cost
<1> QED  BY <1>4, <1>1, <1>2, <1>3, NextAttempt, LostKeeps

LEMMA InvalidKeeps ==
  ASSUME RunSafe, NEW price \in Costs, NEW resent \in Resent, AnswerInvalid(price + resent)
  PROVE  RunSafe'
<1> DEFINE cost == price + resent
<1>0. AnswerInvalid(cost)
  OBVIOUS
<1>1. /\ pc = "call" /\ Real /\ spent' = spent + cost /\ UNCHANGED <<args, exit, written, budget, report>>
      /\ price \in Bill[stageNow.name]
  BY <1>0 DEF AnswerInvalid, Costs
<1>2. /\ stageNow.name \in Stages /\ Est[stageNow.name] \in Nat
      /\ stageNow \in StageRecord
  BY <1>1, Prices DEF RunSafe, RunTypes
<1>3. \/ StageFailed /\ UNCHANGED <<stageNow, accepted, results, graphs>>
      \/ BudgetHalt
      \/ /\ CanAfford(stageNow.tally + Est[stageNow.name])
         /\ stageNow' = [stageNow EXCEPT !.tally = stageNow.tally + Est[stageNow.name],
                                         !.attempt = 0, !.round = 1]
         /\ UNCHANGED <<pc, accepted, violations, results, graphs>>
  BY <1>0 DEF AnswerInvalid
<1>4. cost \in Billable
  BY <1>1, <1>2, Sendings
<1> HIDE DEF cost
<1> QED  BY <1>4, <1>1, <1>2, <1>3, NextAttempt, LostKeeps

(* recordCost: one more call, and what was billed.                            *)
LEMMA Recording ==
  ASSUME RunTypes, pc = "call", NEW cost \in Costs, NEW known \in BOOLEAN,
         NEW resent \in Resent, Record(cost, known, resent)
  PROVE  /\ budget' \in Tally /\ budget'.calls = budget.calls + 1
         /\ spent' \in Nat /\ (spent' = spent \/ Real)
         /\ Real => cost + resent \in Billable /\ spent' = spent + (cost + resent)
<1>1. /\ spent \in Nat /\ stageNow.name \in Stages
      /\ budget.observed \in Nat /\ budget.unknown \in BOOLEAN /\ budget.calls \in Nat
      /\ budget \in Tally
  BY DEF RunTypes, Tally
<1>2. /\ cost \in Nat /\ cost + resent \in Nat /\ (~Real => cost + resent = 0)
      /\ Real => cost + resent \in Billable
  <2>1. CASE Real
    <3>1. cost \in Bill[stageNow.name] /\ cost \in Nat
      BY <1>1, <2>1, Prices DEF Costs
    <3>2. cost + resent \in Billable
      BY <1>1, <2>1, <3>1, Sendings
    <3>3. Est[stageNow.name] \in Nat /\ Overrun \in Nat
      BY <1>1, Prices
    <3> QED  BY <2>1, <3>1, <3>2, <3>3 DEF Billable
  <2>2. CASE ~Real
    BY <2>2 DEF Costs, Resent
  <2> QED  BY <2>1, <2>2
<1>3. /\ spent' = spent + (cost + resent)
      /\ budget' = [budget EXCEPT !.observed = IF known THEN @ + cost ELSE @,
                                  !.unknown = @ \/ ~known, !.calls = @ + 1]
  BY DEF Record
<1>4. PICK o \in Nat, u \in BOOLEAN :
        budget' = [budget EXCEPT !.observed = o, !.unknown = u, !.calls = @ + 1]
  <2>1. (IF known THEN budget.observed + cost ELSE budget.observed) \in Nat
    BY <1>1, <1>2
  <2>2. (budget.unknown \/ ~known) \in BOOLEAN
    OBVIOUS
  <2> QED  BY <1>3, <2>1, <2>2
<1>5. budget' \in Tally /\ budget'.calls = budget.calls + 1
  <2>1. budget = [observed |-> budget.observed, unknown |-> budget.unknown, calls |-> budget.calls]
    BY <1>1 DEF Tally
  <2>2. budget' = [observed |-> o, unknown |-> u, calls |-> budget.calls + 1]
    BY <1>4, <2>1
  <2>3. budget.calls + 1 \in Nat
    BY <1>1
  <2> QED  BY <1>4, <2>2, <2>3 DEF Tally
<1>6. spent' \in Nat /\ (spent' = spent \/ Real)
  BY <1>1, <1>2, <1>3
<1> QED  BY <1>2, <1>3, <1>5, <1>6

LEMMA ProposeKeeps ==
  ASSUME RunSafe, NEW proposal, NEW cost, NEW known \in BOOLEAN, NEW resent \in Resent,
         ProposeAnswered(proposal, cost, known, resent)
  PROVE  RunSafe'
<1>1. PICK excerpts : excerpts = [i \in DOMAIN proposal |-> Proposed(proposal[i], i)]
  OBVIOUS
<1>2. /\ pc = "call" /\ stageNow.name = "propose" /\ cost \in Costs /\ Record(cost, known, resent)
      /\ violations' = violations \cup ProposalViolations(excerpts) /\ pc' = "synthesis"
      /\ UNCHANGED <<args, exit, written, stageNow, results, graphs, report>>
  BY <1>1 DEF ProposeAnswered
<1>3. /\ budget' \in Tally /\ budget'.calls = budget.calls + 1
      /\ spent' \in Nat /\ (spent' = spent \/ Real)
      /\ Real => cost + resent \in Billable /\ spent' = spent + (cost + resent)
  BY <1>2, Recording DEF RunSafe
<1>4. Reserved'
  <2>1. CASE Real
    BY <1>2, <1>3, <2>1, StageEnds DEF RunSafe
  <2>2. CASE ~Real
    BY <1>2, <1>3, <2>2 DEF RunSafe, Reserved
  <2> QED  BY <2>1, <2>2
<1>5. violations' \subseteq Found
  BY <1>2 DEF RunSafe, RowsSound, ProposalViolations, Found
<1>6. Clean => budget'.calls = 2 * Len(results) + 1
  BY <1>2, <1>3 DEF RunSafe, Answered
<1>7. stageNow' \in StageRecord
  BY <1>2 DEF RunSafe, RunTypes
<1> QED  BY <1>2, <1>3, <1>4, <1>5, <1>6, <1>7, WithinKeeps

LEMMA SynthesizeKeeps ==
  ASSUME RunSafe, NEW claims, NEW cost, NEW known \in BOOLEAN, NEW resent \in Resent,
         SynthesizeAnswered(claims, cost, known, resent)
  PROVE  RunSafe'
<1>1. PICK vs : vs = violations \cup {v \in {"invented_evidence_excerpt_ids"} :
                                       \E c \in Items(claims) : Cited(c) # c.cites}
  OBVIOUS
<1>2. PICK b : b = budget'
  OBVIOUS
<1>3. /\ pc = "call" /\ stageNow.name = "synthesize" /\ cost \in Costs /\ Record(cost, known, resent)
      /\ Assembled(claims, b, vs) /\ UNCHANGED <<args, exit, written, report>>
  BY <1>1, <1>2 DEF SynthesizeAnswered
<1>4. /\ budget' \in Tally /\ budget'.calls = budget.calls + 1
      /\ spent' \in Nat /\ (spent' = spent \/ Real)
  BY <1>3, Recording DEF RunSafe
<1>5. vs \in SUBSET Found /\ (vs = {} => violations = {})
  BY <1>1 DEF RunSafe, RowsSound, Found
<1>6. /\ RowsSound'
      /\ pc' \in {"account", "report"} /\ stageNow' = NoStage
      /\ pc' = "report" => Len(results') = Accounts
      /\ pc' = "account" => Len(results') < Accounts /\ Len(graphs') = Len(results')
      /\ Clean' => Clean /\ vs = {} /\ Len(results') = Len(results) + 1
  BY <1>3, <1>5, AssembledKeeps
<1>7. Clean' => budget'.calls = 2 * Len(results')
  <2>1. Clean /\ violations = {} => budget.calls = 2 * Len(results) + 1
    BY <1>3 DEF RunSafe, Answered
  <2>2. Len(results) \in Nat
    BY LenProperties DEF RunSafe, RowsSound
  <2> QED  BY <1>4, <1>5, <1>6, <2>1, <2>2
<1> QED  BY <1>3, <1>4, <1>6, <1>7, EndingKeeps

LEMMA EmptyKeeps == RunSafe /\ AssembleEmpty => RunSafe'
<1> SUFFICES ASSUME RunSafe, AssembleEmpty PROVE RunSafe'
  OBVIOUS
<1>1. /\ pc = "assemble" /\ Assembled(<< >>, budget, violations)
      /\ UNCHANGED <<args, exit, written, spent, budget, report>>
  BY DEF AssembleEmpty
<1>2. violations \in SUBSET Found /\ spent \in Nat /\ budget \in Tally
  BY DEF RunSafe, RowsSound, RunTypes
<1>3. /\ RowsSound'
      /\ pc' \in {"account", "report"} /\ stageNow' = NoStage
      /\ pc' = "report" => Len(results') = Accounts
      /\ pc' = "account" => Len(results') < Accounts /\ Len(graphs') = Len(results')
      /\ Clean' => violations = {} /\ ~(budget.observed > Cap)
  BY <1>1, <1>2, AssembledKeeps
<1>4. ~Clean'
  BY <1>1, <1>3 DEF RunSafe, Answered, Exceeded
<1> QED  BY <1>1, <1>2, <1>3, <1>4, EndingKeeps

LEMMA ReportKeeps == RunSafe /\ WriteReport => RunSafe'
<1> SUFFICES ASSUME RunSafe, WriteReport PROVE RunSafe'
  OBVIOUS
<1>0. /\ pc = "report" /\ pc' = "done" /\ report' = Classification /\ exit' = ExitCode
      /\ written' = written \cup {"report", "baseline"}
      /\ UNCHANGED <<args, spent, budget, stageNow, accepted, violations, results, graphs>>
  BY DEF WriteReport
<1>1. RunTypes'
  BY <1>0 DEF RunSafe, RunTypes, ExitCode
<1>2. Consent'
  <2>1. exit' # 1 /\ args' = args /\ spent' = spent
    BY <1>0 DEF ExitCode
  <2> QED  BY <1>0, <2>1, ConsentKeeps DEF RunSafe
<1>3. Reserved'
  BY <1>0 DEF RunSafe, Reserved
<1>4. RowsSound'
  BY <1>0 DEF RunSafe, RowsSound
<1>5. Answered'
  BY <1>0 DEF Answered
<1>6. PassIsEarned'
  <2> SUFFICES ASSUME Classification = "pass" PROVE PassIsEarned'
    BY <1>0 DEF PassIsEarned
  <2>1. /\ ~Exceeded /\ ~budget.unknown
        /\ \A i \in DOMAIN results :
             results[i].violations = {}
             /\ results[i].class \notin {"budget_exceeded", "skipped_budget_exceeded"}
    BY DEF Classification, Items
  <2>2. Clean
    <3>1. \A i \in DOMAIN results : results[i] \in ReportRow
      BY ElementOfSeq, LenProperties DEF RunSafe, RowsSound
    <3>2. \A i \in DOMAIN results : results[i].class \in {"pass", "fail"}
      BY <2>1, <3>1 DEF ReportRow
    <3> QED  BY <2>1, <3>2 DEF Clean, RunSafe, RowsSound
  <2>3. Len(results) = Accounts /\ budget.calls = 2 * Accounts
    BY <1>0, <2>2 DEF RunSafe, Answered
  <2>4. budget.observed <= Cap
    <3>1. budget.observed \in Nat /\ Cap \in Nat
      BY CapIsNat DEF RunSafe, RunTypes, Tally
    <3> QED  BY <2>1, <3>1 DEF Exceeded
  <2>5. \A i \in DOMAIN graphs : Sound(graphs[i])
    <3>1. \A i \in DOMAIN graphs : i \in DOMAIN results
      <4>1. PICK S : graphs \in Seq(S)
        BY DEF RunSafe, RowsSound
      <4>2. /\ DOMAIN graphs = 1 .. Len(graphs) /\ Len(graphs) \in Nat
            /\ DOMAIN results = 1 .. Len(results) /\ Len(results) \in Nat
            /\ Len(graphs) <= Len(results)
        BY <4>1, LenProperties DEF RunSafe, RowsSound
      <4> QED  BY <4>2
    <3> QED  BY <2>2, <3>1 DEF RunSafe, RowsSound, Clean
  <2>6. Cap' = Cap
    BY <1>0 DEF Cap
  <2> QED  BY <1>0, <2>1, <2>3, <2>4, <2>5, <2>6 DEF PassIsEarned, Sound
<1> QED  BY <1>1, <1>2, <1>3, <1>4, <1>5, <1>6 DEF RunSafe

LEMMA RunInit == ValidationInit => RunSafe
<1> SUFFICES ASSUME ValidationInit PROVE RunSafe
  OBVIOUS
<1> USE DEF ValidationInit
<1>1. RunTypes
  <2>1. NoStage \in StageRecord /\ [observed |-> 0, unknown |-> FALSE, calls |-> 0] \in Tally
    BY DEF NoStage, StageRecord, Tally
  <2> QED  BY <2>1, ValidationAssumption DEF RunTypes
<1>2. Consent
  BY DEF Consent, OnlyWithConsent
<1>3. Reserved
  BY DEF Reserved, NoStage
<1>4. RowsSound
  <2>1. results \in Seq(ReportRow) /\ graphs \in Seq({}) /\ Len(results) = 0 /\ Len(graphs) = 0
        /\ DOMAIN results = {} /\ DOMAIN graphs = {}
    OBVIOUS
  <2> QED  BY <2>1 DEF RowsSound
<1>5. Answered
  BY DEF Answered
<1>6. PassIsEarned
  BY DEF PassIsEarned
<1> QED  BY <1>1, <1>2, <1>3, <1>4, <1>5, <1>6 DEF RunSafe

LEMMA RunStep == RunSafe /\ [ValidationNext]_validationVars => RunSafe'
<1> SUFFICES ASSUME RunSafe, [ValidationNext]_validationVars PROVE RunSafe'
  OBVIOUS
<1>1. CASE UNCHANGED validationVars
  BY <1>1 DEF validationVars, RunSafe, RunTypes, Consent, OnlyWithConsent, Private, Real, CommandRefused,
     RealRefused, CostRefused, CorpusRefused, OutRefused, NothingToRead, FixtureRefused, Reserved,
     RowsSound, Clean, Answered, Exceeded, Cap, PassIsEarned
<1>2. ASSUME NEW resent \in Resent, NEW known \in BOOLEAN, NEW cost \in Costs, NEW p,
             ProposeAnswered(p, cost, known, resent)
      PROVE  RunSafe'
  BY <1>2, ProposeKeeps
<1>3. ASSUME NEW resent \in Resent, NEW known \in BOOLEAN, NEW cost \in Costs, NEW c,
             SynthesizeAnswered(c, cost, known, resent)
      PROVE  RunSafe'
  BY <1>3, SynthesizeKeeps
<1>4. CASE ValidationNext
  <2>1. \/ Refuse \/ RunFixture \/ RunLocal \/ StartModel \/ BeginAccount \/ Unhandled
        \/ BeginSynthesis \/ AssembleEmpty \/ WriteReport
        \/ \E resent \in Resent :
             \/ AttemptRejected(resent)
             \/ \E known \in BOOLEAN, cost \in Costs : \E p : ProposeAnswered(p, cost, known, resent)
             \/ \E known \in BOOLEAN, cost \in Costs : \E c : SynthesizeAnswered(c, cost, known, resent)
             \/ \E lost \in LostBill : AttemptFails(lost + resent)
             \/ \E cost \in Costs : AnswerInvalid(cost + resent)
    <3>1. (IF Real THEN BOOLEAN ELSE {TRUE}) \subseteq BOOLEAN
      OBVIOUS
    <3> QED  BY <1>4, <3>1 DEF ValidationNext
  <2> QED  BY <1>2, <1>3, <2>1, RefuseKeeps, FixtureKeeps, StartKeeps, BeginKeeps, UnhandledKeeps,
              SynthesisKeeps, EmptyKeeps, ReportKeeps, AttemptKeeps, InvalidKeeps
<1> QED  BY <1>1, <1>4

LEMMA RunHolds == ValidationSpec => []RunSafe
BY RunInit, RunStep, PTL DEF ValidationSpec

(* A model run is reported "pass" only when every account had both its        *)
(* answers, every cost is known and under the ceiling, and every strong claim *)
(* is grounded (runModelModeOrchestrator, aggregateClassification).           *)
THEOREM PassHolds == ValidationSpec => []PassIsEarned
<1>1. RunSafe => PassIsEarned
  BY DEF RunSafe
<1> QED  BY <1>1, RunHolds, PTL

(* Nothing is billed without every consent flag, and a refused command leaves *)
(* nothing behind (main).                                                     *)
THEOREM ConsentHolds == ValidationSpec => []OnlyWithConsent
<1>1. RunSafe => OnlyWithConsent
  BY DEF RunSafe, Consent
<1> QED  BY <1>1, RunHolds, PTL

LEMMA Quotient == \A k \in Nat, e \in Nat \ {0} : (k * e) \div e = k
OBVIOUS

(* A stage and its retries are billed no more than twice what was left when   *)
(* it began, up to the error of the estimates: the tally bounds the attempts, *)
(* and each is sent twice at most (callWithRetry, callAndValidate).           *)
THEOREM BudgetHolds == ValidationSpec => []StageStaysInBudget
<1>1. RunSafe => StageStaysInBudget
  <2> SUFFICES ASSUME RunSafe, stageNow.name # "none" PROVE StageStaysInBudget
    BY DEF StageStaysInBudget
  <2>1. /\ stageNow.name \in Stages /\ spent \in Nat /\ stageNow.before \in Nat
        /\ stageNow.remaining \in Nat /\ Overrun \in Nat /\ Est[stageNow.name] \in Nat \ {0}
    BY Prices DEF RunSafe, RunTypes, StageRecord
  <2>2. PICK k \in Nat :
          /\ stageNow.tally = k * Est[stageNow.name]
          /\ spent <= stageNow.before + 2 * stageNow.remaining + 2 * (Overrun * (k + 1))
    BY DEF RunSafe, Reserved
  <2>3. stageNow.tally \div Est[stageNow.name] = k
    BY <2>1, <2>2, Quotient
  <2>4. Overrun * (k + 1) \in Nat
    BY <2>1
  <2>5. spent - stageNow.before <= 2 * (stageNow.remaining + Overrun * (k + 1))
    BY <2>1, <2>2, <2>4
  <2> QED  BY <2>3, <2>5 DEF StageStaysInBudget
<1> QED  BY <1>1, RunHolds, PTL

(* What is counted while accounts are run: two calls for each row, and one     *)
(* more in the middle of an account.                                           *)
Halfway ==
  \/ pc \in {"synthesis", "assemble"}
  \/ pc \in {"call", "unhandled"} /\ stageNow.name = "synthesize"
RunBounds ==
  /\ args \in CommandLines /\ Len(results) <= Accounts
  /\ written \subseteq {"directory", "report", "baseline", "selection"}
  /\ report \in {"none", "pass", "borderline", "fail", "budget_exceeded"}
  /\ stageNow.attempt \in 0 .. MaxRetries
  /\ budget.calls <= 2 * Len(results) + 1
  /\ ~Halfway => budget.calls <= 2 * Len(results)

(* An account that ends has its row, whatever else is added. *)
LEMMA EndGrows ==
  ASSUME RowsSound, Len(results) < Accounts, NEW class, NEW vs, NEW ended, NEW stopped,
         EndAccount(class, vs, ended, stopped)
  PROVE  /\ Len(results') \in Nat /\ Len(results') >= Len(results) + 1
         /\ pc' \in {"account", "report"} /\ stageNow' = NoStage
<1> DEFINE row == AccountRow(class, vs)
           rest == Accounts - Len(results) - 1
           skipped == IF stopped THEN [i \in 1 .. rest |-> SkippedRow] ELSE << >>
           T == ReportRow \cup {row}
<1>1. /\ results' = Append(results, row) \o skipped /\ stageNow' = NoStage
      /\ pc' \in {"account", "report"}
  BY DEF EndAccount
<1>2. Len(results) \in Nat /\ rest \in Nat
  BY ValidationAssumption, LenProperties DEF RowsSound
<1>3. \E S : skipped \in Seq(S)
  <2>1. CASE stopped
    <3>1. [i \in 1 .. rest |-> SkippedRow] \in Seq({SkippedRow})
      <4> HIDE DEF rest
      <4> QED  BY <1>2, IsASeq
    <3> QED  BY <2>1, <3>1
  <2>2. CASE ~stopped
    <3>1. << >> \in Seq({})
      OBVIOUS
    <3> QED  BY <2>2, <3>1
  <2> QED  BY <2>1, <2>2
<1>4. results \in Seq(T) /\ row \in T
  BY SeqMonotonic DEF RowsSound
<1> HIDE DEF row, skipped, T
<1>5. Append(results, row) \in Seq(T) /\ Len(Append(results, row)) = Len(results) + 1
  BY <1>4, AppendProperties
<1>6. PICK S : skipped \in Seq(S)
  BY <1>3
<1>7. Append(results, row) \in Seq(T \cup S) /\ skipped \in Seq(T \cup S)
  BY <1>5, <1>6, SeqMonotonic
<1>8. Len(results') = Len(results) + 1 + Len(skipped) /\ Len(skipped) \in Nat
  BY <1>1, <1>5, <1>7, ConcatProperties, LenProperties
<1> QED  BY <1>1, <1>2, <1>8

(* The end of an account, after at most two calls for it. *)
LEMMA EndBounds ==
  ASSUME RunSafe, RunSafe', RunBounds, pc \in {"account", "call", "unhandled", "synthesis", "assemble"},
         NEW class, NEW vs, NEW ended, NEW stopped, EndAccount(class, vs, ended, stopped),
         args' = args, written' = written, report' = report,
         budget'.calls <= 2 * Len(results) + 2
  PROVE  RunBounds'
<1>1. /\ Len(results') \in Nat /\ Len(results') >= Len(results) + 1
      /\ pc' \in {"account", "report"} /\ stageNow' = NoStage /\ Len(results) \in Nat
  BY EndGrows, LenProperties DEF RunSafe, Answered, RowsSound
<1>2. Len(results') <= Accounts
  BY <1>1, ValidationAssumption DEF RunSafe, Answered
<1>3. budget'.calls \in Nat
  BY DEF RunSafe, RunTypes, Tally
<1>4. budget'.calls <= 2 * Len(results')
  BY <1>1, <1>3
<1>5. stageNow'.attempt \in 0 .. MaxRetries
  BY <1>1 DEF NoStage, MaxRetries
<1> QED  BY <1>1, <1>2, <1>3, <1>4, <1>5 DEF RunBounds

(* A step within an account: no row is added. *)
LEMMA WithinBounds ==
  ASSUME RunBounds, args' = args, written' = written, report' = report, results' = results,
         stageNow'.attempt \in 0 .. MaxRetries,
         budget'.calls <= 2 * Len(results) + 1, ~Halfway' => budget'.calls <= 2 * Len(results)
  PROVE  RunBounds'
BY DEF RunBounds

(* A stage begins without attempts. *)
LEMMA EnterBounds ==
  ASSUME NEW name, Enter(name)
  PROVE  /\ stageNow'.attempt \in 0 .. MaxRetries /\ stageNow'.name = name
         /\ pc' \in {"call", "unhandled"}
BY DEF Enter, NoStage, MaxRetries

(* A stage that failed is followed by the next or by the assembly. *)
LEMMA FailedIsHalfway ==
  ASSUME StageFailed
  PROVE  Halfway'
BY DEF StageFailed, Halfway

(* What an attempt or an answer that gives nothing leaves. *)
LEMMA LostBounds ==
  ASSUME RunSafe, RunSafe', RunBounds, pc = "call",
         UNCHANGED <<args, written, budget, report>>,
         \/ StageFailed /\ UNCHANGED <<stageNow, results>>
         \/ BudgetHalt
         \/ /\ stageNow'.attempt \in 0 .. MaxRetries /\ stageNow'.name = stageNow.name
            /\ UNCHANGED <<pc, results>>
  PROVE  RunBounds'
<1>1. budget.calls <= 2 * Len(results) + 1 /\ (~Halfway => budget.calls <= 2 * Len(results))
  BY DEF RunBounds
<1>2. CASE StageFailed /\ UNCHANGED <<stageNow, results>>
  <2>1. Halfway'
    BY <1>2, FailedIsHalfway
  <2>2. stageNow'.attempt \in 0 .. MaxRetries
    BY <1>2 DEF RunBounds
  <2> QED  BY <1>1, <1>2, <2>1, <2>2, WithinBounds
<1>3. CASE BudgetHalt
  <2>1. EndAccount("budget_exceeded", violations, NoGraph, TRUE)
    BY <1>3 DEF BudgetHalt
  <2>2. budget'.calls <= 2 * Len(results) + 2
    <3>1. budget.calls \in Nat /\ Len(results) \in Nat
      BY LenProperties DEF RunSafe, RunTypes, Tally, RowsSound
    <3>2. budget' = budget
      OBVIOUS
    <3> QED  BY <1>1, <3>1, <3>2
  <2> QED  BY <2>1, <2>2, EndBounds
<1>4. CASE /\ stageNow'.attempt \in 0 .. MaxRetries /\ stageNow'.name = stageNow.name
           /\ UNCHANGED <<pc, results>>
  <2>1. Halfway' <=> Halfway
    BY <1>4 DEF Halfway
  <2> QED  BY <1>1, <1>4, <2>1, WithinBounds
<1> QED  BY <1>2, <1>3, <1>4

(* An attempt of a stage stays within the bounds, answered or lost. *)
LEMMA AttemptBounds ==
  ASSUME RunSafe, RunSafe', RunBounds, NEW cost, AttemptFails(cost) \/ AnswerInvalid(cost)
  PROVE  RunBounds'
<1> DEFINE est == Est[stageNow.name]
<1>1. stageNow \in StageRecord /\ stageNow.attempt \in Nat
  BY DEF RunSafe, RunTypes, StageRecord
<1>2. pc = "call" /\ UNCHANGED <<args, written, budget, report>>
  BY DEF AttemptFails, AnswerInvalid
<1>3. \/ StageFailed /\ UNCHANGED <<stageNow, results>>
      \/ BudgetHalt
      \/ /\ stageNow.attempt < MaxRetries
         /\ stageNow' = [stageNow EXCEPT !.tally = stageNow.tally + est, !.attempt = @ + 1]
         /\ UNCHANGED <<pc, results>>
      \/ /\ stageNow' = [stageNow EXCEPT !.tally = stageNow.tally + est, !.attempt = 0, !.round = 1]
         /\ UNCHANGED <<pc, results>>
  BY DEF AttemptFails, AnswerInvalid
<1> HIDE DEF est
<1>4. ASSUME stageNow.attempt < MaxRetries,
             stageNow' = [stageNow EXCEPT !.tally = stageNow.tally + est, !.attempt = @ + 1]
      PROVE  stageNow'.attempt \in 0 .. MaxRetries /\ stageNow'.name = stageNow.name
  <2>1. stageNow'.attempt = stageNow.attempt + 1 /\ stageNow'.name = stageNow.name
    BY <1>1, <1>4 DEF StageRecord
  <2> QED  BY <1>1, <1>4, <2>1 DEF MaxRetries
<1>5. ASSUME stageNow' = [stageNow EXCEPT !.tally = stageNow.tally + est, !.attempt = 0, !.round = 1]
      PROVE  stageNow'.attempt \in 0 .. MaxRetries /\ stageNow'.name = stageNow.name
  <2>1. stageNow'.attempt = 0 /\ stageNow'.name = stageNow.name
    BY <1>1, <1>5 DEF StageRecord
  <2> QED  BY <2>1 DEF MaxRetries
<1> QED  BY <1>2, <1>3, <1>4, <1>5, LostBounds

(* An answer is a call more: the first of an account, or the second that ends it. *)
LEMMA AnsweredBounds ==
  ASSUME RunSafe, RunSafe', RunBounds, NEW cost \in Costs, NEW known \in BOOLEAN, NEW resent \in Resent,
         \/ \E p : ProposeAnswered(p, cost, known, resent)
         \/ \E c : SynthesizeAnswered(c, cost, known, resent)
  PROVE  RunBounds'
<1>1. pc = "call" /\ Record(cost, known, resent) /\ UNCHANGED <<args, written, report>>
  BY DEF ProposeAnswered, SynthesizeAnswered
<1>2. budget'.calls = budget.calls + 1 /\ budget.calls \in Nat /\ Len(results) \in Nat
  BY <1>1, Recording, LenProperties DEF RunSafe, RunTypes, Tally, RowsSound
<1>3. budget.calls <= 2 * Len(results) + 1 /\ (~Halfway => budget.calls <= 2 * Len(results))
  BY DEF RunBounds
<1>4. CASE \E p : ProposeAnswered(p, cost, known, resent)
  <2>1. pc' = "synthesis" /\ stageNow.name = "propose" /\ stageNow' = stageNow /\ results' = results
    BY <1>4 DEF ProposeAnswered
  <2>2. Halfway' /\ ~Halfway
    BY <1>1, <2>1 DEF Halfway
  <2>3. stageNow'.attempt \in 0 .. MaxRetries
    BY <2>1 DEF RunBounds
  <2>4. budget'.calls <= 2 * Len(results) + 1
    BY <1>2, <1>3, <2>2
  <2> QED  BY <1>1, <2>1, <2>2, <2>3, <2>4, WithinBounds
<1>5. CASE \E c : SynthesizeAnswered(c, cost, known, resent)
  <2>1. PICK class, vs, ended, stopped : EndAccount(class, vs, ended, stopped)
    BY <1>5 DEF SynthesizeAnswered, Assembled
  <2>2. budget'.calls <= 2 * Len(results) + 2
    BY <1>2, <1>3
  <2> QED  BY <1>1, <2>1, <2>2, EndBounds
<1> QED  BY <1>4, <1>5

(* Each step of the runner keeps the bounds. *)
LEMMA BoundsStep == RunSafe /\ RunSafe' /\ RunBounds /\ [ValidationNext]_validationVars => RunBounds'
<1> SUFFICES ASSUME RunSafe, RunSafe', RunBounds, [ValidationNext]_validationVars PROVE RunBounds'
  OBVIOUS
<1>1. /\ budget.calls \in Nat /\ Len(results) \in Nat
      /\ budget.calls <= 2 * Len(results) + 1 /\ (~Halfway => budget.calls <= 2 * Len(results))
      /\ stageNow.attempt \in 0 .. MaxRetries
  BY LenProperties DEF RunSafe, RunTypes, Tally, RowsSound, RunBounds
<1>2. CASE UNCHANGED validationVars
  BY <1>2 DEF validationVars, RunBounds, Halfway
<1>3. CASE Refuse \/ RunFixture \/ RunLocal \/ StartModel \/ WriteReport
  <2>1. /\ pc \in {"main", "report"} /\ pc' \in {"done", "account"}
        /\ UNCHANGED <<args, budget, stageNow, results>>
    BY <1>3 DEF Refuse, RunFixture, RunLocal, StartModel, WriteReport
  <2>2. /\ written' \subseteq {"directory", "report", "baseline", "selection"}
        /\ report' \in {"none", "pass", "borderline", "fail", "budget_exceeded"}
    BY <1>3 DEF Refuse, RunFixture, RunLocal, StartModel, WriteReport, Classify, Classification, RunBounds
  <2>3. ~Halfway
    BY <2>1 DEF Halfway
  <2> QED  BY <1>1, <2>1, <2>2, <2>3 DEF RunBounds
<1>4. CASE BeginAccount
  <2>1. pc = "account" /\ UNCHANGED <<args, written, budget, report>> /\ ~Halfway
    BY <1>4 DEF BeginAccount, Halfway
  <2>2. CASE Exceeded
    <3>1. EndAccount("skipped_budget_exceeded", {}, NoGraph, TRUE)
      BY <1>4, <2>2 DEF BeginAccount
    <3>2. budget'.calls <= 2 * Len(results) + 2
      <4>1. budget' = budget
        BY <2>1
      <4> QED  BY <1>1, <4>1
    <3> QED  BY <2>1, <3>1, <3>2, EndBounds
  <2>3. CASE ~Exceeded
    <3>1. Enter("propose") /\ results' = results
      BY <1>4, <2>3 DEF BeginAccount
    <3> QED  BY <1>1, <2>1, <3>1, EnterBounds, WithinBounds
  <2> QED  BY <2>2, <2>3
<1>5. CASE Unhandled \/ \E resent : AttemptRejected(resent)
  <2>1. /\ UNCHANGED <<args, written, budget, report, stageNow, results>>
        /\ pc \in {"call", "unhandled"}
    BY <1>5 DEF Unhandled, AttemptRejected
  <2>2. Halfway' \/ ~Halfway
    <3>1. CASE Unhandled
      BY <3>1, FailedIsHalfway DEF Unhandled
    <3>2. CASE \E resent : AttemptRejected(resent)
      BY <3>2 DEF AttemptRejected, Halfway
    <3> QED  BY <1>5, <3>1, <3>2
  <2> QED  BY <1>1, <2>1, <2>2, WithinBounds
<1>6. CASE BeginSynthesis
  <2>1. pc = "synthesis" /\ UNCHANGED <<args, written, budget, report, results>>
    BY <1>6 DEF BeginSynthesis
  <2>2. Halfway' /\ stageNow'.attempt \in 0 .. MaxRetries
    <3>1. CASE Exceeded
      BY <1>6, <3>1 DEF BeginSynthesis, NoStage, MaxRetries, Halfway
    <3>2. CASE ~Exceeded
      BY <1>6, <3>2, EnterBounds DEF BeginSynthesis, Halfway
    <3> QED  BY <3>1, <3>2
  <2> QED  BY <1>1, <2>1, <2>2, WithinBounds
<1>7. CASE AssembleEmpty
  <2>1. pc = "assemble" /\ UNCHANGED <<args, written, budget, report>>
    BY <1>7 DEF AssembleEmpty
  <2>2. PICK class, vs, ended, stopped : EndAccount(class, vs, ended, stopped)
    BY <1>7 DEF AssembleEmpty, Assembled
  <2>3. budget'.calls <= 2 * Len(results) + 2
    <3>1. budget' = budget
      BY <2>1
    <3> QED  BY <1>1, <3>1
  <2> QED  BY <2>1, <2>2, <2>3, EndBounds
<1>8. CASE ValidationNext
  <2>1. \/ Refuse \/ RunFixture \/ RunLocal \/ StartModel \/ WriteReport
        \/ BeginAccount \/ Unhandled \/ BeginSynthesis \/ AssembleEmpty
        \/ \E resent : AttemptRejected(resent)
        \/ \E resent \in Resent, known \in BOOLEAN, cost \in Costs :
             \/ \E p : ProposeAnswered(p, cost, known, resent)
             \/ \E c : SynthesizeAnswered(c, cost, known, resent)
        \/ \E cost : AttemptFails(cost) \/ AnswerInvalid(cost)
    <3>1. (IF Real THEN BOOLEAN ELSE {TRUE}) \subseteq BOOLEAN
      OBVIOUS
    <3> QED  BY <1>8, <3>1 DEF ValidationNext
  <2> QED  BY <1>3, <1>4, <1>5, <1>6, <1>7, <2>1, AnsweredBounds, AttemptBounds
<1> QED  BY <1>2, <1>8

(* A run keeps its types: two calls per account, a row for each account at     *)
(* most, retries within their limit (runAccountThroughAdapter, callWithRetry). *)
THEOREM ValidationTypes == ValidationSpec => []ValidationTypeOK
<1>1. ValidationInit => RunBounds
  <2> SUFFICES ASSUME ValidationInit PROVE RunBounds
    OBVIOUS
  <2>1. Len(results) = 0 /\ budget.calls = 0 /\ stageNow.attempt = 0
    BY DEF ValidationInit, NoStage
  <2> QED  BY <2>1, ValidationAssumption DEF ValidationInit, RunBounds, MaxRetries
<1>2. RunSafe /\ RunBounds => ValidationTypeOK
  <2> SUFFICES ASSUME RunSafe, RunBounds PROVE ValidationTypeOK
    OBVIOUS
  <2>1. /\ budget \in Tally /\ budget.calls \in Nat /\ stageNow \in StageRecord
        /\ Len(results) \in Nat /\ Accounts \in Nat /\ Len(results) <= Accounts
    BY ValidationAssumption, LenProperties DEF RunSafe, RunTypes, Tally, RowsSound, RunBounds
  <2>2. budget.calls <= 2 * Accounts
    <3>1. CASE Halfway
      <4>1. Len(results) < Accounts
        BY <3>1 DEF RunSafe, Answered, Halfway
      <4> QED  BY <2>1, <4>1 DEF RunBounds
    <3>2. CASE ~Halfway
      BY <2>1, <3>2 DEF RunBounds
    <3> QED  BY <3>1, <3>2
  <2>3. budget \in [observed : Nat, unknown : BOOLEAN, calls : 0 .. (2 * Accounts)]
    BY <2>1, <2>2 DEF Tally
  <2>4. /\ stageNow.name \in {"none"} \cup DOMAIN Est /\ stageNow.round \in 0 .. 1
    <3>1. DOMAIN Est = Stages
      BY ValidationAssumption DEF Stages
    <3> QED  BY <2>1, <3>1 DEF StageRecord
  <2> QED  BY <2>3, <2>4 DEF ValidationTypeOK, RunSafe, RunTypes, RowsSound, RunBounds
<1> QED  BY <1>1, <1>2, RunHolds, BoundsStep, PTL DEF ValidationSpec

------------------------------------------------------------------------------
(* Notifications *)

Rank(S, k) == Cardinality({j \in S : j <= k})

(* The ranks of a finite set of positions are 1, 2, ..., its cardinality. *)
LEMMA Ranks ==
  ASSUME NEW S, S \subseteq Nat, IsFiniteSet(S), NEW i \in 1 .. Cardinality(S)
  PROVE  \E k \in S : Rank(S, k) = i
<1> DEFINE Below(k) == {j \in S : j <= k}
<1> DEFINE rank == [k \in S |-> Cardinality(Below(k))]
<1>1. Cardinality(S) \in Nat
  BY FS_CardinalityType
<1>2. ASSUME NEW k \in S
      PROVE  /\ IsFiniteSet(Below(k)) /\ Cardinality(Below(k)) \in Nat
             /\ Cardinality(Below(k)) \in 1 .. Cardinality(S)
  <2>1. Below(k) \in SUBSET S /\ k \in Below(k)
    BY <1>2
  <2> HIDE DEF Below
  <2>2. IsFiniteSet(Below(k)) /\ Cardinality(Below(k)) <= Cardinality(S)
    BY <2>1, FS_Subset
  <2>3. Cardinality(Below(k)) \in Nat /\ Cardinality(Below(k)) # 0
    BY <2>1, <2>2, FS_CardinalityType, FS_EmptySet
  <2> QED  BY <1>1, <2>2, <2>3
<1>3. ASSUME NEW k \in S, NEW l \in S, k < l
      PROVE  Cardinality(Below(k)) # Cardinality(Below(l))
  <2>1. Below(k) \in SUBSET Below(l) /\ l \in Below(l) /\ l \notin Below(k)
    <3>1. k \in Nat /\ l \in Nat /\ \A j \in S : j \in Nat
      BY <1>3
    <3>2. \A j \in S : j <= k => j <= l
      BY <1>3, <3>1
    <3>3. \A j \in Below(k) : j \in Below(l)
      BY <3>2
    <3>4. l <= l /\ ~(l <= k)
      BY <1>3, <3>1
    <3> QED  BY <1>3, <3>3, <3>4
  <2> HIDE DEF Below
  <2> QED  BY <1>2, <2>1, FS_Subset
<1> HIDE DEF Below
<1>4. rank \in Injection(S, 1 .. Cardinality(S))
  <2>1. rank \in [S -> 1 .. Cardinality(S)]
    BY <1>2
  <2>2. \A k, l \in S : k # l => rank[k] # rank[l]
    <3> TAKE k \in S, l \in S
    <3>1. CASE k < l
      BY <1>3, <3>1
    <3>2. CASE l < k
      BY <1>3, <3>2
    <3> QED  BY <3>1, <3>2
  <2> QED  BY <2>1, <2>2 DEF Injection, IsInjective
<1>5. IsFiniteSet(1 .. Cardinality(S)) /\ Cardinality(1 .. Cardinality(S)) = Cardinality(S)
  BY <1>1, FS_Interval
<1>6. rank \in Surjection(S, 1 .. Cardinality(S))
  BY <1>4, <1>5, FS_Injection
<1>7. PICK k \in S : rank[k] = i
  BY <1>6 DEF Surjection
<1> QED  BY <1>7 DEF Below, Rank

(* A box after the pruning: still what was in it, at most InboxLimit, and with *)
(* the newest notice when that one is unread.                                  *)
LEMMA PrunedBox ==
  ASSUME NoticeAssumption, NEW box \in Seq(NoteType), NEW age
  PROVE  /\ Pruned(box, age) \in Seq(NoteType) /\ Len(Pruned(box, age)) <= InboxLimit
         /\ \A i \in DOMAIN Pruned(box, age) : \E k \in DOMAIN box : Pruned(box, age)[i] = box[k]
         /\ Len(box) > 0 /\ ~box[1].read =>
              1 \in DOMAIN Pruned(box, age) /\ Pruned(box, age)[1] = box[1]
<1> DEFINE kept == {i \in DOMAIN box : i <= InboxLimit /\ (box[i].read => i <= age)}
<1> DEFINE At(i) == CHOOSE k \in kept : Cardinality({j \in kept : j <= k}) = i
<1>1. /\ kept \subseteq Nat /\ kept \in SUBSET (1 .. InboxLimit) /\ kept \subseteq DOMAIN box
      /\ InboxLimit \in Nat \ {0} /\ DOMAIN box = 1 .. Len(box) /\ Len(box) \in Nat
  BY DEF NoticeAssumption
<1>0. kept \subseteq Nat
  BY <1>1
<1>2. Len(box) > 0 /\ ~box[1].read => 1 \in kept
  BY <1>1
<1>3. Pruned(box, age) = [i \in 1 .. Cardinality(kept) |-> box[At(i)]]
  BY DEF Pruned
<1> HIDE DEF kept
<1>4. /\ IsFiniteSet(kept) /\ Cardinality(kept) \in Nat /\ Cardinality(kept) <= InboxLimit
  <2>1. IsFiniteSet(1 .. InboxLimit) /\ Cardinality(1 .. InboxLimit) = InboxLimit
    BY <1>1, FS_Interval
  <2>2. IsFiniteSet(kept) /\ Cardinality(kept) <= InboxLimit
    <3> HIDE DEF kept
    <3>1. kept \in SUBSET (1 .. InboxLimit)
      BY <1>1
    <3> QED  BY ZenonT(30), <2>1, <3>1, FS_Subset
  <2> QED  BY <2>2, FS_CardinalityType
<1>5. ASSUME NEW i \in 1 .. Cardinality(kept)
      PROVE  At(i) \in kept
  <2>1. PICK k \in kept : Rank(kept, k) = i
    BY <1>0, <1>4, Ranks
  <2> QED  BY <2>1 DEF Rank
<1>6. ASSUME 1 \in kept
      PROVE  1 \in 1 .. Cardinality(kept) /\ At(1) = 1
  <2>1. ASSUME NEW k \in kept, Cardinality({j \in kept : j <= k}) = 1
        PROVE  k = 1
    <3>1. IsFiniteSet({j \in kept : j <= k})
      BY <1>4, FS_Subset
    <3>2. 1 \in {j \in kept : j <= k} /\ k \in {j \in kept : j <= k}
      BY <1>1, <1>6
    <3> QED  BY <2>1, <3>1, <3>2, FS_Singleton
  <2>2. Cardinality(kept) # 0
    BY <1>4, <1>6, FS_EmptySet
  <2>3. 1 \in 1 .. Cardinality(kept)
    BY <1>4, <2>2
  <2>4. PICK k \in kept : Rank(kept, k) = 1
    BY <1>0, <1>4, <2>3, Ranks
  <2> QED  BY <2>1, <2>3, <2>4 DEF Rank
<1> HIDE DEF At
<1>7. \A i \in 1 .. Cardinality(kept) : box[At(i)] \in NoteType
  BY <1>1, <1>5, ElementOfSeq
<1>8. Pruned(box, age) \in Seq(NoteType) /\ Len(Pruned(box, age)) = Cardinality(kept)
      /\ DOMAIN Pruned(box, age) = 1 .. Cardinality(kept)
  BY <1>3, <1>4, <1>7
<1>9. \A i \in 1 .. Cardinality(kept) : Pruned(box, age)[i] = box[At(i)]
  BY <1>3
<1>10. Pruned(box, age) \in Seq(NoteType) /\ Len(Pruned(box, age)) <= InboxLimit
  BY <1>4, <1>8
<1>11. \A i \in DOMAIN Pruned(box, age) : \E k \in DOMAIN box : Pruned(box, age)[i] = box[k]
  BY <1>1, <1>5, <1>8, <1>9
<1>12. Len(box) > 0 /\ ~box[1].read =>
              1 \in DOMAIN Pruned(box, age) /\ Pruned(box, age)[1] = box[1]
  BY <1>2, <1>6, <1>8, <1>9
<1> QED  BY <1>10, <1>11, <1>12

(* A notice received: the box holds it, and nothing that was not there. *)
LEMMA Receiving ==
  ASSUME NoticeAssumption, NEW box \in Seq(NoteType), Len(box) <= InboxLimit,
         NEW n \in NoteType, ~n.read, NEW age
  PROVE  /\ Received(box, n, age) \in Seq(NoteType) /\ Len(Received(box, n, age)) <= InboxLimit
         /\ \E i \in DOMAIN Received(box, n, age) : Received(box, n, age)[i].source = n.source
         /\ \A i \in DOMAIN Received(box, n, age) :
              \/ Received(box, n, age)[i].source = n.source
              \/ \E k \in DOMAIN box : Received(box, n, age)[i] = box[k]
<1>1. CASE \E i \in DOMAIN box : box[i].type = n.type /\ box[i].source = n.source
  BY <1>1 DEF Received
<1>2. CASE ~\E i \in DOMAIN box : box[i].type = n.type /\ box[i].source = n.source
  <2> DEFINE longer == <<n>> \o box
  <2>1. /\ <<n>> \in Seq(NoteType) /\ Len(<<n>>) = 1 /\ <<n>>[1] = n
    OBVIOUS
  <2>2. /\ longer \in Seq(NoteType) /\ Len(longer) = 1 + Len(box) /\ longer[1] = n
        /\ \A i \in 1 .. Len(longer) : i > 1 => longer[i] = box[i - 1]
    BY <2>1, ConcatProperties
  <2>3. Len(box) \in Nat /\ DOMAIN box = 1 .. Len(box) /\ DOMAIN longer = 1 .. Len(longer)
    BY <2>2
  <2> HIDE DEF longer
  <2>4. Received(box, n, age) = Pruned(longer, age)
    BY <1>2 DEF Received, longer
  <2>5. \A k \in DOMAIN longer : longer[k] = n \/ \E j \in DOMAIN box : longer[k] = box[j]
    <3> TAKE k \in DOMAIN longer
    <3>1. CASE k = 1
      BY <2>2, <3>1
    <3>2. CASE k # 1
      <4>1. k > 1 /\ k - 1 \in DOMAIN box
        BY <2>2, <2>3, <3>2
      <4> QED  BY <2>2, <2>3, <4>1
    <3> QED  BY <3>1, <3>2
  <2>6. /\ Pruned(longer, age) \in Seq(NoteType) /\ Len(Pruned(longer, age)) <= InboxLimit
        /\ \A i \in DOMAIN Pruned(longer, age) :
             \E k \in DOMAIN longer : Pruned(longer, age)[i] = longer[k]
        /\ 1 \in DOMAIN Pruned(longer, age) /\ Pruned(longer, age)[1] = n
    <3>1. Len(longer) > 0 /\ ~longer[1].read
      BY <2>2, <2>3
    <3> QED  BY <2>2, <3>1, PrunedBox
  <2> QED  BY <2>4, <2>5, <2>6
<1> QED  BY <1>1, <1>2

NoticeSafe == NoticeTypeOK /\ CommentsAreTold

LEMMA NoticesStart == NoticeInit => NoticeSafe
<1> SUFFICES ASSUME NoticeInit PROVE NoticeSafe
  OBVIOUS
<1>1. << >> \in Seq(NoteType) /\ Len(<< >>) = 0 /\ InboxLimit \in Nat
  BY NoticeAssumption DEF NoticeAssumption
<1>2. \A u \in Reader : inbox[u] = << >> /\ Sources(u) = {}
  BY DEF NoticeInit, Sources
<1>3. comments \in [CommentId -> [author : Reader \cup {"none"}, deleted : BOOLEAN,
       parent : CommentId \cup {NoParent}, due : Reader \cup {"none"}]]
  BY DEF NoticeInit, NoComment
<1>4. \A c \in CommentId : comments[c].due = "none"
  BY DEF NoticeInit, NoComment
<1>5. NoticeTypeOK
  BY <1>1, <1>2, <1>3, NoticeAssumption DEF NoticeTypeOK, NoticeInit, NoticeAssumption
<1>6. CommentsAreTold
  BY <1>2, <1>4, NoticeAssumption DEF CommentsAreTold, NoticeAssumption
<1> QED  BY <1>5, <1>6 DEF NoticeSafe

(* What leaves a box is remembered. *)
LEMMA Forgotten ==
  ASSUME NoticeTypeOK, Forget
  PROVE  /\ pruned' \subseteq CommentId \cup {"entry"}
         /\ \A x \in pruned : x \in pruned'
         /\ \A u \in Reader : \A x \in Sources(u) : x \in Sources(u)' \cup pruned'
<1>1. \A u \in Reader : Sources(u) \subseteq CommentId \cup {"entry"}
  <2> SUFFICES ASSUME NEW u \in Reader, NEW i \in DOMAIN inbox[u]
               PROVE  inbox[u][i].source \in CommentId \cup {"entry"}
    BY DEF Sources
  <2>1. inbox[u] \in Seq(NoteType)
    BY DEF NoticeTypeOK
  <2>2. inbox[u][i] \in NoteType
    BY <2>1, ElementOfSeq
  <2> QED  BY <2>2 DEF NoteType
<1>2. \A x : x \in pruned' <=> x \in pruned \/ \E u \in Reader : x \in Sources(u) /\ x \notin Sources(u)'
  BY DEF Forget
<1> QED  BY <1>1, <1>2 DEF NoticeTypeOK

(* The sources of a box after a notice has been received. *)
LEMMA SourcesReceived ==
  ASSUME NoticeTypeOK, NEW u \in Reader, NEW n \in NoteType, ~n.read, NEW age,
         inbox'[u] = Received(inbox[u], n, age)
  PROVE  /\ inbox'[u] \in Seq(NoteType) /\ Len(inbox'[u]) <= InboxLimit
         /\ n.source \in Sources(u)'
         /\ \A x \in Sources(u)' : x = n.source \/ x \in Sources(u)
<1>1. inbox[u] \in Seq(NoteType) /\ Len(inbox[u]) <= InboxLimit
  BY DEF NoticeTypeOK
<1> DEFINE box == Received(inbox[u], n, age)
<1>2. /\ box \in Seq(NoteType) /\ Len(box) <= InboxLimit
      /\ \E i \in DOMAIN box : box[i].source = n.source
      /\ \A i \in DOMAIN box :
              \/ box[i].source = n.source
              \/ \E k \in DOMAIN inbox[u] : box[i] = inbox[u][k]
  BY <1>1, NoticeAssumption, Receiving
<1>3. inbox'[u] = box
  OBVIOUS
<1> HIDE DEF box
<1> QED  BY <1>2, <1>3 DEF Sources

LEMMA PostKeeps ==
  ASSUME NoticeSafe, NEW u \in Reader, NEW c \in CommentId,
         NEW p \in CommentId \cup {NoParent}, PostComment(u, c, p)
  PROVE  NoticeSafe'
<1>0. PICK r : r = Recipient(Root(p))
  OBVIOUS
<1> DEFINE told == Reachable(r, u)
<1> DEFINE n == Notice(IF p = NoParent THEN "brief_comment" ELSE "comment_reply", c)
<1> DEFINE row == [author |-> u, parent |-> Root(p), deleted |-> FALSE,
                   due |-> IF told THEN r ELSE "none"]
<1>1. NoticeTypeOK /\ CommentsAreTold
  BY DEF NoticeSafe
<1>2. PICK age : /\ comments' = [comments EXCEPT ![c] = row]
                 /\ inbox' = IF told THEN [inbox EXCEPT ![r] = Received(@, n, age)] ELSE inbox
  BY <1>0 DEF PostComment, Commit
<1>3. /\ n \in NoteType /\ ~n.read /\ n.source = c
  BY DEF Notice, NoteType
<1>4. told => r \in Reader
  BY <1>1 DEF Reachable, NoticeTypeOK
<1>5. Root(p) \in CommentId \cup {NoParent}
  BY <1>1, NoticeAssumption DEF Root, NoticeTypeOK, NoticeAssumption
<1>6. row \in [author : Reader \cup {"none"}, deleted : BOOLEAN,
       parent : CommentId \cup {NoParent}, due : Reader \cup {"none"}]
  BY <1>4, <1>5
<1>7. comments[c].due = "none"
  BY DEF PostComment, NoComment
<1>8. /\ row.due = "none" <=> ~told
      /\ row.due \in Reader <=> told
      /\ told => row.due = r
  BY <1>4, NoticeAssumption DEF NoticeAssumption
<1>9. Forget /\ UNCHANGED <<readers, entry, edits, noticeFaults>>
  BY DEF PostComment
<1> HIDE DEF told, n, row
<1>10. \A d \in CommentId : comments'[d].due = IF d = c THEN row.due ELSE comments[d].due
  BY <1>1, <1>2 DEF NoticeTypeOK
<1>11. \A v \in Reader : inbox'[v] = IF told /\ v = r THEN Received(inbox[v], n, age) ELSE inbox[v]
  BY <1>1, <1>2 DEF NoticeTypeOK
<1>12. /\ told => c \in Sources(r)'
       /\ \A v \in Reader : /\ inbox'[v] \in Seq(NoteType) /\ Len(inbox'[v]) <= InboxLimit
                            /\ \A x \in Sources(v)' : (told /\ v = r /\ x = c) \/ x \in Sources(v)
  <2>1. CASE ~told
    BY <1>1, <1>11, <2>1 DEF Sources, NoticeTypeOK
  <2>2. CASE told
    <3>1. /\ inbox'[r] \in Seq(NoteType) /\ Len(inbox'[r]) <= InboxLimit
          /\ n.source \in Sources(r)'
          /\ \A x \in Sources(r)' : x = n.source \/ x \in Sources(r)
      BY <1>1, <1>3, <1>4, <1>11, <2>2, SourcesReceived
    <3>2. ASSUME NEW v \in Reader, v # r
          PROVE  /\ inbox'[v] \in Seq(NoteType) /\ Len(inbox'[v]) <= InboxLimit
                 /\ Sources(v)' = Sources(v)
      BY <1>1, <1>11, <3>2 DEF Sources, NoticeTypeOK
    <3> QED  BY <1>3, <2>2, <3>1, <3>2
  <2> QED  BY <2>1, <2>2
<1>13. /\ pruned' \subseteq CommentId \cup {"entry"}
       /\ \A x \in pruned : x \in pruned'
       /\ \A v \in Reader : \A x \in Sources(v) : x \in Sources(v)' \cup pruned'
  BY <1>1, <1>9, Forgotten
<1>14. inbox' \in [Reader -> Seq(NoteType)]
  <2>1. inbox' = [v \in Reader |-> inbox'[v]]
    BY <1>1, <1>2 DEF NoticeTypeOK
  <2> QED  BY <1>12, <2>1
<1>15. NoticeTypeOK'
  BY <1>1, <1>2, <1>6, <1>9, <1>12, <1>13, <1>14 DEF NoticeTypeOK
<1>16. ASSUME NEW d \in CommentId, NEW v \in Reader, comments'[d].due = v
       PROVE  d \in Sources(v)' \cup pruned'
  <2>1. CASE d = c
    BY <1>8, <1>10, <1>12, <1>16, <2>1
  <2>2. CASE d # c
    <3>1. comments[d].due = v
      BY <1>10, <1>16, <2>2
    <3>2. d \in Sources(v) \cup pruned
      BY <1>1, <1>16, <3>1 DEF CommentsAreTold
    <3> QED  BY <1>13, <1>16, <3>1, <3>2
  <2> QED  BY <2>1, <2>2
<1>17. ASSUME NEW v \in Reader, NEW d \in CommentId, d \in Sources(v)'
       PROVE  comments'[d].due = v
  <2>1. CASE d = c
    <3>1. c \notin Sources(v)
      BY <1>1, <1>7, NoticeAssumption DEF CommentsAreTold, NoticeAssumption
    <3> QED  BY <1>8, <1>10, <1>12, <1>17, <2>1, <3>1
  <2>2. CASE d # c
    BY <1>1, <1>10, <1>12, <1>17, <2>2 DEF CommentsAreTold
  <2> QED  BY <2>1, <2>2
<1>18. CommentsAreTold'
  BY <1>16, <1>17 DEF CommentsAreTold
<1> QED  BY <1>15, <1>18 DEF NoticeSafe

(* Nothing is written to a comment, the boxes take no notice of a comment, and *)
(* what leaves them is remembered.                                             *)
LEMMA CommentsStayTold ==
  ASSUME NoticeSafe, \A c \in CommentId : comments'[c].due = comments[c].due,
         \A x \in pruned : x \in pruned',
         \A v \in Reader : \A x \in Sources(v) : x \in Sources(v)' \cup pruned',
         \A v \in Reader : \A x \in Sources(v)' : x = "entry" \/ x \in Sources(v)
  PROVE  CommentsAreTold'
<1>1. \A c \in CommentId : c # "entry"
  BY NoticeAssumption DEF NoticeAssumption
<1> QED  BY <1>1 DEF NoticeSafe, CommentsAreTold

LEMMA MentionKeeps ==
  ASSUME NoticeSafe, NEW u \in Reader, NEW named \in SUBSET Reader, Mention(u, named),
         UNCHANGED <<readers, comments>>, edits' \in 0 .. Edits
  PROVE  NoticeSafe'
<1> DEFINE mentioned == named \cap readers
<1> DEFINE n == Notice("journal_mention", "entry")
<1>1. NoticeTypeOK /\ Forget
  BY DEF NoticeSafe, Mention
<1>2. n \in NoteType /\ ~n.read /\ n.source = "entry"
  BY DEF Notice, NoteType
<1>3. /\ entry' \in [posted : BOOLEAN, mentions : SUBSET Reader, deleted : BOOLEAN]
      /\ noticeFaults' \in 0 .. NoticeFaults
  <2>1. \E m \in SUBSET Reader : entry' = [entry EXCEPT !.posted = TRUE, !.mentions = m]
    <3>1. mentioned \in SUBSET Reader /\ {} \in SUBSET Reader /\ entry.mentions \in SUBSET Reader
      BY <1>1 DEF NoticeTypeOK
    <3> QED  BY <3>1 DEF Mention
  <2>2. entry' \in [posted : BOOLEAN, mentions : SUBSET Reader, deleted : BOOLEAN]
    BY <1>1, <2>1 DEF NoticeTypeOK
  <2>3. noticeFaults' = noticeFaults \/ (noticeFaults < NoticeFaults /\ noticeFaults' = noticeFaults + 1)
    BY DEF Mention
  <2>4. noticeFaults' \in 0 .. NoticeFaults
    BY <1>1, <2>3, NoticeAssumption DEF NoticeTypeOK, NoticeAssumption
  <2> QED  BY <2>2, <2>4
<1> HIDE DEF n
<1>4. /\ inbox' = [v \in Reader |-> inbox'[v]]
      /\ \A v \in Reader : inbox'[v] = inbox[v] \/ \E age : inbox'[v] = Received(inbox[v], n, age)
  BY <1>1 DEF Mention, NoticeTypeOK, n
<1>5. ASSUME NEW v \in Reader
      PROVE  /\ inbox'[v] \in Seq(NoteType) /\ Len(inbox'[v]) <= InboxLimit
             /\ \A x \in Sources(v)' : x = "entry" \/ x \in Sources(v)
  <2>1. CASE inbox'[v] = inbox[v]
    BY <1>1, <2>1 DEF NoticeTypeOK, Sources
  <2>2. ASSUME NEW age, inbox'[v] = Received(inbox[v], n, age)
        PROVE  /\ inbox'[v] \in Seq(NoteType) /\ Len(inbox'[v]) <= InboxLimit
               /\ \A x \in Sources(v)' : x = "entry" \/ x \in Sources(v)
    BY <1>1, <1>2, <2>2, SourcesReceived
  <2> QED  BY <1>4, <2>1, <2>2
<1>6. /\ pruned' \subseteq CommentId \cup {"entry"}
      /\ \A x \in pruned : x \in pruned'
      /\ \A v \in Reader : \A x \in Sources(v) : x \in Sources(v)' \cup pruned'
  BY <1>1, Forgotten
<1>7. inbox' \in [Reader -> Seq(NoteType)]
  BY <1>4, <1>5
<1>8. NoticeTypeOK'
  BY <1>1, <1>3, <1>5, <1>6, <1>7 DEF NoticeTypeOK
<1>9. CommentsAreTold'
  BY <1>5, <1>6, CommentsStayTold
<1> QED  BY <1>8, <1>9 DEF NoticeSafe

LEMMA ReadKeeps ==
  ASSUME NoticeSafe, NEW u \in Reader, ReadNotices(u)
  PROVE  NoticeSafe'
<1>1. NoticeTypeOK /\ UNCHANGED <<readers, comments, entry, edits, pruned, noticeFaults>>
  BY DEF NoticeSafe, ReadNotices
<1>2. PICK some : inbox' = [inbox EXCEPT ![u] =
                   [i \in DOMAIN @ |-> IF @[i].source \in some
                                         THEN [@[i] EXCEPT !.read = TRUE] ELSE @[i]]]
  BY DEF ReadNotices
<1>3. ASSUME NEW v \in Reader
      PROVE  /\ inbox'[v] \in Seq(NoteType) /\ Len(inbox'[v]) <= InboxLimit
             /\ Sources(v)' = Sources(v)
  <2>1. inbox[v] \in Seq(NoteType) /\ Len(inbox[v]) <= InboxLimit
    BY <1>1 DEF NoticeTypeOK
  <2>2. CASE v = u
    <3> DEFINE ReadRow(i) == IF inbox[u][i].source \in some
                            THEN [inbox[u][i] EXCEPT !.read = TRUE] ELSE inbox[u][i]
    <3>1. inbox'[u] = [i \in DOMAIN inbox[u] |-> ReadRow(i)]
      BY <1>1, <1>2 DEF NoticeTypeOK
    <3>2. \A i \in DOMAIN inbox[u] : inbox[u][i] \in NoteType
      BY <2>1, <2>2, ElementOfSeq
    <3>3. \A i \in DOMAIN inbox[u] : ReadRow(i) \in NoteType /\ ReadRow(i).source = inbox[u][i].source
      BY <3>2 DEF NoteType
    <3> HIDE DEF ReadRow
    <3>4. DOMAIN inbox[u] = 1 .. Len(inbox[u]) /\ Len(inbox[u]) \in Nat
      BY <2>1, <2>2
    <3>5. inbox'[u] \in Seq(NoteType) /\ Len(inbox'[u]) = Len(inbox[u])
      BY <3>1, <3>3, <3>4
    <3>6. DOMAIN inbox'[u] = DOMAIN inbox[u]
          /\ \A i \in DOMAIN inbox[u] : inbox'[u][i].source = inbox[u][i].source
      BY <3>1, <3>3
    <3>7. Sources(u)' = Sources(u)
      BY <3>6 DEF Sources
    <3> QED  BY <2>1, <2>2, <3>5, <3>7
  <2>3. CASE v # u
    <3>1. inbox'[v] = inbox[v]
      BY <1>1, <1>2, <2>3 DEF NoticeTypeOK
    <3> QED  BY <2>1, <3>1 DEF Sources
  <2> QED  BY <2>2, <2>3
<1>4. inbox' = [v \in Reader |-> inbox'[v]]
  BY <1>1, <1>2 DEF NoticeTypeOK
<1>5. inbox' \in [Reader -> Seq(NoteType)]
  BY <1>3, <1>4
<1>6. NoticeTypeOK'
  BY <1>1, <1>3, <1>5 DEF NoticeTypeOK
<1>7. CommentsAreTold'
  BY <1>1, <1>3, CommentsStayTold
<1> QED  BY <1>6, <1>7 DEF NoticeSafe

LEMMA NoticesStep == NoticeSafe /\ [NoticeNext]_noticeVars => NoticeSafe'
<1> SUFFICES ASSUME NoticeSafe, [NoticeNext]_noticeVars PROVE NoticeSafe'
  OBVIOUS
<1>0. NoticeTypeOK /\ Edits \in Nat
  BY NoticeAssumption DEF NoticeSafe, NoticeAssumption
<1>1. ASSUME NEW u \in Reader, NEW c \in CommentId, NEW p \in CommentId \cup {NoParent},
             PostComment(u, c, p)
      PROVE  NoticeSafe'
  BY <1>1, PostKeeps
<1>2. ASSUME NEW c \in CommentId, DeleteComment(c)
      PROVE  NoticeSafe'
  <2>1. UNCHANGED <<readers, entry, edits, inbox, pruned, noticeFaults>>
    BY <1>2 DEF DeleteComment
  <2> DEFINE row == [comments[c] EXCEPT !.deleted = TRUE]
  <2> DEFINE Comment == [author : Reader \cup {"none"}, deleted : BOOLEAN,
                        parent : CommentId \cup {NoParent}, due : Reader \cup {"none"}]
  <2>a. comments \in [CommentId -> Comment]
    BY <1>0 DEF NoticeTypeOK
  <2>b. row \in Comment /\ row.due = comments[c].due
    BY <2>a
  <2>c. comments' = [comments EXCEPT ![c] = row]
    BY <1>2 DEF DeleteComment
  <2> HIDE DEF row, Comment
  <2>2. /\ comments' \in [CommentId -> Comment]
        /\ \A d \in CommentId : comments'[d].due = comments[d].due
    BY <2>a, <2>b, <2>c
  <2>d. NoticeTypeOK'
    BY <1>0, <2>1, <2>2 DEF NoticeTypeOK, Comment
  <2>3. CommentsAreTold'
    BY <2>1, <2>2, CommentsStayTold DEF Sources
  <2> QED  BY <2>d, <2>3 DEF NoticeSafe
<1>3. ASSUME NEW u \in Reader, NEW named \in SUBSET Reader,
             PostEntry(u, named) \/ EditEntry(u, named)
      PROVE  NoticeSafe'
  <2>1. edits' \in 0 .. Edits
    BY <1>0, <1>3 DEF PostEntry, EditEntry, NoticeTypeOK
  <2> QED  BY <1>3, <2>1, MentionKeeps DEF PostEntry, EditEntry
<1>4. ASSUME NEW u \in Reader, ReadNotices(u)
      PROVE  NoticeSafe'
  BY <1>4, ReadKeeps
<1>5. ASSUME (\E u \in Reader : Share(u)) \/ DropEntry \/ UNCHANGED noticeVars
      PROVE  NoticeSafe'
  <2>1. UNCHANGED <<comments, inbox, pruned>>
    BY <1>5 DEF Share, DropEntry, noticeVars
  <2>2. NoticeTypeOK'
    BY <1>0, <1>5 DEF Share, DropEntry, noticeVars, NoticeTypeOK
  <2>3. CommentsAreTold'
    BY <2>1, CommentsStayTold DEF Sources
  <2> QED  BY <2>2, <2>3 DEF NoticeSafe
<1> QED  BY <1>1, <1>2, <1>3, <1>4, <1>5 DEF NoticeNext

(* lib/notifications.ts: the inbox keeps its form and its limit. *)
THEOREM NoticeTypes == NoticeSpec => []NoticeTypeOK
<1>1. NoticeSafe => NoticeTypeOK
  BY DEF NoticeSafe
<1> QED  BY <1>1, NoticesStart, NoticesStep, PTL DEF NoticeSpec

(* comments/route.ts: a comment and its notice are written together, so that *)
(* neither is ever without the other.                                        *)
THEOREM ToldHolds == NoticeSpec => []CommentsAreTold
<1>1. NoticeSafe => CommentsAreTold
  BY DEF NoticeSafe
<1> QED  BY <1>1, NoticesStart, NoticesStep, PTL DEF NoticeSpec

------------------------------------------------------------------------------
(* Foreign keys *)

(* What the columns of a table may refer to: an account refers to nothing, a  *)
(* cleared column may be empty, and the three bare columns name an account or *)
(* the brief of a chat without a foreign key.                                 *)
KeyHolds(t, c, k) ==
  /\ t # "users"
  /\ k.del \in {"cascade", "clear", "refuse", "none"}
  /\ k.del = "clear" => k.null
  /\ k.del = "none" => /\ t \in {"briefs", "brief_chats"} /\ k.null = FALSE
                       /\ \/ c = "user" /\ k.to = "users"
                          \/ t = "brief_chats" /\ c = "brief" /\ k.to = "briefs"
  /\ t \in {"briefs", "brief_chats"} => k.del = "none"
  /\ t = "journal_decisions" /\ c = "successor" => k.to = "journal_decisions"

LEMMA GroupKeys ==
  ASSUME NEW g \in KeyGroups, NEW t \in DOMAIN g, NEW c \in DOMAIN g[t]
  PROVE  KeyHolds(t, c, g[t][c])
<1> USE DEF Owned, Noted, Bare, BriefRow, Reference, KeyHolds
<1>1. CASE g = BaseKeys   BY <1>1 DEF BaseKeys
<1>2. CASE g = LinkKeys   BY <1>2 DEF LinkKeys
<1>3. CASE g = JobKeys    BY <1>3 DEF JobKeys
<1>4. CASE g = HermesKeys BY SMTT(30), <1>4 DEF HermesKeys
<1>5. CASE g = TalkKeys   BY <1>5 DEF TalkKeys
<1>6. CASE g = EntryKeys  BY <1>6 DEF EntryKeys
<1>7. CASE g = RecordKeys BY SMTT(60), <1>7 DEF RecordKeys
<1> QED  BY <1>1, <1>2, <1>3, <1>4, <1>5, <1>6, <1>7 DEF KeyGroups

LEMMA KeyFacts ==
  ASSUME NEW t \in DOMAIN Keys, NEW c \in DOMAIN Keys[t]
  PROVE  KeyHolds(t, c, Keys[t][c])
<1>1. PICK g \in KeyGroups : t \in DOMAIN g
  BY DEF Keys
<1> DEFINE h == CHOOSE f \in KeyGroups : t \in DOMAIN f
<1>2. h \in KeyGroups /\ t \in DOMAIN h
  BY <1>1
<1>3. Keys[t] = h[t]
  BY <1>1 DEF Keys
<1> HIDE DEF h
<1> QED  BY <1>2, <1>3, GroupKeys

(* A table of rows: the columns of each live row, and no others. *)
Tabulated(table, here) ==
  /\ table = [s \in here |-> table[s]]
  /\ \A s \in here : table[s] = [c \in Columns(s) |-> table[s][c]]
RowsFormed ==
  /\ group \in RowGroup /\ Keeper \in Present /\ Present \subseteq group
  /\ gone \subseteq group
  /\ Tabulated(rows, Present)
(* Every column is empty where it may be, or names a row of its table: a live  *)
(* one, unless the column is bare.                                            *)
Names(s, c) ==
  \/ rows[s][c] = NoRow /\ KeysOf(s)[c].null
  \/ /\ rows[s][c] \in IF KeysOf(s)[c].del = "none" THEN Present \cup gone ELSE Present
     /\ TableOf[rows[s][c]] = KeysOf(s)[c].to
KeysHold == \A s \in Present : \A c \in Columns(s) : Names(s, c)
RowsSafe == RowsFormed /\ KeysHold
(* What one step does to the references: NothingDangles, of that step.        *)
NothingCutOff ==
  \A s \in Present' : \A c \in Columns(s) :
    Loose(s, c)' =>
      /\ KeysOf(s)[c].del = "none"
      /\ s \in Present => Loose(s, c) \/ (TableOf[s] = "brief_chats" /\ c = "brief")

(* The references of a row. *)
LEMMA RowKey ==
  ASSUME NEW s \in RowId, NEW c \in Columns(s)
  PROVE  KeyHolds(TableOf[s], c, KeysOf(s)[c])
<1>1. TableOf[s] \in DOMAIN Keys
  BY RowAssumption DEF RowAssumption
<1> QED  BY <1>1, KeyFacts DEF Columns, KeysOf

LEMMA RowsAreIds == ASSUME RowsFormed PROVE Present \subseteq RowId /\ group \subseteq RowId
BY RowAssumption DEF RowAssumption, RowsFormed

LEMMA RowsStart == RowInit => RowsSafe
<1> SUFFICES ASSUME RowInit PROVE RowsSafe
  OBVIOUS
<1>1. Present = {Keeper} /\ rows[Keeper] = << >> /\ group \in RowGroup /\ Keeper \in group
  BY RowAssumption DEF RowInit, RowAssumption, Present
<1>2. Keeper \in RowId /\ TableOf[Keeper] = "users"
  BY <1>1, RowAssumption DEF RowAssumption
<1>3. Columns(Keeper) = {}
  BY <1>2, RowKey DEF KeyHolds
<1>4. << >> = [c \in {} |-> rows[Keeper][c]]
  OBVIOUS
<1>5. Tabulated(rows, Present)
  BY <1>1, <1>3, <1>4 DEF Tabulated, RowInit
<1> QED  BY <1>1, <1>3, <1>5 DEF RowsSafe, RowsFormed, KeysHold, RowInit

LEMMA InsertKeeps ==
  ASSUME RowsSafe, NEW r \in group, Insert(r)
  PROVE  RowsSafe' /\ NothingCutOff
<1>1. PICK row \in [Columns(r) -> Present \cup gone \cup {NoRow}] :
        /\ \A c \in Columns(r) : row[c] \in Referents(r, c)
        /\ rows' = [s \in Present \cup {r} |-> IF s = r THEN row ELSE rows[s]]
  BY DEF Insert
<1>2. group' = group /\ gone' = gone /\ r \notin Present
  BY DEF Insert
<1>3. Present' = Present \cup {r}
  BY <1>1 DEF Present
<1>4. \A s \in Present' : rows'[s] = IF s = r THEN row ELSE rows[s]
  BY <1>1, <1>3
<1>5. \A s : Columns(s)' = Columns(s) /\ KeysOf(s)' = KeysOf(s)
  BY DEF Columns, KeysOf
<1>6. RowsFormed'
  BY <1>1, <1>2, <1>3, <1>4, <1>5 DEF RowsSafe, RowsFormed, Tabulated
<1>7. ASSUME NEW c \in Columns(r)
      PROVE  \/ row[c] = NoRow /\ KeysOf(r)[c].null
             \/ /\ row[c] \in IF KeysOf(r)[c].del = "none" THEN Present \cup gone ELSE Present
                /\ TableOf[row[c]] = KeysOf(r)[c].to
  BY <1>1, <1>7 DEF Referents
<1>8. KeysHold'
  BY <1>2, <1>3, <1>4, <1>5, <1>7 DEF KeysHold, Names, RowsSafe
<1>9. NothingCutOff
  BY <1>2, <1>3, <1>4, <1>5, <1>7 DEF NothingCutOff, Loose, KeysHold, Names, RowsSafe
<1> QED  BY <1>6, <1>8, <1>9 DEF RowsSafe

LEMMA SucceedKeeps ==
  ASSUME RowsSafe, NEW old \in group, NEW new \in group, Succeed(old, new)
  PROVE  RowsSafe' /\ NothingCutOff
<1>1. /\ old \in Present /\ new \in Present /\ group' = group /\ gone' = gone
      /\ TableOf[old] = "journal_decisions" /\ TableOf[new] = "journal_decisions"
      /\ rows' = [rows EXCEPT ![old].successor = new]
  BY DEF Succeed
<1> DEFINE row == [rows[old] EXCEPT !.successor = new]
<1>2. Present' = Present
  BY <1>1 DEF Present
<1>3. \A s \in Present : rows'[s] = IF s = old THEN row ELSE rows[s]
  BY <1>1 DEF Present
<1>4. /\ row = [c \in Columns(old) |-> row[c]]
      /\ \A c \in Columns(old) : row[c] = IF c = "successor" THEN new ELSE rows[old][c]
  BY <1>1 DEF RowsSafe, RowsFormed, Tabulated
<1>5. rows' = [s \in Present |-> rows'[s]]
  BY <1>1 DEF Present
<1>6. \A s : Columns(s)' = Columns(s) /\ KeysOf(s)' = KeysOf(s)
  BY DEF Columns, KeysOf
<1> HIDE DEF row
<1>7. RowsFormed'
  BY <1>1, <1>2, <1>3, <1>4, <1>5, <1>6 DEF RowsSafe, RowsFormed, Tabulated
<1>8. ASSUME NEW c \in Columns(old), c = "successor"
      PROVE  KeysOf(old)[c].to = "journal_decisions"
  BY <1>1, <1>8, RowKey, RowsAreIds DEF RowsSafe, KeyHolds
<1>9. KeysHold'
  BY <1>1, <1>2, <1>3, <1>4, <1>6, <1>8 DEF KeysHold, Names, RowsSafe
<1>10. NothingCutOff
  BY <1>1, <1>2, <1>3, <1>4, <1>6 DEF NothingCutOff, Loose, KeysHold, Names, RowsSafe
<1> QED  BY <1>7, <1>9, <1>10 DEF RowsSafe

(* What goes with a row is closed under the cascades, and in every closed set. *)
LEMMA DoomedIsClosed ==
  ASSUME RowsFormed, NEW r \in Present
  PROVE  /\ Doomed(r) \subseteq Present /\ r \in Doomed(r) /\ IsClosed(Doomed(r))
         /\ \A taken \in SUBSET Present : r \in taken /\ IsClosed(taken) => Doomed(r) \subseteq taken
BY DEF Doomed, IsClosed, Cascades

(* No account goes with another row: an account cascades from nothing. *)
LEMMA AccountsStay ==
  ASSUME RowsFormed, NEW r \in Present, NEW u \in Doomed(r), TableOf[u] = "users"
  PROVE  u = r
<1> DEFINE taken == {s \in Present : s = r \/ TableOf[s] # "users"}
<1>1. \A s \in Present : TableOf[s] = "users" => Columns(s) = {}
  BY RowKey, RowsAreIds DEF KeyHolds
<1>2. IsClosed(taken)
  BY <1>1 DEF IsClosed, Cascades
<1>3. Doomed(r) \subseteq taken
  BY <1>2, DoomedIsClosed
<1> QED  BY <1>3

(* A delete, from a table in which only the chats of a brief may name what is  *)
(* deleted in a bare column.                                                  *)
LEMMA DeleteKeeps ==
  ASSUME RowsSafe, NEW r \in Present, r # Keeper, ~Refused(r), group' = group,
         gone' = gone \cup Doomed(r),
         NEW table, Tabulated(table, Present), rows' = Without(r, table),
         \A s \in Present : \A c \in Columns(s) :
           IF KeysOf(s)[c].del = "none"
             THEN /\ table[s][c] \in Present \cup gone
                  /\ TableOf[table[s][c]] = KeysOf(s)[c].to
                  /\ \/ table[s][c] \in Present \ {r} /\ c = "user"
                     \/ c = "user" /\ Loose(s, c)
                     \/ TableOf[s] = "brief_chats" /\ c = "brief"
             ELSE table[s][c] = rows[s][c]
  PROVE  RowsSafe' /\ NothingCutOff
<1> DEFINE taken == Doomed(r)
<1>0. RowsFormed /\ KeysHold
  BY DEF RowsSafe
<1>1. /\ taken \subseteq Present /\ IsClosed(taken) /\ gone' = gone \cup taken
      /\ \A u \in taken : TableOf[u] = "users" => u = r
  BY <1>0, DoomedIsClosed, AccountsStay
<1>2. ~\E s \in Present \ taken : \E c \in Columns(s) :
          KeysOf(s)[c].del = "refuse" /\ rows[s][c] \in taken
  BY DEF Refused
<1>3. DOMAIN table = Present
  BY DEF Tabulated
<1>4. rows' = [s \in Present \ taken |->
                [c \in Columns(s) |->
                  IF KeysOf(s)[c].del = "clear" /\ table[s][c] \in taken THEN NoRow
                  ELSE table[s][c]]]
  BY <1>3 DEF Without
<1> HIDE DEF taken
<1>5. Present' = Present \ taken
  BY <1>4 DEF Present
<1>6. \A s \in Present \ taken :
        rows'[s] = [c \in Columns(s) |->
                     IF KeysOf(s)[c].del = "clear" /\ table[s][c] \in taken THEN NoRow
                     ELSE table[s][c]]
  BY <1>4
<1>7. \A s : Columns(s)' = Columns(s) /\ KeysOf(s)' = KeysOf(s)
  BY DEF Columns, KeysOf
<1>8. Keeper \notin taken
  BY <1>1, RowAssumption DEF RowAssumption
<1>9. Tabulated(rows', Present')
  <2>1. rows' = [s \in Present' |-> rows'[s]]
    BY <1>4, <1>5
  <2>2. \A s \in Present' : rows'[s] = [c \in Columns(s) |-> rows'[s][c]]
    BY <1>5, <1>6
  <2> QED  BY <2>1, <2>2 DEF Tabulated
<1>10. RowsFormed'
  BY <1>0, <1>1, <1>5, <1>7, <1>8, <1>9 DEF RowsFormed, Tabulated
<1>11. ASSUME NEW s \in Present \ taken, NEW c \in Columns(s)
       PROVE  /\ KeyHolds(TableOf[s], c, KeysOf(s)[c])
              /\ rows'[s][c] = IF KeysOf(s)[c].del = "clear" /\ table[s][c] \in taken THEN NoRow
                               ELSE table[s][c]
  <2>0. s \in RowId
    BY <1>0, RowsAreIds
  <2>1. KeyHolds(TableOf[s], c, KeysOf(s)[c])
    BY <2>0, <1>11, RowKey
  <2>2. rows'[s][c] = IF KeysOf(s)[c].del = "clear" /\ table[s][c] \in taken THEN NoRow
                      ELSE table[s][c]
    BY ZenonT(30), <1>6, <1>11
  <2> QED  BY <2>1, <2>2
<1>12. ASSUME NEW s \in Present \ taken, NEW c \in Columns(s), KeysOf(s)[c].del # "none"
       PROVE  \/ rows'[s][c] = NoRow /\ KeysOf(s)[c].null
              \/ /\ rows'[s][c] \in Present \ taken
                 /\ TableOf[rows'[s][c]] = KeysOf(s)[c].to
  <2>1. table[s][c] = rows[s][c]
    BY <1>12
  <2>2. \/ rows[s][c] = NoRow /\ KeysOf(s)[c].null
        \/ rows[s][c] \in Present /\ TableOf[rows[s][c]] = KeysOf(s)[c].to
    BY <1>0, <1>12 DEF KeysHold, Names
  <2>3. KeysOf(s)[c].del \in {"cascade", "refuse"} => rows[s][c] \notin taken
    BY <1>1, <1>2, <1>12 DEF IsClosed, Cascades
  <2>4. KeysOf(s)[c].del = "clear" => KeysOf(s)[c].null
    BY <1>11, <1>12 DEF KeyHolds
  <2>5. KeysOf(s)[c].del \in {"cascade", "clear", "refuse"}
    BY <1>11, <1>12 DEF KeyHolds
  <2> QED  BY <2>1, <2>2, <2>3, <2>4, <2>5, <1>11, <1>12
<1>13. ASSUME NEW s \in Present \ taken, NEW c \in Columns(s), KeysOf(s)[c].del = "none"
       PROVE  /\ rows'[s][c] = table[s][c]
              /\ rows'[s][c] \in Present \cup gone /\ TableOf[rows'[s][c]] = KeysOf(s)[c].to
              /\ rows'[s][c] \notin Present \ taken =>
                   Loose(s, c) \/ (TableOf[s] = "brief_chats" /\ c = "brief")
  <2>1. /\ table[s][c] \in Present \cup gone /\ TableOf[table[s][c]] = KeysOf(s)[c].to
        /\ \/ table[s][c] \in Present \ {r} /\ c = "user"
           \/ c = "user" /\ Loose(s, c)
           \/ TableOf[s] = "brief_chats" /\ c = "brief"
    BY <1>13
  <2>2. rows'[s][c] = table[s][c]
    BY <1>11, <1>13
  <2>3. c = "user" => KeysOf(s)[c].to = "users"
    BY <1>11, <1>13 DEF KeyHolds
  <2>4. c = "user" /\ table[s][c] \in Present \ {r} => table[s][c] \notin taken
    BY <1>1, <2>1, <2>3
  <2> QED  BY <2>1, <2>2, <2>4
<1>14. Present' \cup gone' = Present \cup gone
  BY <1>1, <1>5
<1>15. KeysHold'
  <2> SUFFICES ASSUME NEW s \in Present', NEW c \in Columns(s) PROVE Names(s, c)'
    BY <1>7 DEF KeysHold
  <2>1. CASE KeysOf(s)[c].del = "none"
    BY <1>5, <1>7, <1>13, <1>14, <2>1 DEF Names
  <2>2. CASE KeysOf(s)[c].del # "none"
    BY <1>5, <1>7, <1>12, <2>2 DEF Names
  <2> QED  BY <2>1, <2>2
<1>16. NothingCutOff
  <2> SUFFICES ASSUME NEW s \in Present', NEW c \in Columns(s), Loose(s, c)'
               PROVE  /\ KeysOf(s)[c].del = "none"
                      /\ Loose(s, c) \/ (TableOf[s] = "brief_chats" /\ c = "brief")
    BY DEF NothingCutOff
  <2>1. s \in Present \ taken /\ rows'[s][c] \notin (Present \ taken) \cup {NoRow}
    BY <1>5 DEF Loose
  <2>2. KeysOf(s)[c].del = "none"
    BY <1>12, <2>1
  <2> QED  BY <1>13, <2>1, <2>2
<1> QED  BY <1>10, <1>15, <1>16 DEF RowsSafe

LEMMA RowsStep == RowsSafe /\ [RowNext]_rowVars => RowsSafe' /\ (rowVars' = rowVars \/ NothingCutOff)
<1> SUFFICES ASSUME RowsSafe, [RowNext]_rowVars
             PROVE  RowsSafe' /\ (rowVars' = rowVars \/ NothingCutOff)
  OBVIOUS
<1>0. RowsFormed /\ KeysHold /\ Present \subseteq RowId
  BY RowsAreIds DEF RowsSafe
<1>1. ASSUME NEW r \in group, Insert(r) PROVE RowsSafe' /\ NothingCutOff
  BY <1>1, InsertKeeps
<1>2. ASSUME NEW old \in group, NEW new \in group, Succeed(old, new)
      PROVE  RowsSafe' /\ NothingCutOff
  BY <1>2, SucceedKeeps
<1>3. ASSUME NEW s \in Present, NEW c \in Columns(s)
      PROVE  KeyHolds(TableOf[s], c, KeysOf(s)[c]) /\ Names(s, c)
  BY <1>0, <1>3, RowKey DEF KeysHold
<1>4. ASSUME NEW u \in group, DeleteUserRow(u) PROVE RowsSafe' /\ NothingCutOff
  <2> DEFINE table == HandedOver(u)
             Handed(s) == TableOf[s] \in {"briefs", "brief_chats"} /\ rows[s].user = u
  <2>1. /\ u \in Present /\ u # Keeper /\ ~Refused(u) /\ TableOf[u] = "users"
        /\ group' = group /\ rows' = Without(u, table) /\ gone' = gone \cup Doomed(u)
    BY <1>4 DEF DeleteUserRow
  <2>2. table = [s \in Present |-> IF Handed(s) THEN [rows[s] EXCEPT !.user = Keeper]
                                                ELSE rows[s]]
    BY DEF HandedOver
  <2> HIDE DEF table
  <2>3. ASSUME NEW s \in Present
        PROVE  /\ table[s] = [c \in Columns(s) |-> table[s][c]]
               /\ \A c \in Columns(s) :
                    table[s][c] = IF Handed(s) /\ c = "user" THEN Keeper ELSE rows[s][c]
    <3>1. rows[s] = [c \in Columns(s) |-> rows[s][c]]
      BY <1>0, <2>3 DEF RowsFormed, Tabulated
    <3>2. table[s] = IF Handed(s) THEN [rows[s] EXCEPT !["user"] = Keeper] ELSE rows[s]
      BY <2>2, <2>3
    <3> HIDE DEF Handed
    <3> QED  BY <3>1, <3>2
  <2>4. Tabulated(table, Present)
    BY <2>2, <2>3 DEF Tabulated
  <2>5. ASSUME NEW s \in Present, NEW c \in Columns(s), KeysOf(s)[c].del = "none"
        PROVE  /\ table[s][c] \in Present \cup gone
               /\ TableOf[table[s][c]] = KeysOf(s)[c].to
               /\ \/ table[s][c] \in Present \ {u} /\ c = "user"
                  \/ c = "user" /\ Loose(s, c)
                  \/ TableOf[s] = "brief_chats" /\ c = "brief"
    <3>1. /\ TableOf[s] \in {"briefs", "brief_chats"} /\ KeysOf(s)[c].null = FALSE
          /\ \/ c = "user" /\ KeysOf(s)[c].to = "users"
             \/ TableOf[s] = "brief_chats" /\ c = "brief" /\ KeysOf(s)[c].to = "briefs"
      BY <1>3, <2>5 DEF KeyHolds
    <3>2. rows[s][c] \in Present \cup gone /\ TableOf[rows[s][c]] = KeysOf(s)[c].to
      BY <1>3, <2>5, <3>1 DEF Names
    <3>3. Keeper \in Present \ {u} /\ TableOf[Keeper] = "users"
      BY <1>0, <2>1, RowAssumption DEF RowsFormed, RowAssumption
    <3>4. CASE Handed(s) /\ c = "user"
      <4>1. table[s][c] = Keeper
        BY <2>3, <2>5, <3>4
      <4> QED  BY <3>1, <3>3, <3>4, <4>1
    <3>5. CASE ~(Handed(s) /\ c = "user")
      <4>1. table[s][c] = rows[s][c]
        BY <2>3, <2>5, <3>5
      <4>2. c = "user" => rows[s][c] # u
        BY <3>1, <3>5
      <4>3. rows[s][c] # NoRow
        BY <1>0, <3>2, RowAssumption DEF RowsFormed, RowAssumption
      <4> QED  BY <3>1, <3>2, <4>1, <4>2, <4>3 DEF Loose
    <3> QED  BY <3>4, <3>5
  <2>6. ASSUME NEW s \in Present, NEW c \in Columns(s), KeysOf(s)[c].del # "none"
        PROVE  table[s][c] = rows[s][c]
    <3>1. ~Handed(s)
      BY <1>3, <2>6 DEF KeyHolds
    <3> QED  BY <2>3, <2>6, <3>1
  <2> HIDE DEF Handed
  <2> QED  BY <2>1, <2>4, <2>5, <2>6, DeleteKeeps
<1>5. ASSUME NEW b \in group, DeleteBriefRow(b) PROVE RowsSafe' /\ NothingCutOff
  <2>1. /\ b \in Present /\ TableOf[b] = "briefs" /\ ~Refused(b) /\ group' = group
        /\ rows' = Without(b, rows) /\ gone' = gone \cup Doomed(b)
    BY <1>5 DEF DeleteBriefRow
  <2>2. b # Keeper
    BY <2>1, RowAssumption DEF RowAssumption
  <2>3. Tabulated(rows, Present)
    BY <1>0 DEF RowsFormed
  <2>4. ASSUME NEW s \in Present, NEW c \in Columns(s), KeysOf(s)[c].del = "none"
        PROVE  /\ rows[s][c] \in Present \cup gone
               /\ TableOf[rows[s][c]] = KeysOf(s)[c].to
               /\ \/ rows[s][c] \in Present \ {b} /\ c = "user"
                  \/ c = "user" /\ Loose(s, c)
                  \/ TableOf[s] = "brief_chats" /\ c = "brief"
    <3>1. /\ KeysOf(s)[c].null = FALSE
          /\ \/ c = "user" /\ KeysOf(s)[c].to = "users"
             \/ TableOf[s] = "brief_chats" /\ c = "brief"
      BY <1>3, <2>4 DEF KeyHolds
    <3>2. rows[s][c] \in Present \cup gone /\ TableOf[rows[s][c]] = KeysOf(s)[c].to
      BY <1>3, <2>4, <3>1 DEF Names
    <3>3. rows[s][c] # NoRow
      BY <1>0, <3>2, RowAssumption DEF RowsFormed, RowAssumption
    <3> QED  BY <2>1, <3>1, <3>2, <3>3 DEF Loose
  <2> QED  BY <2>1, <2>2, <2>3, <2>4, DeleteKeeps
<1>6. CASE UNCHANGED rowVars
  <2>1. rows' = rows /\ group' = group /\ gone' = gone
    BY <1>6 DEF rowVars
  <2>2. RowsFormed'
    BY <1>0, <2>1 DEF RowsFormed, Tabulated, Present, Columns, KeysOf
  <2>3. KeysHold'
    BY <1>0, <2>1 DEF KeysHold, Names, Present, Columns, KeysOf
  <2> QED  BY <1>6, <2>2, <2>3 DEF RowsSafe
<1> QED  BY <1>1, <1>2, <1>4, <1>5, <1>6 DEF RowNext

(* api/admin/users/[id], api/briefs/[id] and the foreign keys of lib/db.ts: no *)
(* foreign key loses its row, and no deletion cuts off a brief or a chat       *)
(* message from the account it had.                                            *)
THEOREM RowsHold == RowSpec => NothingDangles
<1>1. RowsSafe /\ [RowNext]_rowVars => [NothingCutOff]_rowVars
  BY RowsStep
<1>2. RowsSafe /\ [RowNext]_rowVars => RowsSafe'
  BY RowsStep
<1> QED  BY <1>1, <1>2, RowsStart, PTL DEF RowSpec, NothingDangles, NothingCutOff

------------------------------------------------------------------------------
(* Corrections of an evidence graph *)

(* There is no endless descent in the natural numbers. *)
LEMMA NatLtIsWellFounded ==
  IsWellFoundedOn({ss \in Nat \X Nat : ss[1] < ss[2]}, Nat)
BY NatLessThanWellFounded DEF OpToRel

(* The greatest of some places of a sequence. *)
LEMMA LastPlace ==
  ASSUME NEW n \in Nat, NEW S, S \subseteq 1 .. n, S # {}
  PROVE  \E m \in S : \A k \in S : k <= m
<1> DEFINE T == {n - k : k \in S}
           Lt == {ss \in Nat \X Nat : ss[1] < ss[2]}
<1>1. \A k \in S : k \in Nat /\ n - k \in Nat
  OBVIOUS
<1>2. T \subseteq Nat /\ T # {}
  BY <1>1
<1>3. PICK x \in T : \A y \in T : <<y, x>> \notin Lt
  BY <1>2, NatLtIsWellFounded, WFMin
<1>4. PICK m \in S : x = n - m
  BY <1>3
<1>5. \A k \in S : ~(n - k < n - m)
  BY <1>1, <1>2, <1>3, <1>4
<1> QED  BY <1>1, <1>5

(* Some of the rows of a collection, each in its place. *)
Rows(seq, n) == n \in Nat /\ DOMAIN seq \subseteq 1 .. n

LEMMA LastIs ==
  ASSUME NEW seq, NEW n, Rows(seq, n), NEW i \in DOMAIN seq,
         \A j \in DOMAIN seq : seq[j].id = seq[i].id => j <= i
  PROVE  LastOf(seq, seq[i].id) = seq[i]
<1> DEFINE k == CHOOSE k \in DOMAIN seq :
                  seq[k].id = seq[i].id /\ \A j \in DOMAIN seq : seq[j].id = seq[i].id => j <= k
<1>1. k \in DOMAIN seq /\ seq[k].id = seq[i].id /\ i <= k
  OBVIOUS
<1>2. k <= i /\ k \in Nat /\ i \in Nat
  BY <1>1 DEF Rows
<1>3. k = i
  BY <1>1, <1>2
<1> QED  BY <1>3 DEF LastOf

LEMMA LastExists ==
  ASSUME NEW seq, NEW n, Rows(seq, n), NEW id \in Ids(seq)
  PROVE  \E i \in DOMAIN seq :
           /\ seq[i].id = id /\ LastOf(seq, id) = seq[i]
           /\ \A j \in DOMAIN seq : seq[j].id = id => j <= i
<1> DEFINE S == {i \in DOMAIN seq : seq[i].id = id}
<1>1. S # {} /\ S \subseteq 1 .. n /\ n \in Nat
  BY DEF Ids, Items, Rows
<1>2. PICK i \in S : \A j \in S : j <= i
  BY <1>1, LastPlace
<1> QED  BY <1>2, LastIs

(* The rows of a document. *)
LEMMA DocumentRows ==
  ASSUME NEW g, IsDocument(g), NEW c \in Collections
  PROVE  /\ Rows(g[c], Len(g[c])) /\ DOMAIN g[c] = 1 .. Len(g[c])
<1>1. g[c] \in Seq(Items(g[c]))
  BY DEF IsDocument
<1> HIDE DEF IsDocument
<1> QED  BY <1>1 DEF Rows

Places(seq, id) == {k \in DOMAIN seq : seq[k].id = id}

(* What is refused anew, of the things judged, is a claim for its evidence or *)
(* a claim that is missed.                                                    *)
LEMMA NewErrors ==
  ASSUME NEW g, IsDocument(g), NEW h,
         \A c \in Collections : /\ Ids(h[c]) \subseteq Ids(g[c])
                                /\ \A id : Places(h[c], id) \in {{}, Places(g[c], id)},
         NEW error \in Errors(h) \ Errors(g),
         error[2] \in Ids(g.claims) \cup Ids(g.objects) \cup Ids(g.conflicts)
  PROVE  \/ error \in ClaimErrors(h) \ ClaimErrors(g)
         \/ \E x \in Items(h.objects) \cup Items(h.conflicts) :
               ~(x.claims \subseteq Ids(h.claims)) /\ error = <<"invented_claim_reference", x.id>>
<1>1. error \notin DuplicateErrors(h)
  <2> SUFFICES ASSUME error \in DuplicateErrors(h) PROVE FALSE
    OBVIOUS
  <2>0. PICK c \in Collections : \E id \in Ids(h[c]) :
          Cardinality(Places(h[c], id)) > 1 /\ error = <<"duplicate_id", id>>
    BY ZenonT(30) DEF DuplicateErrors, Places, Ids
  <2>1. PICK id \in Ids(h[c]) :
          Cardinality(Places(h[c], id)) > 1 /\ error = <<"duplicate_id", id>>
    BY <2>0
  <2>2. Places(h[c], id) = Places(g[c], id)
    <3>1. Places(h[c], id) \in {{}, Places(g[c], id)}
      OBVIOUS
    <3>2. Cardinality({}) = 0
      BY FS_EmptySet
    <3>3. Places(h[c], id) # {}
      BY <2>1, <3>2
    <3> QED  BY <3>1, <3>3
  <2>3. id \in Ids(g[c]) /\ Cardinality(Places(g[c], id)) > 1
    BY <2>1, <2>2
  <2> DEFINE Twice(d) == {<<"duplicate_id", id_1>> : id_1 \in
                {i \in Ids(g[d]) : Cardinality({k \in DOMAIN g[d] : g[d][k].id = i}) > 1}}
  <2>a. error \in Twice(c)
    BY <2>1, <2>3 DEF Places
  <2>b. DuplicateErrors(g) = UNION {Twice(d) : d \in Collections}
    BY DEF DuplicateErrors, Ids
  <2> HIDE DEF Twice
  <2>4. error \in DuplicateErrors(g)
    BY <2>a, <2>b
  <2> QED  BY <2>4 DEF Errors
<1>2. Ids(h.excerpts) \subseteq Ids(g.excerpts) /\ Ids(h.evidence) \subseteq Ids(g.evidence)
      /\ Ids(h.edges) \subseteq Ids(g.edges)
  BY DEF Collections
<1>3. /\ error[2] \notin Ids(g.excerpts) /\ error[2] \notin Ids(g.evidence)
      /\ error[2] \notin Ids(g.edges)
  BY DEF IsDocument
<1>4. error \notin ExcerptErrors(h)
  BY <1>2, <1>3 DEF ExcerptErrors, Ids
<1>5. error \notin LinkErrors(h)
  BY <1>2, <1>3 DEF LinkErrors, Ids
<1>6. CASE error \in ClaimErrors(h)
  BY <1>6 DEF Errors
<1>7. CASE error \in ReferenceErrors(h)
  <2>1. \A e \in Items(h.edges) : error # <<"edge_missing_endpoint", e.id>>
    BY <1>2, <1>3 DEF Ids
  <2> QED  BY <1>7, <2>1 DEF ReferenceErrors
<1> QED  BY <1>1, <1>4, <1>5, <1>6, <1>7 DEF Errors

(* A claim's faults rest on the two hops of each link that supports it. *)
LEMMA SameFaults ==
  ASSUME NEW g, NEW h, h.evidence = g.evidence, NEW c,
         \A l \in Supports(g, c) :
           /\ Traced(h, l) = Traced(g, l)
           /\ Traced(g, l) => /\ Origin(h, l) = Origin(g, l)
                              /\ LastOf(h.excerpts, l.excerpt) = LastOf(g.excerpts, l.excerpt)
  PROVE  VerifiedErrors(h, c) = VerifiedErrors(g, c) /\ Supports(h, c) = Supports(g, c)
<1>1. Supports(h, c) = Supports(g, c)
  BY DEF Supports
<1>2. LegacyOnly(h, c) = LegacyOnly(g, c)
  BY <1>1 DEF LegacyOnly
<1>3. ValidSupport(h, c) = ValidSupport(g, c)
  BY <1>1 DEF ValidSupport
<1>4. (\E l \in Supports(h, c) : Traced(h, l) /\ ~Origin(h, l).allowed)
       = (\E l \in Supports(g, c) : Traced(g, l) /\ ~Origin(g, l).allowed)
  BY <1>1
<1> QED  BY <1>1, <1>2, <1>3, <1>4 DEF VerifiedErrors

LEMMA ClaimRefused ==
  ASSUME NEW g, NEW h, h.evidence = g.evidence, Items(h.claims) \subseteq Items(g.claims),
         NEW error \in ClaimErrors(h) \ ClaimErrors(g)
  PROVE  \E c \in Items(g.claims) :
           error[2] = c.id /\ VerifiedErrors(h, c) # VerifiedErrors(g, c)
<1> DEFINE Faults(d, c) ==
      (IF c.provenance = "verified" THEN VerifiedErrors(d, c) ELSE {})
      \cup (IF c.confidence = "high" /\ \A l \in Supports(d, c) : l.strength = "weak"
            THEN {"high_confidence_without_strong_evidence"} ELSE {})
<1>0. PICK c \in Items(h.claims) : \E code \in Faults(h, c) : error = <<code, c.id>>
  BY DEF ClaimErrors
<1>1. PICK code \in Faults(h, c) : error = <<code, c.id>>
  BY <1>0
<1>2. c \in Items(g.claims) /\ code \notin Faults(g, c)
  BY <1>1 DEF ClaimErrors
<1>3. Supports(h, c) = Supports(g, c)
  BY DEF Supports
<1>4. VerifiedErrors(h, c) # VerifiedErrors(g, c)
  BY <1>1, <1>2, <1>3
<1> QED  BY <1>1, <1>2, <1>4

CorrectionSafe ==
  /\ graph \in Graphs
  /\ event # NoEvent =>
       /\ event.type \in DOMAIN CollectionOf
       /\ event.id \in Ids(graph[CollectionOf[event.type]])
       /\ impact = CascadeImpact(graph, event)

(* A correction takes rows away or marks them, each in its place. *)
LEMMA CorrectionTakes ==
  ASSUME NEW g, IsDocument(g), NEW h, NEW d \in Collections, NEW id,
         \/ h = [g EXCEPT ![d] = Excluding(g[d], id)]
         \/ d = "sources" /\ h = [g EXCEPT ![d] = Distrusting(g[d], id)]
  PROVE  \A c \in Collections :
           /\ Ids(h[c]) \subseteq Ids(g[c])
           /\ \A i : Places(h[c], i) \in {{}, Places(g[c], i)}
           /\ c # d => h[c] = g[c]
<1>1. \A c \in Collections : c # d => h[c] = g[c]
  BY DEF IsDocument
<1>2. CASE h = [g EXCEPT ![d] = Excluding(g[d], id)]
  <2>1. h[d] = Excluding(g[d], id)
    BY <1>2 DEF IsDocument
  <2>2. /\ DOMAIN h[d] = {j \in DOMAIN g[d] : g[d][j].id # id}
        /\ \A j \in DOMAIN h[d] : h[d][j] = g[d][j]
    BY <2>1 DEF Excluding
  <2>3. Ids(h[d]) \subseteq Ids(g[d])
    BY <2>2 DEF Ids, Items
  <2>4. \A i : i # id => Places(h[d], i) = Places(g[d], i)
    BY <2>2 DEF Places
  <2>5. Places(h[d], id) = {}
    BY <2>2 DEF Places
  <2> QED  BY <1>1, <2>3, <2>4, <2>5
<1>3. CASE d = "sources" /\ h = [g EXCEPT ![d] = Distrusting(g[d], id)]
  <2>1. h[d] = Distrusting(g[d], id)
    BY <1>3 DEF IsDocument
  <2>2. DOMAIN h[d] = DOMAIN g[d]
    BY <2>1 DEF Distrusting
  <2>3. ASSUME NEW j \in DOMAIN h[d] PROVE h[d][j].id = g[d][j].id
    <3>1. g[d][j] \in Items(g.sources)
      BY <1>3, <2>2, <2>3 DEF Items
    <3>2. g[d][j] = [id |-> g[d][j].id, subtype |-> g[d][j].subtype, allowed |-> g[d][j].allowed]
      BY <3>1 DEF IsDocument
    <3> QED  BY <2>1, <2>2, <2>3, <3>2 DEF Distrusting
  <2>4. Ids(h[d]) = Ids(g[d])
    BY <2>2, <2>3 DEF Ids, Items
  <2>5. \A i : Places(h[d], i) = Places(g[d], i)
    BY <2>2, <2>3 DEF Places
  <2> QED  BY <1>1, <2>4, <2>5
<1> QED  BY <1>2, <1>3

(* A claim none of whose links ends at the source is judged as before. *)
LEMMA SourceFaults ==
  ASSUME NEW g, IsDocument(g), NEW h, NEW s,
         h.evidence = g.evidence, h.excerpts = g.excerpts, h.sources = Distrusting(g.sources, s),
         NEW c \in Items(g.claims), VerifiedErrors(h, c) # VerifiedErrors(g, c)
  PROVE  \E e \in Items(g.excerpts) : e.source = s /\ c.id \in ClaimsOn(g, e.id)
<1> SUFFICES ASSUME \A e \in Items(g.excerpts) : e.source = s => c.id \notin ClaimsOn(g, e.id)
             PROVE  FALSE
  OBVIOUS
<1>1. /\ h.evidence = g.evidence /\ h.excerpts = g.excerpts
      /\ h.sources = Distrusting(g.sources, s)
  OBVIOUS
<1>2. DOMAIN h.sources = DOMAIN g.sources
  BY <1>1 DEF Distrusting
<1>3. ASSUME NEW j \in DOMAIN g.sources
      PROVE  /\ h.sources[j].id = g.sources[j].id
             /\ g.sources[j].id # s => h.sources[j] = g.sources[j]
  <2>1. g.sources[j] \in Items(g.sources)
    BY <1>3 DEF Items
  <2>2. g.sources[j] = [id |-> g.sources[j].id, subtype |-> g.sources[j].subtype,
                        allowed |-> g.sources[j].allowed]
    BY <2>1 DEF IsDocument
  <2> QED  BY <1>1, <1>3, <2>2 DEF Distrusting
<1>4. Ids(h.sources) = Ids(g.sources)
  BY <1>2, <1>3 DEF Ids, Items
<1>5. ASSUME NEW id \in Ids(g.sources), id # s
      PROVE  LastOf(h.sources, id) = LastOf(g.sources, id)
  <2>1. Rows(g.sources, Len(g.sources)) /\ Rows(h.sources, Len(g.sources))
    BY <1>2, DocumentRows DEF Rows, Collections
  <2>2. PICK i \in DOMAIN g.sources :
          /\ g.sources[i].id = id /\ LastOf(g.sources, id) = g.sources[i]
          /\ \A j \in DOMAIN g.sources : g.sources[j].id = id => j <= i
    BY <2>1, LastExists
  <2>3. h.sources[i].id = id /\ h.sources[i] = g.sources[i] /\ i \in DOMAIN h.sources
        /\ \A j \in DOMAIN h.sources : h.sources[j].id = id => j <= i
    BY <1>2, <1>3, <1>5, <2>2
  <2>4. LastOf(h.sources, h.sources[i].id) = h.sources[i]
    BY <2>1, <2>3, LastIs
  <2> QED  BY <2>2, <2>3, <2>4
<1>6. ASSUME NEW l \in Supports(g, c), Traced(g, l)
      PROVE  LastOf(g.excerpts, l.excerpt).source # s
  <2>1. Rows(g.excerpts, Len(g.excerpts)) /\ l.excerpt \in Ids(g.excerpts)
    BY <1>6, DocumentRows DEF Collections, Traced
  <2>2. PICK i \in DOMAIN g.excerpts :
          g.excerpts[i].id = l.excerpt /\ LastOf(g.excerpts, l.excerpt) = g.excerpts[i]
    BY <2>1, LastExists
  <2>3. g.excerpts[i] \in Items(g.excerpts)
    BY DEF Items
  <2>4. l.claim = c.id /\ l \in Items(g.evidence)
    BY DEF Supports
  <2>5. c.id \in ClaimsOn(g, l.excerpt)
    BY <2>4 DEF ClaimsOn, LinksTo
  <2> QED  BY <2>2, <2>3, <2>5
<1>7. ASSUME NEW l \in Supports(g, c)
      PROVE  /\ Traced(h, l) = Traced(g, l)
             /\ Traced(g, l) => /\ Origin(h, l) = Origin(g, l)
                                /\ LastOf(h.excerpts, l.excerpt) = LastOf(g.excerpts, l.excerpt)
  <2>1. Traced(h, l) = Traced(g, l)
    BY <1>1, <1>4 DEF Traced
  <2>2. Traced(g, l) => LastOf(g.excerpts, l.excerpt).source \in Ids(g.sources)
    BY DEF Traced
  <2> QED  BY <1>1, <1>5, <1>6, <1>7, <2>1, <2>2 DEF Origin
<1> QED  BY <1>1, <1>7, SameFaults

(* A claim without a link to the excerpt is judged as before. *)
LEMMA ExcerptFaults ==
  ASSUME NEW g, IsDocument(g), NEW h, NEW e,
         h.evidence = g.evidence, h.sources = g.sources, h.excerpts = Excluding(g.excerpts, e),
         NEW c \in Items(g.claims), VerifiedErrors(h, c) # VerifiedErrors(g, c)
  PROVE  c.id \in ClaimsOn(g, e)
<1> SUFFICES ASSUME c.id \notin ClaimsOn(g, e) PROVE FALSE
  OBVIOUS
<1>1. /\ h.evidence = g.evidence /\ h.sources = g.sources
      /\ h.excerpts = Excluding(g.excerpts, e)
  OBVIOUS
<1>2. /\ DOMAIN h.excerpts = {j \in DOMAIN g.excerpts : g.excerpts[j].id # e}
      /\ \A j \in DOMAIN h.excerpts : h.excerpts[j] = g.excerpts[j]
  BY <1>1 DEF Excluding
<1>3. Rows(g.excerpts, Len(g.excerpts)) /\ Rows(h.excerpts, Len(g.excerpts))
  BY <1>2, DocumentRows DEF Rows, Collections
<1>4. ASSUME NEW id \in Ids(g.excerpts), id # e
      PROVE  LastOf(h.excerpts, id) = LastOf(g.excerpts, id) /\ id \in Ids(h.excerpts)
  <2>1. PICK i \in DOMAIN g.excerpts :
          /\ g.excerpts[i].id = id /\ LastOf(g.excerpts, id) = g.excerpts[i]
          /\ \A j \in DOMAIN g.excerpts : g.excerpts[j].id = id => j <= i
    BY <1>3, LastExists
  <2>2. /\ i \in DOMAIN h.excerpts /\ h.excerpts[i] = g.excerpts[i]
        /\ \A j \in DOMAIN h.excerpts : h.excerpts[j].id = id => j <= i
    BY <1>2, <1>4, <2>1
  <2>3. LastOf(h.excerpts, h.excerpts[i].id) = h.excerpts[i]
    BY <1>3, <2>1, <2>2, LastIs
  <2> QED  BY <2>1, <2>2, <2>3 DEF Ids, Items
<1>5. Ids(h.excerpts) \subseteq Ids(g.excerpts)
  BY <1>2 DEF Ids, Items
<1>6. ASSUME NEW l \in Supports(g, c) PROVE l.excerpt # e
  BY <1>6 DEF Supports, ClaimsOn, LinksTo
<1>7. ASSUME NEW l \in Supports(g, c)
      PROVE  /\ Traced(h, l) = Traced(g, l)
             /\ Traced(g, l) => /\ Origin(h, l) = Origin(g, l)
                                /\ LastOf(h.excerpts, l.excerpt) = LastOf(g.excerpts, l.excerpt)
  BY <1>1, <1>4, <1>5, <1>6, <1>7 DEF Traced, Origin
<1> QED  BY <1>1, <1>7, SameFaults

LEMMA CorrectionStart == CorrectionInit => CorrectionSafe
BY DEF CorrectionInit, CorrectionSafe

LEMMA CorrectionStep == CorrectionSafe /\ [CorrectionNext]_correctionVars => CorrectionSafe'
<1> SUFFICES ASSUME CorrectionSafe, [CorrectionNext]_correctionVars PROVE CorrectionSafe'
  OBVIOUS
<1>1. ASSUME NEW type \in DOMAIN CollectionOf, NEW id \in Ids(graph[CollectionOf[type]]), Correct(type, id)
      PROVE  CorrectionSafe'
  BY <1>1 DEF Correct, CorrectionSafe
<1>2. CASE UNCHANGED correctionVars
  BY <1>2 DEF correctionVars, CorrectionSafe
<1> QED  BY <1>1, <1>2 DEF CorrectionNext

(* What each kind of correction reports. *)
LEMMA ReportedAtLeast ==
  ASSUME NEW g, NEW id
  PROVE  /\ \A o \in Items(g.objects) : id \in o.claims => o.id \in ClaimImpact(g, id).objects
         /\ \A k \in Items(g.conflicts) : id \in k.claims => k.id \in ClaimImpact(g, id).conflicts
         /\ ExcerptImpact(g, id).claims = ClaimsOn(g, id)
         /\ \A e \in Items(g.excerpts) :
              e.source = id => ClaimsOn(g, e.id) \subseteq SourceImpact(g, id).claims
<1>1. \A k \in Items(g.conflicts) : id \in k.claims => k.id \in ConflictsOn(g, {id})
  BY DEF ConflictsOn
<1>2. \A o \in Items(g.objects) : id \in o.claims =>
        o.id \in {x.id : x \in {y \in Items(g.objects) : id \in y.claims}}
  OBVIOUS
<1>3. ClaimImpact(g, id).conflicts = ConflictsOn(g, {id})
      /\ ClaimImpact(g, id).objects = {x.id : x \in {y \in Items(g.objects) : id \in y.claims}}
  BY DEF ClaimImpact, Untouched
<1>4. ExcerptImpact(g, id).claims = ClaimsOn(g, id)
  BY DEF ExcerptImpact, Untouched
<1>5. SourceImpact(g, id).claims =
        UNION {ClaimsOn(g, e) : e \in {x.id : x \in {y \in Items(g.excerpts) : y.source = id}}}
  BY DEF SourceImpact, Untouched
<1> QED  BY <1>1, <1>2, <1>3, <1>4, <1>5

LEMMA CorrectionComplete == CorrectionSafe => CascadeIsComplete
<1> SUFFICES ASSUME CorrectionSafe, event # NoEvent,
                    NEW error \in Errors(Corrected) \ Errors(graph),
                    error[2] \in Ids(graph.claims) \cup Ids(graph.objects) \cup Ids(graph.conflicts)
             PROVE  error[2] \in Reported
  BY DEF CascadeIsComplete
<1> DEFINE d == CollectionOf[event.type]
           h == Corrected
<1>1. IsDocument(graph)
  BY CorrectionAssumption DEF CorrectionSafe
<1>2. /\ event.type \in {"claim_marked_wrong", "source_marked_unreliable",
                         "evidence_excerpt_invalidated", "account_object_marked_wrong"}
      /\ impact = CascadeImpact(graph, event)
  BY DEF CorrectionSafe, CollectionOf
<1>3. d \in Collections /\ graph = [c \in Collections |-> graph[c]]
  BY <1>1, <1>2 DEF CollectionOf, Collections, IsDocument
<1>4. CASE event.type = "claim_marked_wrong"
  <2>1. h = [graph EXCEPT !["claims"] = Excluding(graph["claims"], event.id)]
    BY <1>3, <1>4 DEF Corrected, CollectionOf
  <2> HIDE DEF h
  <2>2. \A c \in Collections : c # "claims" => h[c] = graph[c]
    BY <1>3, <2>1
  <2>3. h.claims = Excluding(graph.claims, event.id)
    BY <1>3, <2>1 DEF Collections
  <2>4. Items(h.claims) = {c \in Items(graph.claims) : c.id # event.id}
    BY <2>3 DEF Excluding, Items
  <2>5. /\ h.evidence = graph.evidence /\ h.excerpts = graph.excerpts /\ h.sources = graph.sources
        /\ h.objects = graph.objects /\ h.conflicts = graph.conflicts
    BY <2>2 DEF Collections
  <2>6. \A c : VerifiedErrors(h, c) = VerifiedErrors(graph, c)
    <3> TAKE c
    <3> QED  BY <2>5, SameFaults DEF Traced, Origin
  <2>7. PICK x \in Items(graph.objects) \cup Items(graph.conflicts) :
          ~(x.claims \subseteq Ids(h.claims)) /\ error = <<"invented_claim_reference", x.id>>
    <3>1. error \notin ClaimErrors(h) \ ClaimErrors(graph)
      BY <2>4, <2>5, <2>6, ClaimRefused
    <3>2. "claims" \in Collections
      BY DEF Collections
    <3>3. \A c \in Collections : /\ Ids(h[c]) \subseteq Ids(graph[c])
                                  /\ \A i : Places(h[c], i) \in {{}, Places(graph[c], i)}
      BY <1>1, <2>1, <3>2, CorrectionTakes
    <3>4. error \in Errors(h) \ Errors(graph)
      BY DEF h
    <3> QED  BY <1>1, <2>5, <3>1, <3>3, <3>4, NewErrors
  <2>8. event.id \in x.claims \/ ~(x.claims \subseteq Ids(graph.claims))
    BY <2>4, <2>7 DEF Ids
  <2>9. event.id \in x.claims
    BY <2>7, <2>8 DEF Errors, ReferenceErrors
  <2>10. impact = ClaimImpact(graph, event.id)
    BY <1>2, <1>4 DEF CascadeImpact
  <2> QED  BY <2>7, <2>9, <2>10, ReportedAtLeast DEF Reported
<1>5. ASSUME event.type # "claim_marked_wrong"
      PROVE  /\ h.evidence = graph.evidence /\ h.claims = graph.claims
             /\ error \in ClaimErrors(h) \ ClaimErrors(graph)
  <2>1. d # "claims" /\ d # "evidence" /\ d # "conflicts"
    BY <1>2, <1>5 DEF CollectionOf
  <2>2. \/ h = [graph EXCEPT ![d] = Excluding(graph[d], event.id)]
        \/ d = "sources" /\ h = [graph EXCEPT ![d] = Distrusting(graph[d], event.id)]
    <3>1. CASE event.type = "source_marked_unreliable"
      BY <3>1 DEF Corrected, CollectionOf
    <3>2. CASE event.type # "source_marked_unreliable"
      BY <3>2 DEF Corrected
    <3> QED  BY <3>1, <3>2
  <2> HIDE DEF h, d
  <2>3. \A c \in Collections : c # d => h[c] = graph[c]
    BY <1>1, <1>3, <2>2, CorrectionTakes
  <2>4. h.evidence = graph.evidence /\ h.claims = graph.claims /\ h.conflicts = graph.conflicts
    BY <2>1, <2>3 DEF Collections
  <2>5. Items(h.objects) \subseteq Items(graph.objects)
    <3>1. CASE d = "objects"
      <4>1. h.objects = Excluding(graph.objects, event.id)
        BY <1>3, <2>2, <3>1
      <4> QED  BY <4>1 DEF Excluding, Items
    <3>2. CASE d # "objects"
      BY <2>3, <3>2 DEF Collections
    <3> QED  BY <3>1, <3>2
  <2>6. \A x \in Items(h.objects) \cup Items(h.conflicts) :
          ~(x.claims \subseteq Ids(h.claims)) => error # <<"invented_claim_reference", x.id>>
    BY <2>4, <2>5 DEF Errors, ReferenceErrors
  <2>7. error \in ClaimErrors(h) \ ClaimErrors(graph)
    <3>1. \A c \in Collections : /\ Ids(h[c]) \subseteq Ids(graph[c])
                                  /\ \A i : Places(h[c], i) \in {{}, Places(graph[c], i)}
      BY <1>1, <1>3, <2>2, CorrectionTakes
    <3>2. error \in Errors(h) \ Errors(graph)
      BY DEF h
    <3>3. \/ error \in ClaimErrors(h) \ ClaimErrors(graph)
          \/ \E x \in Items(h.objects) \cup Items(h.conflicts) :
               ~(x.claims \subseteq Ids(h.claims)) /\ error = <<"invented_claim_reference", x.id>>
      BY <1>1, <3>1, <3>2, NewErrors
    <3> QED  BY <2>6, <3>3
  <2> QED  BY <2>4, <2>7
<1>6. ASSUME event.type # "claim_marked_wrong"
      PROVE  \E c \in Items(graph.claims) :
               error[2] = c.id /\ VerifiedErrors(h, c) # VerifiedErrors(graph, c)
  BY <1>5, <1>6, ClaimRefused
<1>7. CASE event.type = "source_marked_unreliable"
  <2>0. h = [graph EXCEPT !["sources"] = Distrusting(graph.sources, event.id)]
    BY <1>7 DEF Corrected, CollectionOf
  <2> HIDE DEF h
  <2>1. /\ h.evidence = graph.evidence /\ h.excerpts = graph.excerpts
        /\ h.sources = Distrusting(graph.sources, event.id)
    BY <1>3, <2>0 DEF Collections
  <2>2. PICK e \in Items(graph.excerpts) : e.source = event.id /\ error[2] \in ClaimsOn(graph, e.id)
    <3>1. PICK c \in Items(graph.claims) :
            error[2] = c.id /\ VerifiedErrors(h, c) # VerifiedErrors(graph, c)
      BY <1>6, <1>7
    <3>2. \E e \in Items(graph.excerpts) : e.source = event.id /\ c.id \in ClaimsOn(graph, e.id)
      BY <1>1, <2>1, <3>1, SourceFaults
    <3> QED  BY <3>1, <3>2
  <2>3. impact = SourceImpact(graph, event.id)
    BY <1>2, <1>7 DEF CascadeImpact
  <2> QED  BY <2>2, <2>3, ReportedAtLeast DEF Reported
<1>8. CASE event.type = "evidence_excerpt_invalidated"
  <2>0. h = [graph EXCEPT !["excerpts"] = Excluding(graph.excerpts, event.id)]
    BY <1>8 DEF Corrected, CollectionOf
  <2> HIDE DEF h
  <2>1. /\ h.evidence = graph.evidence /\ h.sources = graph.sources
        /\ h.excerpts = Excluding(graph.excerpts, event.id)
    BY <1>3, <2>0 DEF Collections
  <2>2. error[2] \in ClaimsOn(graph, event.id)
    BY <1>1, <1>6, <1>8, <2>1, ExcerptFaults
  <2>3. impact = ExcerptImpact(graph, event.id)
    BY <1>2, <1>8 DEF CascadeImpact
  <2> QED  BY <2>2, <2>3, ReportedAtLeast DEF Reported
<1>9. CASE event.type = "account_object_marked_wrong"
  <2>1. h = [graph EXCEPT !["objects"] = Excluding(graph.objects, event.id)]
    BY <1>9 DEF Corrected, CollectionOf
  <2> HIDE DEF h
  <2>2. /\ h.evidence = graph.evidence /\ h.excerpts = graph.excerpts /\ h.sources = graph.sources
    BY <1>3, <2>1 DEF Collections
  <2>3. \A c : VerifiedErrors(h, c) = VerifiedErrors(graph, c)
    <3> TAKE c
    <3> QED  BY <2>2, SameFaults DEF Traced, Origin
  <2> QED  BY <1>6, <1>9, <2>3
<1> QED  BY <1>2, <1>4, <1>7, <1>8, <1>9

(* lib/accountGraph/validation.ts: the cascade report of a correction names *)
(* everything the correction makes the validator refuse.                     *)
THEOREM CascadeHolds == CorrectionSpec => []CascadeIsComplete
BY CorrectionStart, CorrectionStep, CorrectionComplete, PTL DEF CorrectionSpec
==============================================================================
