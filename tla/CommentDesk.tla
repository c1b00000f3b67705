----------------------------- MODULE CommentDesk -----------------------------
(***************************************************************************)
(* The discussion below a brief: the comment rows and their routes         *)
(* (app/api/briefs/[id]/comments), the assistant that drafts a text        *)
(* (ai-assist, lib/briefCommentsAi.ts) and one reader's section            *)
(* (CommentsSection.tsx), which keeps a text being composed, an edit, and  *)
(* requests that overlap: loads carry no number, so an older listing may   *)
(* come last.                                                              *)
(*                                                                         *)
(* Abstractions.  A text is the set of its origins: words the reader typed *)
(* and words of the machine.  Cutting the machine's words and pasting them *)
(* back is typing, and not modelled.  The accounts' rights are those of    *)
(* Accounts.tla: the reader here may comment.  Whom a comment is announced *)
(* to is in Notices.tla.                                                   *)
(***************************************************************************)
EXTENDS Naturals, Sequences, FiniteSets

CONSTANTS
  Myself, Another,       \* the reader of the section, and everybody else
  Moderator,        \* the accounts among them that may delete any comment
  Earlier,          \* the comments when the section is opened
  MaxRows,          \* bound: comments of the brief
  MaxActs,          \* bound: what the reader of the section does
  CommentUpsets     \* bound: what others do, and requests that fail

Word == {"own", "machine"}
Top == 0
CommentIndex == 1 .. MaxRows
CommentRow ==
  [author : {Myself, Another}, parent : {Top} \cup CommentIndex, words : SUBSET Word,
   ai : BOOLEAN, recent : BOOLEAN, deleted : BOOLEAN]

ASSUME CommentAssumption ==
  /\ Myself # Another /\ Moderator \subseteq {Myself, Another}
  /\ Earlier \in Seq(CommentRow) /\ Len(Earlier) \in 0 .. MaxRows
  /\ MaxRows \in Nat /\ MaxActs \in Nat /\ CommentUpsets \in Nat
  \* The same handlers wrote the comments that are there.
  /\ \A c \in DOMAIN Earlier :
       /\ "machine" \in Earlier[c].words => Earlier[c].ai
       /\ Earlier[c].parent # Top =>
            Earlier[c].parent < c /\ Earlier[Earlier[c].parent].parent = Top

VARIABLES
  commentRows,   \* the rows, by time
  section,       \* what the section shows and holds
  posting,       \* the request of Post, until the load after it
  drafting,      \* the request of the assistant
  patching,      \* the request of Save, checked and then written
  loads,         \* the loads asked for, and the listings on their way
  acts, commentUpsets

commentVars ==
  <<commentRows, section, posting, drafting, patching, loads, acts, commentUpsets>>

Nothing == [stage |-> "none"]
CommentInit ==
  /\ commentRows = Earlier
  /\ section = [shown |-> << >>, text |-> {}, ai |-> FALSE, parent |-> Top,
                editing |-> Top, edit |-> {}, link |-> Top, landed |-> FALSE]
  /\ posting = Nothing /\ drafting = Nothing /\ patching = Nothing
  /\ loads = [asked |-> TRUE, listings |-> {}]
  /\ acts = 0 /\ commentUpsets = 0

Upset == commentUpsets < CommentUpsets /\ commentUpsets' = commentUpsets + 1
Works == UNCHANGED commentUpsets
Acts == acts < MaxActs /\ acts' = acts + 1

-----------------------------------------------------------------------------
(* The rows. *)

Added(author, parent, words, ai) ==
  [author |-> author, parent |-> parent, words |-> words, ai |-> ai,
   recent |-> TRUE, deleted |-> FALSE]

\* One level only: a reply to a reply hangs from the comment on top.
Anchor(parent) ==
  IF parent = Top \/ commentRows[parent].parent = Top THEN parent ELSE commentRows[parent].parent

Insert(author, parent, words, ai) ==
  /\ Len(commentRows) < MaxRows
  /\ commentRows' = Append(commentRows, Added(author, Anchor(parent), words, ai))
Mark(c) == commentRows' = [commentRows EXCEPT ![c].deleted = TRUE]

\* DELETE: the author's or a moderator's; a deleted comment is left as it is.
MayDelete(who, c) ==
  commentRows[c].deleted \/ commentRows[c].author = who \/ who \in Moderator

\* The comments of the others, and the end of the edit window.
OthersPost(parent) ==
  /\ Insert(Another, parent, {"own"}, FALSE)
  /\ Upset
  /\ UNCHANGED <<section, posting, drafting, patching, loads, acts>>
OthersDelete(c) ==
  /\ MayDelete(Another, c) /\ ~commentRows[c].deleted /\ Mark(c)
  /\ Upset
  /\ UNCHANGED <<section, posting, drafting, patching, loads, acts>>
WindowCloses(c) ==
  /\ commentRows[c].author = Myself /\ commentRows[c].recent
  /\ commentRows' = [commentRows EXCEPT ![c].recent = FALSE]
  /\ Upset
  /\ UNCHANGED <<section, posting, drafting, patching, loads, acts>>

-----------------------------------------------------------------------------
(* The list.  The text of a deleted comment stays in its row and leaves the   *)
(* listing; all else of the row is listed.                                    *)

AuthenticatedDto(r) == IF r.deleted THEN [r EXCEPT !.words = {}] ELSE r
ListComments == [c \in DOMAIN commentRows |-> AuthenticatedDto(commentRows[c])]

LoadComments == loads' = [loads EXCEPT !.asked = TRUE]
ReadList ==
  /\ loads.asked
  /\ loads' = [asked |-> FALSE, listings |-> loads.listings \cup {ListComments}]
  /\ UNCHANGED <<commentRows, section, posting, drafting, patching, acts, commentUpsets>>

\* The Post button waits for a load; the other handlers have let go of theirs.
Waited == posting' = IF posting.stage = "loading" THEN Nothing ELSE posting

\* The effect runs again: the comment the address names is scrolled to, once.
Show(s, rows) ==
  [s EXCEPT !.shown = rows, !.landed = @ \/ s.link \in DOMAIN rows]

ListArrives(rows) ==
  /\ section' = Show(section, rows) /\ loads' = [loads EXCEPT !.listings = @ \ {rows}] /\ Waited
  /\ UNCHANGED <<commentRows, drafting, patching, acts, commentUpsets>>
ListFails ==
  /\ loads.asked /\ Upset /\ loads' = [loads EXCEPT !.asked = FALSE]
  /\ Waited
  /\ UNCHANGED <<commentRows, section, drafting, patching, acts>>

\* The address names a comment, by hand, from the bell or from a mail.
FollowLink(c) ==
  /\ section.link # c \/ ~section.landed
  /\ section' = [section EXCEPT !.link = c, !.landed = c \in DOMAIN section.shown]
  /\ Acts
  /\ UNCHANGED <<commentRows, posting, drafting, patching, loads, commentUpsets>>

-----------------------------------------------------------------------------
(* Composing and posting. *)

\* A slip: what is typed over a draft is taken for the reader's own.
ComposedAsOwn(s, words) == [s EXCEPT !.text = words, !.ai = FALSE]
\* Words typed into a draft leave it the machine's, until the text is cleared.
Composed(s, words) == [s EXCEPT !.text = words, !.ai = @ /\ words # {}]

Compose ==
  /\ Acts
  /\ \E words \in {section.text \cup {"own"}, {}} : section' = Composed(section, words)
  /\ UNCHANGED <<commentRows, posting, drafting, patching, loads, commentUpsets>>

ReplyTo(c) ==
  /\ ~section.shown[c].deleted
  /\ section' = [section EXCEPT !.parent =
                   IF section.shown[c].parent = Top THEN c ELSE section.shown[c].parent]
  /\ Acts
  /\ UNCHANGED <<commentRows, posting, drafting, patching, loads, commentUpsets>>
CancelReply ==
  /\ section.parent # Top /\ section' = [section EXCEPT !.parent = Top]
  /\ Acts
  /\ UNCHANGED <<commentRows, posting, drafting, patching, loads, commentUpsets>>

Submit ==
  /\ section.text # {} /\ posting = Nothing
  /\ posting' = [stage |-> "sent", words |-> section.text, parent |-> section.parent,
                 ai |-> section.ai]
  /\ Acts
  /\ UNCHANGED <<commentRows, section, drafting, patching, loads, commentUpsets>>
PostComment ==
  /\ posting.stage = "sent"
  /\ Insert(Myself, posting.parent, posting.words, posting.ai)
  /\ posting' = [stage |-> "posted"]
  /\ UNCHANGED <<section, drafting, patching, loads, acts, commentUpsets>>
PostAnswered ==
  /\ posting.stage = "posted"
  /\ section' = [section EXCEPT !.text = {}, !.parent = Top, !.ai = FALSE]
  /\ posting' = [stage |-> "loading"] /\ LoadComments
  /\ UNCHANGED <<commentRows, drafting, patching, acts, commentUpsets>>
\* Before the row is written, or the answer to it is lost: the text is kept.
PostFails ==
  /\ posting.stage \in {"sent", "posted"} /\ Upset /\ posting' = Nothing
  /\ UNCHANGED <<commentRows, section, drafting, patching, loads, acts>>

-----------------------------------------------------------------------------
(* The assistant: its text takes the place of the one being composed. *)

AskAssistant ==
  /\ drafting = Nothing /\ drafting' = [stage |-> "asked"]
  /\ Acts
  /\ UNCHANGED <<commentRows, section, posting, patching, loads, commentUpsets>>

\* The provider's permit may be refused, its call may fail; a text of nothing
\* becomes a text that says so.
RunAssist ==
  /\ drafting.stage = "asked"
  /\ drafting' = [stage |-> "drafted"]
  /\ UNCHANGED <<commentRows, section, posting, patching, loads, acts, commentUpsets>>
AssistAnswered ==
  /\ drafting.stage = "drafted"
  /\ section' = [section EXCEPT !.text = {"machine"}, !.ai = TRUE]
  /\ drafting' = Nothing
  /\ UNCHANGED <<commentRows, posting, patching, loads, acts, commentUpsets>>
AssistFails ==
  /\ drafting # Nothing /\ Upset /\ drafting' = Nothing
  /\ UNCHANGED <<commentRows, section, posting, patching, loads, acts>>

-----------------------------------------------------------------------------
(* Editing and deleting. *)

StartEdit(c) ==
  /\ section.shown[c].author = Myself /\ ~section.shown[c].deleted
  /\ commentRows[c].recent /\ section.editing # c
  /\ section' = [section EXCEPT !.editing = c, !.edit = section.shown[c].words]
  /\ Acts
  /\ UNCHANGED <<commentRows, posting, drafting, patching, loads, commentUpsets>>
TypeEdit ==
  /\ section.editing # Top /\ Acts
  /\ \E words \in {section.edit \cup {"own"}, {}} :
       section' = [section EXCEPT !.edit = words]
  /\ UNCHANGED <<commentRows, posting, drafting, patching, loads, commentUpsets>>
EditEnds(s) == [s EXCEPT !.editing = Top, !.edit = {}]
CancelEdit ==
  /\ section.editing # Top /\ section' = EditEnds(section)
  /\ Acts
  /\ UNCHANGED <<commentRows, posting, drafting, patching, loads, commentUpsets>>

SaveEdit ==
  /\ section.editing # Top /\ section.edit # {} /\ patching = Nothing
  /\ patching' = [stage |-> "sent", id |-> section.editing, words |-> section.edit]
  /\ Acts
  /\ UNCHANGED <<commentRows, section, posting, drafting, loads, commentUpsets>>

\* PATCH checks the row, then waits for the rest of the request: by the time it
\* writes, the comment may be deleted and the window closed.
CheckEdit ==
  /\ patching.stage = "sent"
  /\ LET r == commentRows[patching.id]
     IN patching' = IF r.author = Myself /\ ~r.deleted /\ r.recent
                      THEN [patching EXCEPT !.stage = "checked"] ELSE Nothing
  /\ UNCHANGED <<commentRows, section, posting, drafting, loads, acts, commentUpsets>>
WriteEdit ==
  /\ patching.stage = "checked"
  /\ commentRows' = [commentRows EXCEPT ![patching.id].words = patching.words]
  /\ patching' = [stage |-> "written"]
  /\ UNCHANGED <<section, posting, drafting, loads, acts, commentUpsets>>
EditAnswered ==
  /\ patching.stage = "written" /\ patching' = Nothing
  /\ section' = EditEnds(section) /\ LoadComments
  /\ UNCHANGED <<commentRows, posting, drafting, acts, commentUpsets>>
EditFails ==
  /\ patching # Nothing /\ Upset /\ patching' = Nothing
  /\ UNCHANGED <<commentRows, section, posting, drafting, loads, acts>>

\* Asked for, handled and answered in one step; the load after it is another,
\* and is missing when the answer is lost.
SoftDelete(c) ==
  /\ ~section.shown[c].deleted
  /\ MayDelete(Myself, c)
  /\ IF commentRows[c].deleted THEN UNCHANGED commentRows ELSE Mark(c)
  /\ \/ LoadComments /\ Works
     \/ Upset /\ UNCHANGED loads
  /\ Acts
  /\ UNCHANGED <<section, posting, drafting, patching>>

CommentNext ==
  \/ \E c \in {Top} \cup DOMAIN commentRows : OthersPost(c)
  \/ \E c \in DOMAIN commentRows : OthersDelete(c) \/ WindowCloses(c)
  \/ \E rows \in loads.listings : ListArrives(rows)
  \/ ReadList \/ ListFails
  \/ \E c \in CommentIndex : FollowLink(c)
  \/ \E c \in DOMAIN section.shown : ReplyTo(c) \/ StartEdit(c) \/ SoftDelete(c)
  \/ Compose \/ CancelReply
  \/ Submit \/ PostComment \/ PostAnswered \/ PostFails
  \/ AskAssistant \/ RunAssist \/ AssistAnswered \/ AssistFails
  \/ TypeEdit \/ CancelEdit \/ SaveEdit \/ CheckEdit \/ WriteEdit \/ EditAnswered \/ EditFails
CommentSpec == CommentInit /\ [][CommentNext]_commentVars

-----------------------------------------------------------------------------
(* Properties *)

\* Words of the machine are nowhere without the mark: not in a row, whoever has
\* edited it, not in a listing however old, nor in the text being composed
\* (CommentsSection.tsx: "they kept (or edited) the AI text").
MachineIsMarked ==
  /\ \A c \in DOMAIN commentRows : "machine" \in commentRows[c].words => commentRows[c].ai
  /\ \A c \in DOMAIN section.shown : "machine" \in section.shown[c].words => section.shown[c].ai
  /\ "machine" \in section.text => section.ai

\* A reply hangs from a comment on top, whatever listing its author answered
\* from (comments/route.ts: "One-level threading only").
RepliesAreAnchored ==
  \A c \in DOMAIN commentRows : commentRows[c].parent # Top =>
    commentRows[c].parent < c /\ commentRows[commentRows[c].parent].parent = Top

\* Who follows a link to a comment is taken to it as soon as it is shown, by
\* whichever of the overlapping loads.
LinkIsReached == section.link \in DOMAIN section.shown => section.landed

\* The discussion of a brief stays what its readers take it for.
DiscussionIsHonest == MachineIsMarked /\ RepliesAreAnchored /\ LinkIsReached
==============================================================================
