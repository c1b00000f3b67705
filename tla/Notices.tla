------------------------------- MODULE Notices -------------------------------
(***************************************************************************)
(* The comments of a brief, the mentions of a journal entry, and the inbox *)
(* they fill (lib/notifications.ts).  The mails sent beside it are fired   *)
(* and forgotten: no state of the program depends on them.                 *)
(*   readers   the accounts that can read the brief                        *)
(*   comments  the comment rows; due: the account it was meant for         *)
(*   entry     one journal entry and its mentions                          *)
(*   inbox     each account's notifications, newest first                  *)
(*   pruned    a history: the sources of notices the pruning took          *)
(***************************************************************************)
EXTENDS Naturals, Sequences, FiniteSets

CONSTANTS
  Reader, BriefOwner,    \* the accounts; the owner of the brief
  CommentId,
  InboxLimit,       \* MAX_PER_USER
  Edits,            \* edits of the entry in a run
  NoticeFaults      \* crashes in a run

NoParent == "top"

ASSUME NoticeAssumption ==
  /\ BriefOwner \in Reader /\ InboxLimit \in Nat \ {0}
  /\ Edits \in Nat /\ NoticeFaults \in Nat
  /\ {"entry", NoParent} \cap CommentId = {} /\ "none" \notin Reader

VARIABLES readers, comments, entry, edits, inbox, pruned, noticeFaults
noticeVars == <<readers, comments, entry, edits, inbox, pruned, noticeFaults>>

NoComment == [author |-> "none", parent |-> NoParent, deleted |-> FALSE, due |-> "none"]

NoticeInit ==
  /\ readers = Reader
  /\ comments = [c \in CommentId |-> NoComment]
  /\ entry = [posted |-> FALSE, mentions |-> {}, deleted |-> FALSE] /\ edits = 0
  /\ inbox = [u \in Reader |-> << >>] /\ pruned = {}
  /\ noticeFaults = 0

Notice(type, source) == [type |-> type, source |-> source, read |-> FALSE]

\* INSERT OR IGNORE under UNIQUE (user, type, source), then the pruning: the
\* read ones past their age, and all but the newest InboxLimit.
Pruned(box, age) ==
  LET kept == {i \in DOMAIN box : i <= InboxLimit /\ (box[i].read => i <= age)}
  IN [i \in 1 .. Cardinality(kept) |->
        box[CHOOSE k \in kept : Cardinality({j \in kept : j <= k}) = i]]
Received(box, n, age) ==
  IF \E i \in DOMAIN box : box[i].type = n.type /\ box[i].source = n.source
    THEN box ELSE Pruned(<<n>> \o box, age)

Sources(u) == {inbox[u][i].source : i \in DOMAIN inbox[u]}
Forget == pruned' = pruned \cup UNION {Sources(u) \ Sources(u)' : u \in Reader}

\* Never oneself, never an account that cannot read the brief (or is disabled,
\* which comes to the same).
Reachable(u, actor) == u # actor /\ u \in readers

\* Replies hang from the top-level comment; it is its author who is told.
Root(p) == IF p = NoParent THEN NoParent
           ELSE IF comments[p].parent = NoParent THEN p ELSE comments[p].parent
Recipient(root) == IF root = NoParent THEN BriefOwner ELSE comments[root].author

\* A slip: two transactions, and a failure between them.
CommitUnbundled(c, row, box) ==
  comments' = [comments EXCEPT ![c] = row] /\ inbox' \in {box, inbox}
\* The comment and its notification, in one transaction.
Commit(c, row, box) == comments' = [comments EXCEPT ![c] = row] /\ inbox' = box

PostComment(u, c, p) ==
  /\ u \in readers /\ comments[c] = NoComment
  /\ p # NoParent => comments[p] # NoComment
  /\ LET r == Recipient(Root(p))
         told == Reachable(r, u)
         n == Notice(IF p = NoParent THEN "brief_comment" ELSE "comment_reply", c)
     IN \E age \in 1 .. InboxLimit :
          Commit(c, [author |-> u, parent |-> Root(p), deleted |-> FALSE,
                     due |-> IF told THEN r ELSE "none"],
                 IF told THEN [inbox EXCEPT ![r] = Received(@, n, age)] ELSE inbox)
  /\ Forget
  /\ UNCHANGED <<readers, entry, edits, noticeFaults>>

\* Soft, by the author or an admin: the row and its replies stay, and what was
\* told of it keeps its place without an excerpt.
DeleteComment(c) ==
  /\ comments[c] # NoComment /\ ~comments[c].deleted
  /\ comments' = [comments EXCEPT ![c].deleted = TRUE]
  /\ UNCHANGED <<readers, entry, edits, inbox, pruned, noticeFaults>>

\* The mentions are replaced by the readers the text names, and each account new
\* among them is told: statements of their own, so that a crash leaves an entry
\* whose mentions nobody heard of.
Mention(author, named) ==
  LET mentioned == named \cap readers
      new == {u \in mentioned \ entry.mentions : Reachable(u, author)}
      n == Notice("journal_mention", "entry")
  IN
     /\ \/ /\ entry' = [entry EXCEPT !.posted = TRUE, !.mentions = mentioned]
           /\ \E age \in 1 .. InboxLimit :
                inbox' = [u \in Reader |-> IF u \in new THEN Received(inbox[u], n, age)
                                           ELSE inbox[u]]
           /\ UNCHANGED noticeFaults
        \/ /\ noticeFaults < NoticeFaults /\ noticeFaults' = noticeFaults + 1
           /\ \E m \in {entry.mentions, {}, mentioned} :
                entry' = [entry EXCEPT !.posted = TRUE, !.mentions = m]
           /\ UNCHANGED inbox
     /\ Forget

PostEntry(u, named) ==
  /\ ~entry.posted /\ u \in readers
  /\ Mention(u, named)
  /\ UNCHANGED <<readers, comments, edits>>

EditEntry(u, named) ==
  /\ entry.posted /\ ~entry.deleted /\ u \in readers
  /\ edits < Edits /\ edits' = edits + 1
  /\ Mention(u, named)
  /\ UNCHANGED <<readers, comments>>

DropEntry ==
  /\ entry.posted /\ ~entry.deleted
  /\ entry' = [entry EXCEPT !.deleted = TRUE]
  /\ UNCHANGED <<readers, comments, edits, inbox, pruned, noticeFaults>>

\* POST /api/notifications/read, by ids or for all: of those the account can see.
ReadNotices(u) ==
  /\ u \in readers
  /\ \E some \in SUBSET Sources(u) :
       inbox' = [inbox EXCEPT ![u] =
                   [i \in DOMAIN @ |-> IF @[i].source \in some
                                         THEN [@[i] EXCEPT !.read = TRUE] ELSE @[i]]]
  /\ UNCHANGED <<readers, comments, entry, edits, pruned, noticeFaults>>

\* A share is withdrawn or given again: the rows stay, out of sight meanwhile.
Share(u) ==
  /\ u # BriefOwner
  /\ readers' = IF u \in readers THEN readers \ {u} ELSE readers \cup {u}
  /\ UNCHANGED <<comments, entry, edits, inbox, pruned, noticeFaults>>

NoticeNext ==
  \/ \E u \in Reader, c \in CommentId, p \in CommentId \cup {NoParent} : PostComment(u, c, p)
  \/ \E c \in CommentId : DeleteComment(c)
  \/ \E u \in Reader, named \in SUBSET Reader : PostEntry(u, named) \/ EditEntry(u, named)
  \/ \E u \in Reader : ReadNotices(u) \/ Share(u)
  \/ DropEntry

NoticeSpec == NoticeInit /\ [][NoticeNext]_noticeVars

NoteType ==
  [type : {"journal_mention", "brief_comment", "comment_reply"},
   source : CommentId \cup {"entry"}, read : BOOLEAN]
NoticeTypeOK ==
  /\ readers \subseteq Reader
  /\ comments \in [CommentId -> [author : Reader \cup {"none"}, deleted : BOOLEAN,
       parent : CommentId \cup {NoParent}, due : Reader \cup {"none"}]]
  /\ entry \in [posted : BOOLEAN, mentions : SUBSET Reader, deleted : BOOLEAN]
  /\ edits \in 0 .. Edits
  /\ inbox \in [Reader -> Seq(NoteType)]
  /\ \A u \in Reader : Len(inbox[u]) <= InboxLimit
  /\ pruned \subseteq CommentId \cup {"entry"}
  /\ noticeFaults \in 0 .. NoticeFaults

\* The account that a comment was meant for, when it was written, has it in its
\* inbox until the pruning for a newer one takes it: a failure leaves neither a
\* comment nobody was told about nor a notice of no comment (comments/route.ts).
CommentsAreTold ==
  /\ \A c \in CommentId : \A u \in Reader :
       comments[c].due = u => c \in Sources(u) \cup pruned
  /\ \A u \in Reader : \A c \in Sources(u) \cap CommentId : comments[c].due = u
==============================================================================
