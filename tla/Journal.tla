------------------------------- MODULE Journal -------------------------------
(***************************************************************************)
(* The journal of one brief: entries and their threads, the assistant's    *)
(* replies, and the cache of catch-up summaries                            *)
(* (app/api/briefs/[id]/journal, lib/journal.ts, lib/journalCatchUpCache.ts,*)
(* lib/providerConcurrency.ts).                                            *)
(*                                                                         *)
(* A handler runs without interruption between two awaits.  Two handlers   *)
(* await after having read what they later rely on: PATCH of an entry      *)
(* awaits the body, and a question to the assistant awaits the provider    *)
(* between reading the journal and writing the reply.  A user has one      *)
(* request under way, kept in `req`.                                       *)
(*                                                                         *)
(* Abstractions.  A text is its revision: what the fingerprint and the     *)
(* assistant see of an entry is its id, revision, documents and whether it *)
(* is deleted.  All review candidates of the brief are one revision        *)
(* counter.  The window, scope and exclusions of a catch-up are an opaque  *)
(* key; the entries they filter out of the context are not modelled.       *)
(***************************************************************************)
EXTENDS Integers, FiniteSets

CONSTANTS
  User,        \* the people with access to the brief
  Writer,      \* those of them who may add documents
  Manager,     \* those of them who may delete any entry
  Key,         \* catch-up cache keys, without the fingerprint
  NoKey,       \* an ordinary question, outside Key
  Guest,       \* bound: those of them whose access may be taken away
  MaxEntries,  \* bound: entries ever inserted
  MaxChanges   \* bound: edits of entries and changes of candidates

ASSUME JournalAssumption ==
  /\ Writer \subseteq User /\ Manager \subseteq User /\ Guest \subseteq User
  /\ NoKey \notin Key
  /\ MaxEntries \in Nat /\ MaxChanges \in Nat

EntryId == 1..MaxEntries

VARIABLES
  count,    \* entries inserted so far: the ids in use are 1..count
  entries,  \* table journal_entries, with their documents
  signals,  \* revision of the brief's review candidates
  changes,  \* edits of entries and changes of candidates so far
  member,   \* who may collaborate on the brief
  cache,    \* table journal_catch_up_cache
  busy,     \* the provider semaphore's count for this brief
  req,      \* the suspended request of each user
  hidden    \* history: replies attached to a root that was already deleted

journalVars ==
  <<count, entries, signals, changes, member, cache, busy, req, hidden>>

------------------------------------------------------------------------------
(* Rows *)

NoEntry == [author |-> "none", by |-> "none", root |-> 0, rev |-> 0,
            deleted |-> FALSE]
LiveEntry(e) == e \in 1..count /\ ~entries[e].deleted

(* source_fingerprint of a journal of n entries: all of them, the deleted ones
   too, and the candidates *)
Stamp(rows, n) ==
  [entries |-> [e \in 1..n |-> <<rows[e].rev, rows[e].deleted>>],
   signals |-> signals]
Fingerprint == Stamp(entries, count)

(* what the assistant is given: the live entries *)
Seen(e) == <<e, entries[e].rev>>
Context == {Seen(e) : e \in {x \in 1..count : LiveEntry(x)}}

Idle == [phase |-> "idle", entry |-> 0, root |-> 0, key |-> NoKey,
         context |-> {}]

Row == [author : {"user", "assistant", "none"}, by : User \union {"none"},
        root : EntryId \union {0}, rev : 0..MaxChanges, deleted : BOOLEAN]

JournalTypeOK ==
  /\ count \in 0..MaxEntries
  /\ entries \in [EntryId -> Row]
  /\ \A e \in EntryId : entries[e].author = "none" <=> e > count
  /\ signals \in 0..MaxChanges /\ changes \in 0..MaxChanges
  /\ member \subseteq User
  /\ \A c \in cache : c.key \in Key /\ c.source \in 1..count
  /\ busy \in 0..1
  /\ \A u \in User : /\ req[u].phase \in {"idle", "edit", "upload", "call"}
                     /\ req[u].phase \in {"edit", "call"} => req[u].entry \in 1..count
  /\ hidden \subseteq 1..count

JournalInit ==
  /\ count = 0
  /\ entries = [e \in EntryId |-> NoEntry]
  /\ signals = 0 /\ changes = 0
  /\ member = User
  /\ cache = {} /\ busy = 0
  /\ req = [u \in User |-> Idle]
  /\ hidden = {}

------------------------------------------------------------------------------
(* Threads *)

(* resolveThreadRoot: 0 when there is nothing to reply to *)
ThreadRoot(t) ==
  IF ~LiveEntry(t) THEN 0
  ELSE IF entries[t].root = 0 THEN t
  ELSE IF LiveEntry(entries[t].root) THEN entries[t].root ELSE 0

NewEntry(u, author, root) ==
  [author |-> author, by |-> u, root |-> root, rev |-> 0, deleted |-> FALSE]

(* a top-level entry or a reply: 0, or the root of a live entry *)
Targets == {0} \union ({ThreadRoot(t) : t \in EntryId} \ {0})

(* POST without the assistant *)
Post(u, root) ==
  /\ req[u].phase = "idle" /\ u \in member /\ root \in Targets
  /\ count < MaxEntries
  /\ count' = count + 1
  /\ entries' = [entries EXCEPT ![count + 1] = NewEntry(u, "user", root)]
  /\ UNCHANGED <<signals, changes, member, cache, busy, req, hidden>>

(* PATCH: every check comes before the body is awaited *)
StartEdit(u, e) ==
  /\ req[u].phase = "idle" /\ u \in member
  /\ LiveEntry(e) /\ entries[e].author = "user" /\ entries[e].by = u
  /\ changes < MaxChanges /\ changes' = changes + 1
  /\ req' = [req EXCEPT ![u] = [Idle EXCEPT !.phase = "edit", !.entry = e]]
  /\ UNCHANGED <<count, entries, signals, member, cache, busy, hidden>>

FinishEdit(u) ==
  /\ req[u].phase = "edit"
  /\ entries' = [entries EXCEPT ![req[u].entry].rev = @ + 1]
  /\ req' = [req EXCEPT ![u] = Idle]
  /\ UNCHANGED <<count, signals, changes, member, cache, busy, hidden>>

(* DELETE: one's own entries, or any entry for a manager; replies stay *)
DeleteEntry(u, e) ==
  /\ req[u].phase = "idle" /\ u \in member
  /\ LiveEntry(e)
  /\ \/ u \in Manager
     \/ entries[e].author = "user" /\ entries[e].by = u
  /\ entries' = [entries EXCEPT ![e].deleted = TRUE]
  /\ UNCHANGED <<count, signals, changes, member, cache, busy, req, hidden>>

(* a document, or a web page, is extracted and stored with an entry of its
   own; access is not looked at again after the extraction *)
StartUpload(u) ==
  /\ req[u].phase = "idle" /\ u \in member \intersect Writer
  /\ req' = [req EXCEPT ![u] = [Idle EXCEPT !.phase = "upload"]]
  /\ UNCHANGED <<count, entries, signals, changes, member, cache, busy, hidden>>

FinishUpload(u) ==
  /\ req[u].phase = "upload"
  /\ count < MaxEntries
  /\ count' = count + 1
  /\ entries' = [entries EXCEPT ![count + 1] = NewEntry(u, "user", 0)]
  /\ req' = [req EXCEPT ![u] = Idle]
  /\ UNCHANGED <<signals, changes, member, cache, busy, hidden>>

(* a review candidate is created or changes its status *)
Review ==
  /\ changes < MaxChanges /\ changes' = changes + 1
  /\ signals' = signals + 1
  /\ UNCHANGED <<count, entries, member, cache, busy, req, hidden>>

Leave(u) ==
  /\ u \in member \intersect Guest /\ member' = member \ {u}
  /\ UNCHANGED <<count, entries, signals, changes, cache, busy, req, hidden>>

------------------------------------------------------------------------------
(* Asking the assistant *)

\* Mutant of Usable: deleted entries are left out of the comparison.
UsableAfterDeletion(k) ==
  {c \in cache :
     /\ c.key = k /\ c.fingerprint.signals = signals
     /\ \A e \in 1..count : LiveEntry(e) =>
          /\ e \in DOMAIN c.fingerprint.entries
          /\ c.fingerprint.entries[e][1] = entries[e].rev}

(* loadJournalCatchUpCache with the fingerprint of the moment *)
Usable(k) == {c \in cache : c.key = k /\ c.fingerprint = Fingerprint}

(* the user's entry and the cached summary are written at once *)
AskCached(u, k) ==
  /\ req[u].phase = "idle" /\ u \in member
  /\ Usable(k) # {}
  /\ count + 2 <= MaxEntries
  /\ count' = count + 2
  /\ entries' = [entries EXCEPT
       ![count + 1] = NewEntry(u, "user", 0),
       ![count + 2] = NewEntry(u, "assistant", count + 1)]
  /\ UNCHANGED <<signals, changes, member, cache, busy, req, hidden>>

(* no usable summary: the user's entry is written, the context is read, and
   the provider is called while the semaphore is held *)
Ask(u, k, root) ==
  /\ req[u].phase = "idle" /\ u \in member /\ root \in Targets
  /\ (k = NoKey \/ root # 0 \/ Usable(k) = {})
  /\ busy = 0 /\ busy' = 1
  /\ count < MaxEntries
  /\ count' = count + 1
  /\ entries' = [entries EXCEPT ![count + 1] = NewEntry(u, "user", root)]
  /\ req' = [req EXCEPT ![u] =
       [phase |-> "call", entry |-> count + 1,
        root |-> IF root = 0 THEN count + 1 ELSE root,
        key |-> IF root = 0 THEN k ELSE NoKey,
        context |-> Context \union {<<count + 1, 0>>}]]
  /\ UNCHANGED <<signals, changes, member, cache, hidden>>

(* the reply and, for an unthreaded catch-up, the cache row are written in one
   transaction, under a fingerprint taken then *)
Answer(u) ==
  LET a == count + 1
      written == [entries EXCEPT
                    ![a] = NewEntry(u, "assistant", req[u].root)]
  IN
  /\ req[u].phase = "call" /\ u \in member
  /\ count < MaxEntries
  /\ count' = a /\ entries' = written
  /\ cache' = IF req[u].key = NoKey THEN cache
              ELSE cache \union {[key |-> req[u].key,
                                  fingerprint |-> Stamp(written, a),
                                  context |-> req[u].context, source |-> a]}
  /\ hidden' = IF entries[req[u].root].deleted THEN hidden \union {a}
               ELSE hidden
  /\ busy' = busy - 1 /\ req' = [req EXCEPT ![u] = Idle]
  /\ UNCHANGED <<signals, changes, member>>

\* Mutant of NoAnswer: the permit is released by the handler and again by its
\* caller.
NoAnswerReleasesTwice(u) ==
  /\ req[u].phase = "call"
  /\ busy' = busy - 2 /\ req' = [req EXCEPT ![u] = Idle]
  /\ UNCHANGED <<count, entries, signals, changes, member, cache, hidden>>

(* the provider fails, or access was lost meanwhile: the user's entry stays *)
NoAnswer(u) ==
  /\ req[u].phase = "call"
  /\ busy' = busy - 1 /\ req' = [req EXCEPT ![u] = Idle]
  /\ UNCHANGED <<count, entries, signals, changes, member, cache, hidden>>

(* the web process restarts: requests and the semaphore are in memory only *)
Restart ==
  /\ req' = [u \in User |-> Idle] /\ busy' = 0
  /\ UNCHANGED <<count, entries, signals, changes, member, cache, hidden>>

------------------------------------------------------------------------------
Entry(u) ==
  \/ \E r \in {0} \union EntryId : Post(u, r)
  \/ \E e \in EntryId : StartEdit(u, e) \/ DeleteEntry(u, e)
  \/ FinishEdit(u) \/ StartUpload(u) \/ FinishUpload(u)

Assistant(u) ==
  \/ \E k \in Key : AskCached(u, k)
  \/ \E k \in Key \union {NoKey}, r \in {0} \union EntryId : Ask(u, k, r)
  \/ Answer(u) \/ NoAnswer(u)

JournalNext ==
  \/ \E u \in User : Entry(u) \/ Assistant(u) \/ Leave(u)
  \/ Review \/ Restart

JournalSafeSpec == JournalInit /\ [][JournalNext]_journalVars

(* The provider client gives up after 45 s. *)
JournalSpec == JournalSafeSpec /\ \A u \in User : WF_journalVars(Answer(u) \/ NoAnswer(u))

------------------------------------------------------------------------------
(* Properties *)

(* A summary whose reply was deleted is never served again. *)
DeletedIsNotServed ==
  \A k \in Key : \A c \in Usable(k) : LiveEntry(c.source)

(* JournalSection.tsx promises that cached catch-ups refresh when journal
   entries change: a usable summary has read every live entry as it is now
   (its own reply apart) and no entry that is gone. *)
CatchUpIsCurrent ==
  \A k \in Key : \A c \in Usable(k) :
    {Seen(e) : e \in {x \in 1..count : LiveEntry(x) /\ x # c.source}} = c.context

(* resolveThreadRoot says that a soft-deleted root cannot accrue a hidden live
   sub-thread. *)
NoHiddenReply == hidden = {}
==============================================================================
