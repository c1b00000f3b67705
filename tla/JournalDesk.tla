----------------------------- MODULE JournalDesk -----------------------------
(* The Journal in one browser tab: its address and workspaces, the feed with  *)
(* its overlapping requests, and the link to one entry, which widens the      *)
(* filters one by one until the entry can be scrolled to (JournalSection,     *)
(* journalWorkspaceLocation, journalFeedSequence, journalDeepLink).           *)
(* React runs an effect after each change of what it reads: an action here is *)
(* a handler or one run of the deep-link effect.                              *)
EXTENDS Integers, Sequences

CONSTANTS
  Post,        \* the entries of the Journal
  ThreadOf,    \* the root of the thread each entry belongs to
  Mentioning,  \* the threads that mention the reader
  HiddenBy,    \* for each thread, the narrowings that hide it
  NoPost,      \* no entry: an address without a link to one
  MaxClicks,   \* bound: what the reader does
  FeedFaults   \* bound: requests that fail

ASSUME DeskAssumption ==
  /\ MaxClicks \in Nat /\ FeedFaults \in Nat /\ NoPost \notin Post

VARIABLES
  location,    \* the address: [workspace, tab, hash]
  past,        \* the addresses the Back button returns to
  onScreen,    \* the workspace and the review tab the components show
  feed,        \* [posts, gone, scope]: what the last answer brought, and for whom
  onlyMine,    \* "Mentions me" is pressed
  asked,       \* requests on their way: [n, scope]
  newest,      \* the number of the newest request
  loading,
  narrowed,    \* the filters in force: "recent", "tag", "kind", "search"
  expanded,    \* the threads that are open
  done,        \* the entry whose link was handled, and how
  saving,      \* the scopes that posts under way will ask for when they return
  leaving,     \* where the radar will go when its request is answered
  tombstones,  \* entries deleted on the server
  clicks, feedFaults
deskVars == <<location, past, onScreen, feed, onlyMine, asked, newest, loading, narrowed,
              expanded, done, saving, leaving, tombstones, clicks, feedFaults>>

Place == [workspace : {"timeline", "sources"}, tab : {"pending"}]
         \union [workspace : {"review"}, tab : {"pending", "history"}]
Timeline == [workspace |-> "timeline", tab |-> "pending"]
NotHandled == [post |-> NoPost, how |-> "none"]
NoFeed == [posts |-> {}, gone |-> {}, scope |-> "none"]
Nowhere == [to |-> Timeline, hash |-> NoPost, after |-> 0]
Scope == IF onlyMine THEN "mine" ELSE "all"

------------------------------------------------------------------------------
(* journalWorkspaceLocation.ts *)
Address(place, hash) == [workspace |-> place.workspace, tab |-> place.tab, hash |-> hash]
\* A link to an entry overrides the workspace of the address, and the address
\* is rewritten to say so.
ParseLocation(l) ==
  IF l.hash # NoPost THEN Timeline ELSE [workspace |-> l.workspace, tab |-> l.tab]
Canonical(l) == Address(ParseLocation(l), l.hash)
HashForNavigation(l, place) == IF place.workspace = "timeline" THEN l.hash ELSE NoPost

(* What the timeline shows, and what of it could be shown at the widest. *)
Rendered(p, filters) ==
  /\ p \in feed.posts /\ {p, ThreadOf[p]} \intersect feed.gone = {}
  /\ filters \intersect HiddenBy[ThreadOf[p]] = {}
AnchorMounted(p) ==
  /\ onScreen.workspace = "timeline" /\ ThreadOf[p] \in expanded /\ Rendered(p, narrowed)

FeedMatchesSelection == ~loading /\ feed.scope = Scope

SearchForgotten(filters) ==
  CASE "recent" \in filters -> "recent"
    [] "recent" \notin filters /\ "tag" \in filters -> "tag"
    [] filters \intersect {"recent", "tag"} = {} /\ "kind" \in filters -> "kind"
    [] OTHER -> "give up"
(* journalDeepLink.ts: the filters give way one by one, in this order. *)
NextFilter(filters) ==
  CASE "recent" \in filters -> "recent"
    [] "recent" \notin filters /\ "tag" \in filters -> "tag"
    [] filters \intersect {"recent", "tag"} = {} /\ "kind" \in filters -> "kind"
    [] filters = {"search"} -> "search"
    [] OTHER -> "give up"
NextDeepLinkStep(p) ==
  LET found == p \in feed.posts IN
    CASE onScreen.workspace # "timeline" -> "timeline"
      [] onScreen.workspace = "timeline" /\ ~found /\ onlyMine -> "all"
      [] onScreen.workspace = "timeline" /\ found /\ ThreadOf[p] \notin expanded -> "expand"
      [] AnchorMounted(p) -> "scroll"
      [] OTHER -> NextFilter(narrowed)

------------------------------------------------------------------------------
DeskInit ==
  /\ location = Address(Timeline, NoPost) /\ past = << >> /\ onScreen = Timeline
  /\ feed = NoFeed /\ onlyMine = FALSE
  /\ asked = {[n |-> 1, scope |-> "all"]} /\ newest = 1 /\ loading = TRUE
  /\ narrowed = {"recent"} /\ expanded = {} /\ done = NotHandled
  /\ saving = {} /\ leaving = Nowhere /\ tombstones = {}
  /\ clicks = 0 /\ feedFaults = 0

Click == clicks < MaxClicks /\ clicks' = clicks + 1
Load(scope) ==
  /\ newest' = newest + 1 /\ loading' = TRUE
  /\ asked' = asked \union {[n |-> newest + 1, scope |-> scope]}
NoLoad == UNCHANGED <<asked, newest, loading>>
Navigated(place) ==
  /\ onScreen' = place
  /\ location' = Address(place, HashForNavigation(location, place))
  /\ past' = Append(past, location)
\* The hash is re-armed; a feed of the wrong scope with nothing under way is
\* asked for again.
HashChanged(hash) ==
  /\ done' = NotHandled
  /\ IF hash # NoPost /\ ~loading /\ feed.scope # Scope THEN Load(Scope) ELSE NoLoad

Navigate(place) ==
  /\ Click /\ place # onScreen
  /\ Navigated(place) /\ NoLoad
  /\ UNCHANGED <<feed, onlyMine, narrowed, expanded, done, saving, leaving, tombstones, feedFaults>>

(* A notice is clicked: a new address, or the same one with an event of its own. *)
ClickLink(p) ==
  /\ Click
  /\ location' = Canonical(Address(location, p))
  /\ past' = IF location.hash = p THEN past ELSE Append(past, location)
  /\ onScreen' = Timeline
  /\ HashChanged(p)
  /\ UNCHANGED <<feed, onlyMine, narrowed, expanded, saving, leaving, tombstones, feedFaults>>

Back ==
  /\ Click /\ past # << >>
  /\ LET to == past[Len(past)] IN
       /\ location' = Canonical(to) /\ onScreen' = ParseLocation(to)
       /\ IF to.hash = location.hash THEN NoLoad /\ UNCHANGED done ELSE HashChanged(to.hash)
  /\ past' = SubSeq(past, 1, Len(past) - 1)
  /\ UNCHANGED <<feed, onlyMine, narrowed, expanded, saving, leaving, tombstones, feedFaults>>

(* "Mentions me": the new filter loads the feed again. *)
ToggleMentions ==
  /\ Click /\ onScreen.workspace = "timeline" /\ onlyMine' = ~onlyMine
  /\ Load(IF onlyMine THEN "all" ELSE "mine")
  /\ UNCHANGED <<location, past, onScreen, feed, narrowed, expanded, done, saving, leaving, tombstones, feedFaults>>

(* The other filters, and a thread that is opened or closed.  The timeline is  *)
(* narrowed by kind only while all of it is shown.                             *)
Narrow(f) ==
  /\ Click /\ onScreen.workspace = "timeline"
  /\ f = "kind" => "recent" \notin narrowed
  /\ narrowed' = IF f \in narrowed THEN narrowed \ {f} ELSE narrowed \union {f}
  /\ NoLoad /\ UNCHANGED <<location, past, onScreen, feed, onlyMine, expanded, done, saving, leaving, tombstones, feedFaults>>
ToggleExpanded(t) ==
  /\ Click /\ onScreen.workspace = "timeline" /\ t \in feed.posts /\ Rendered(t, narrowed)
  /\ expanded' = IF t \in expanded THEN expanded \ {t} ELSE expanded \union {t}
  /\ NoLoad /\ UNCHANGED <<location, past, onScreen, feed, onlyMine, narrowed, done, saving, leaving, tombstones, feedFaults>>

(* A post, an edit, a deletion, a pin or a tag: when the request returns, the  *)
(* feed is loaded in the scope that was selected when it was sent.             *)
BeginMutation ==
  /\ Click /\ saving = {} /\ saving' = {Scope}
  /\ \/ UNCHANGED tombstones
     \/ \E p \in feed.posts : tombstones' = tombstones \union {p}
  /\ NoLoad /\ UNCHANGED <<location, past, onScreen, feed, onlyMine, narrowed, expanded, done, leaving, feedFaults>>
EndMutation ==
  \E s \in saving :
    /\ saving' = {}
    /\ \/ Load(s) /\ UNCHANGED feedFaults
       \/ feedFaults < FeedFaults /\ feedFaults' = feedFaults + 1 /\ NoLoad
    /\ UNCHANGED <<location, past, onScreen, feed, onlyMine, narrowed, expanded, done, leaving, tombstones, clicks>>

(* The radar refreshes the feed first and goes to the record afterwards. *)
LeaveFromRadar(place, p) ==
  /\ Click /\ leaving = Nowhere
  /\ leaving' = [to |-> place, hash |-> p, after |-> newest + 1] /\ Load(Scope)
  /\ UNCHANGED <<location, past, onScreen, feed, onlyMine, narrowed, expanded, done, saving, tombstones, feedFaults>>
ArriveFromRadar ==
  /\ leaving # Nowhere /\ \A r \in asked : r.n # leaving.after
  /\ leaving' = Nowhere
  /\ LET there == Address(leaving.to, HashForNavigation(location, leaving.to))
         hash == IF leaving.hash = NoPost THEN there.hash ELSE leaving.hash
     IN /\ location' = Canonical([there EXCEPT !.hash = hash])
        /\ past' = IF location' = location THEN past ELSE Append(past, location)
        /\ onScreen' = ParseLocation(location')
        /\ IF leaving.hash = NoPost THEN NoLoad /\ UNCHANGED done ELSE HashChanged(hash)
  /\ UNCHANGED <<feed, onlyMine, narrowed, expanded, saving, tombstones, clicks, feedFaults>>

------------------------------------------------------------------------------
(* The answer of a feed request; only the newest one counts. *)
IsCurrent(r) == r.n = newest
Served(scope) ==
  [posts |-> IF scope = "all" THEN Post ELSE {p \in Post : ThreadOf[p] \in Mentioning},
   gone |-> tombstones, scope |-> scope]
Answer(r) ==
  /\ asked' = asked \ {r}
  /\ \/ feed' = (IF IsCurrent(r) THEN Served(r.scope) ELSE feed) /\ UNCHANGED feedFaults
     \/ feedFaults < FeedFaults /\ feedFaults' = feedFaults + 1 /\ UNCHANGED feed
  /\ loading' = IF IsCurrent(r) THEN FALSE ELSE loading
  /\ UNCHANGED <<location, past, onScreen, onlyMine, newest, narrowed, expanded, done, saving, leaving, tombstones, clicks>>

(* One run of the deep-link effect. *)
Armed == location.hash # NoPost /\ done.post # location.hash
ApplyHash ==
  /\ Armed /\ feed # NoFeed /\ FeedMatchesSelection
  /\ LET p == location.hash
         step == NextDeepLinkStep(p)
         end(how) == done' = [post |-> p, how |-> how]
     IN /\ IF step = "timeline"
           THEN onScreen' = Timeline /\ location' = Address(Timeline, p)
           ELSE UNCHANGED <<onScreen, location>>
        /\ IF step = "all" THEN onlyMine' = FALSE /\ Load("all") ELSE NoLoad /\ UNCHANGED onlyMine
        /\ expanded' = IF step = "expand" THEN expanded \union {ThreadOf[p]} ELSE expanded
        /\ narrowed' = narrowed \ {step}
        /\ IF step = "scroll" THEN end("scrolled")
           ELSE IF step = "give up" THEN end("given up") ELSE UNCHANGED done
  /\ UNCHANGED <<past, feed, saving, leaving, tombstones, clicks, feedFaults>>

DeskStep == ApplyHash \/ EndMutation \/ ArriveFromRadar \/ \E r \in asked : Answer(r)
DeskNext ==
  \/ DeskStep \/ Back \/ ToggleMentions \/ BeginMutation
  \/ \E place \in Place : Navigate(place)
  \/ \E place \in Place, p \in Post \union {NoPost} :
       (p # NoPost => place = Timeline) /\ LeaveFromRadar(place, p)
  \/ \E p \in Post : ClickLink(p)
  \/ \E f \in {"recent", "tag", "kind", "search"} : Narrow(f)
  \/ \E t \in {ThreadOf[p] : p \in Post} : ToggleExpanded(t)
DeskSpec == DeskInit /\ [][DeskNext]_deskVars /\ WF_deskVars(DeskStep)

------------------------------------------------------------------------------
(* The workspace on the screen is the one a reload of the address would show, *)
(* after any mix of links, tabs, Back and the radar's late navigation          *)
(* (journalWorkspaceLocation.ts, navigateJournalWorkspace).                    *)
AddressAgrees == onScreen = ParseLocation(location)

(* A link to an entry ends at the entry, or is given up because the entry was *)
(* deleted, whatever the reader filters and folds in between; or it waits,     *)
(* unhandled, below a feed that is idle in another scope than the selected     *)
(* one, where the next click asks for it again.                                *)
Stuck == Armed /\ ~loading /\ feed.scope # Scope
Finished(p) ==
  \/ done = [post |-> p, how |-> "scrolled"]
  \/ done = [post |-> p, how |-> "given up"] /\ {p, ThreadOf[p]} \intersect tombstones # {}
LinkServed == location.hash = NoPost \/ Finished(location.hash) \/ Stuck
DeepLinkEnds == Armed ~> LinkServed
==============================================================================
