------------------------------ MODULE NoticeBell -----------------------------
(***************************************************************************)
(* The bell of one account (components/NotificationBell.tsx): a badge      *)
(* polled with a timer, a panel loaded when it opens, and clicks that are  *)
(* applied to the screen before the server is asked.                       *)
(*   arrived   the notices in the inbox; seen: those read, at the server   *)
(*   badge, panel, dark   the count on screen, the notices in the panel,   *)
(*             and those of them shown as read                             *)
(*   asks      the requests under way, at most one of each kind            *)
(***************************************************************************)
EXTENDS Naturals, FiniteSets

CONSTANTS Note, BellFaults     \* the notices; the requests the network loses

ASSUME BellAssumption == IsFiniteSet(Note) /\ BellFaults \in Nat

VARIABLES arrived, seen, badge, panel, dark, asks, bellFaults
screenVars == <<badge, panel, dark>>
bellVars == <<arrived, seen, screenVars, asks, bellFaults>>

Kind == {"count", "list", "read", "readall"}
Quiet == [stage |-> "none", ids |-> {}, unread |-> 0, items |-> {}, read |-> {}]

BellInit ==
  /\ arrived = {} /\ seen = {}
  /\ badge = 0 /\ panel = {} /\ dark = {}
  /\ asks = [k \in Kind |-> Quiet] /\ bellFaults = 0

Unread == arrived \ seen

\* A comment or a mention fills the inbox.
Notify(n) ==
  /\ n \notin arrived /\ arrived' = arrived \cup {n}
  /\ UNCHANGED <<seen, screenVars, asks, bellFaults>>

AskServer(k, ids) ==
  /\ asks[k].stage = "none"
  /\ asks' = [asks EXCEPT ![k] = [Quiet EXCEPT !.stage = "asked", !.ids = ids]]

\* The timer is set again once the previous answer, or failure, is in.
PollCount == AskServer("count", {}) /\ UNCHANGED <<arrived, seen, screenVars, bellFaults>>
OpenPanel == AskServer("list", {}) /\ UNCHANGED <<arrived, seen, screenVars, bellFaults>>

ClickNotice(n) ==
  /\ n \in panel \ dark
  /\ AskServer("read", {n})
  /\ dark' = dark \cup {n}
  /\ badge' = IF badge = 0 THEN 0 ELSE badge - 1
  /\ UNCHANGED <<arrived, seen, panel, bellFaults>>

ClickAll ==
  /\ badge > 0
  /\ AskServer("readall", {})
  /\ dark' = panel /\ badge' = 0
  /\ UNCHANGED <<arrived, seen, panel, bellFaults>>

\* The handlers: the update, then the count that every answer carries.
Serve(k) ==
  /\ asks[k].stage = "asked"
  /\ seen' = CASE k = "read" -> seen \cup (asks[k].ids \cap arrived)
               [] k = "readall" -> arrived
               [] OTHER -> seen
  /\ asks' = [asks EXCEPT ![k].stage = "answered", ![k].unread = Cardinality(arrived \ seen'),
                          ![k].items = IF k = "list" THEN arrived ELSE {},
                          ![k].read = IF k = "list" THEN seen ELSE {}]
  /\ UNCHANGED <<arrived, screenVars, bellFaults>>

\* The answers arrive in any order; that of "mark all read" is not looked at.
Arrive(k) ==
  /\ asks[k].stage = "answered"
  /\ badge' = IF k = "readall" THEN badge ELSE asks[k].unread
  /\ panel' = IF k = "list" THEN asks[k].items ELSE panel
  /\ dark' = IF k = "list" THEN asks[k].read ELSE dark
  /\ asks' = [asks EXCEPT ![k] = Quiet]
  /\ UNCHANGED <<arrived, seen, bellFaults>>

\* A slip: the timer is set in the success path only.
AfterLossStuck(k) == [asks EXCEPT ![k].stage = "lost"]
\* The network fails before or after the server acted: the screen stays as the
\* click left it, and the timer goes on.
AfterLoss(k) == [asks EXCEPT ![k] = Quiet]
LoseAnswer(k) ==
  /\ bellFaults < BellFaults /\ bellFaults' = bellFaults + 1
  /\ asks[k].stage \in {"asked", "answered"}
  /\ asks' = AfterLoss(k)
  /\ UNCHANGED <<arrived, seen, screenVars>>

BellNext ==
  \/ \E n \in Note : Notify(n) \/ ClickNotice(n)
  \/ PollCount \/ OpenPanel \/ ClickAll
  \/ \E k \in Kind : Serve(k) \/ Arrive(k) \/ LoseAnswer(k)

\* Whatever order the answers of the polls, the list and the clicks arrive in,
\* the badge ends up at the number of unread notices.
BadgeCatchesUp == <>[](badge = Cardinality(Unread))
==============================================================================
