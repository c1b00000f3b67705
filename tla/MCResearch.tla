----------------------------- MODULE MCResearch ------------------------------
(* Small instances of ResearchProperties for TLC: ann administers, bob owns  *)
(* the briefs.  Each run names the handlers its users call.                   *)
EXTENDS ResearchProperties, TLC

CONSTANTS ann, bob, c1

MCRole == ann :> "admin" @@ bob :> "member"
MCOwner == [b \in Brief |-> bob]
MCContent == [b \in Brief |-> c1]
AlwaysOn == {TRUE}
OnOrOff == BOOLEAN

QueueHandlers == {"create", "toggle", "schedule", "cancel"}
WorkHandlers == {"create", "refresh", "retry", "cancel", "edit", "role",
                 "disable", "remove", "share", "restart"}
DrainHandlers == {"create", "toggle", "check", "schedule", "cancel", "revert",
                  "delete", "remove"}
ToggleHandlers == {"toggle", "check", "role"}
OrphanHandlers == {"create", "remove"}
==============================================================================
