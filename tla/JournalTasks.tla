----------------------------- MODULE JournalTasks -----------------------------
(***************************************************************************)
(* The to-do checklist of a brief: a tree of tasks (lib/journalTasks.ts).  *)
(*                                                                         *)
(* Every operation reads the live rows, checks and writes without an       *)
(* await, so it is one step.  Deleting is soft and takes the subtree.      *)
(*                                                                         *)
(* Abstractions.  Of a task only its place in the tree, whether it is live *)
(* and the candidate it was promoted from are kept: body, completion,      *)
(* metadata and the position among siblings decide nothing here.           *)
(***************************************************************************)
EXTENDS Integers, FiniteSets, JournalCandidates

CONSTANTS
  TaskId,      \* ids of tasks (the instance bounds how many are ever made)
  NoTask,      \* parent_id NULL
  MaxDepth,    \* MAX_TASK_DEPTH_LEVELS
  MaxTasks     \* MAX_TASKS_PER_BRIEF

ASSUME TasksAssumption ==
  /\ NoTask \notin TaskId
  /\ MaxDepth \in Nat \ {0} /\ MaxTasks \in Nat

VARIABLE tasks  \* table journal_tasks

Task == [state : {"free", "live", "deleted"}, parent : TaskId \union {NoTask},
         source : Candidate \union {NoCandidate}]
FreeTask == [state |-> "free", parent |-> NoTask, source |-> NoCandidate]

TasksTypeOK == tasks \in [TaskId -> Task]

TasksInit == tasks = [t \in TaskId |-> FreeTask]

------------------------------------------------------------------------------
(* The tree of the live tasks *)

Live == {t \in TaskId : tasks[t].state = "live"}
Parent(t) == tasks[t].parent

(* f gives every live task its depth, and every parent is live *)
IsDepth(f) ==
  \A t \in Live :
    \/ Parent(t) = NoTask /\ f[t] = 0
    \/ Parent(t) \in Live /\ f[t] = f[Parent(t)] + 1
Depths == [Live -> 0..MaxDepth - 1]

(* depthOf counts the ancestors of a task; on a forest no deeper than
   MAX_TASK_DEPTH_LEVELS the equations of IsDepth have this one solution *)
depthOf == CHOOSE f \in Depths : IsDepth(f)

UpClosed(S) == \A x \in S : Parent(x) \in Live => Parent(x) \in S
DownClosed(S) == \A x \in Live : Parent(x) \in S => x \in S

(* the walk from p to the root, which the cycle check follows *)
Path(p) == {x \in Live : \A S \in SUBSET Live : p \in S /\ UpClosed(S) => x \in S}

\* Mutant of Subtree: a task and its children only.
SubtreeOneLevel(t) == {x \in Live : x = t \/ Parent(x) = t}

(* what softDeleteTask collects with its stack, and subtreeHeight visits *)
Subtree(t) ==
  {x \in Live : \A S \in SUBSET Live : t \in S /\ DownClosed(S) => x \in S}

DepthUnder(p) == IF p = NoTask THEN 0 ELSE depthOf[p] + 1

------------------------------------------------------------------------------
(* Operations *)

InsertTask(t, p, c) ==
  /\ tasks[t].state = "free"
  /\ Cardinality(Live) < MaxTasks
  /\ p = NoTask \/ (p \in Live /\ DepthUnder(p) < MaxDepth)
  /\ tasks' = [tasks EXCEPT ![t] = [state |-> "live", parent |-> p, source |-> c]]

(* cycles and moves that push the subtree past the limit are refused; moving
   within the same parent only reorders *)
MoveTask(t, p) ==
  /\ t \in Live
  /\ p = NoTask \/ (p \in Live /\ t \notin Path(p))
  /\ \A x \in Subtree(t) : DepthUnder(p) + (depthOf[x] - depthOf[t]) < MaxDepth
  /\ tasks' = [tasks EXCEPT ![t].parent = p]

DeleteTask(t) ==
  /\ t \in Live
  /\ tasks' = [x \in TaskId |-> IF x \in Subtree(t)
                                THEN [tasks[x] EXCEPT !.state = "deleted"]
                                ELSE tasks[x]]

TasksNext ==
  \E t \in TaskId :
    \/ \E p \in TaskId \union {NoTask} :
         InsertTask(t, p, NoCandidate) \/ MoveTask(t, p)
    \/ DeleteTask(t)

------------------------------------------------------------------------------
(* Whatever is inserted, moved and deleted, the live tasks are a forest of at
   most MAX_TASK_DEPTH_LEVELS levels: listTasksForBrief, which starts at the
   top-level tasks, shows every one of them once and its recursion ends. *)
TaskForest == \E f \in Depths : IsDepth(f)
==============================================================================
