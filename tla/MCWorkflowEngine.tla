-------------------------- MODULE MCWorkflowEngine --------------------------
(***************************************************************************)
(* Small instances of WorkflowEngine for TLC: a workflow created with one  *)
(* task and growing to two by an insertion, and a second workflow of one   *)
(* task, so that an agent's queue can mix workflows.                       *)
(***************************************************************************)
EXTENDS WorkflowEngine, TLC

CONSTANTS w1, w2, a1, a2, b1, x1

MCWorkflows == {w1, w2}
MCTasks == {a1, b1, x1}
MCWfOf == (a1 :> w1) @@ (b1 :> w2) @@ (x1 :> w1)
MCRank == (a1 :> 1) @@ (b1 :> 1) @@ (x1 :> 0)

(***************************************************************************)
(* One workflow created with two tasks, for the hand-over of work from one *)
(* task to the next and for restarts.                                      *)
(***************************************************************************)
OneWorkflow == {w1}
TwoTasks == {a1, a2}
ThreeTasks == {a1, a2, x1}
OneWfOf == [t \in ThreeTasks |-> w1]
OneRank == (a1 :> 1) @@ (a2 :> 2) @@ (x1 :> 0)
TwoWfOf == [t \in TwoTasks |-> w1]
TwoRank == (a1 :> 1) @@ (a2 :> 2)
=============================================================================
