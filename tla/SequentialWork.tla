--------------------------- MODULE SequentialWork ---------------------------
(***************************************************************************)
(* What the workflow engine promises its clients, without files, queues or *)
(* handlers: workflows whose tasks are worked on one at a time, where a    *)
(* report on a task and what it means for the workflow are one event.      *)
(***************************************************************************)
CONSTANTS Workflows, Tasks, WfOf

VARIABLES
    work,       \* the status of every task, "absent" until it can be seen
    status      \* the status of every workflow

workVars == <<work, status>>

TasksOf(w) == {t \in Tasks : WfOf[t] = w /\ work[t] # "absent"}

\* A workflow appears with all its first tasks at once.
Create(w) ==
    /\ status[w] = "absent"
    /\ status' = [status EXCEPT ![w] = "active"]
    /\ \E first \in SUBSET {t \in Tasks : WfOf[t] = w} :
         work' = [t \in Tasks |-> IF t \in first THEN "pending" ELSE work[t]]

\* A fix may be asked for at any time, also in a workflow that has ended.
Insert(t) ==
    /\ work[t] = "absent" /\ status[WfOf[t]] # "absent"
    /\ work' = [work EXCEPT ![t] = "pending"]
    /\ UNCHANGED status

Start(t) ==
    /\ work[t] = "pending"
    /\ \A u \in TasksOf(WfOf[t]) : work[u] # "in_progress"
    /\ work' = [work EXCEPT ![t] = "in_progress"]
    /\ UNCHANGED status

Blocked(t) ==
    /\ work[t] = "in_progress"
    /\ work' = [work EXCEPT ![t] = "blocked"]
    /\ UNCHANGED status

Escalated(t) ==
    /\ work[t] \in {"in_progress", "escalated"}
    /\ work' = [work EXCEPT ![t] = "escalated"]
    /\ status' = [status EXCEPT ![WfOf[t]] = "escalated"]

\* The last task done completes its workflow, in whatever state that was.
Completed(t) ==
    /\ work[t] \in {"in_progress", "done"}
    /\ work' = [work EXCEPT ![t] = "done"]
    /\ status' = IF \A u \in TasksOf(WfOf[t]) \ {t} : work[u] = "done"
                 THEN [status EXCEPT ![WfOf[t]] = "completed"] ELSE status

Cancel(w) ==
    /\ status[w] = "active"
    /\ status' = [status EXCEPT ![w] = "cancelled"]
    /\ UNCHANGED work

WorkInit ==
    /\ work = [t \in Tasks |-> "absent"]
    /\ status = [w \in Workflows |-> "absent"]

WorkNext ==
    \/ \E w \in Workflows : Create(w) \/ Cancel(w)
    \/ \E t \in Tasks : Insert(t) \/ Start(t) \/ Blocked(t) \/ Escalated(t) \/ Completed(t)

WorkSpec == WorkInit /\ [][WorkNext]_workVars
=============================================================================
